------------------------- MODULE CheckUpdateBatcher -------------------------
(***************************************************************************)
(* batcher.go: the buffer of check updates of agentless mode.              *)
(*                                                                         *)
(* Add, Flush and Stop run under pendingUpdatesMu, so each critical        *)
(* section is one action; the callback runs after the unlock, so a drained *)
(* batch stays in `batches' until ProcessUpdates. The flush timer is a     *)
(* time.AfterFunc: when it expires a goroutine calls Flush, which waits    *)
(* for the mutex. Timer.Stop has no effect on that goroutine, so Flush     *)
(* calls of timers that were already replaced can still be on their way    *)
(* (flushCalls).                                                           *)
(*                                                                         *)
(* An update is its serial number: the batcher never looks inside it.      *)
(***************************************************************************)
EXTENDS Naturals, FiniteSets

CONSTANTS
  Checks,              \* the keys makeCheckKey builds: one per check
  ConfigMaxBatchSize,  \* BatcherConfig.MaxBatchSize, 0 when not set
  MaxTxnOps,           \* maxTxnOps, what an unset batch size becomes
  FlushInterval,       \* flushInterval, in ticks of the clock
  MaxUpdates           \* bound: how many updates are added in a behaviour

ASSUME ChecksAssumption == IsFiniteSet(Checks)
ASSUME BatchSizeAssumption ==
  ConfigMaxBatchSize \in Nat /\ MaxTxnOps \in Nat \ {0}
ASSUME FlushIntervalAssumption == FlushInterval \in Nat \ {0}
ASSUME MaxUpdatesAssumption == MaxUpdates \in Nat

NoUpdate == 0

\* flushTimer == nil
NilTimer == FlushInterval + 1

\* NewCheckUpdateBatcher
MaxBatchSize == IF ConfigMaxBatchSize = 0 THEN MaxTxnOps ELSE ConfigMaxBatchSize

VARIABLES
  pendingUpdates,  \* the update that waits for each check, or NoUpdate
  flushTimer,      \* ticks until the timer expires, 0 once it did, or NilTimer
  flushCalls,      \* Flush goroutines started by a timer, before their Lock
  batches,         \* drained batches whose processFunc has not returned
  processed,       \* history: the updates processFunc was called with
  latest,          \* history: the last update added for each check
  issued,          \* history: how many updates were added
  waited           \* history: ticks each waiting update's check has waited

vars == <<pendingUpdates, flushTimer, flushCalls, batches, processed, latest,
          issued, waited>>

Updates == 1..MaxUpdates

EmptyBatch == [c \in Checks |-> NoUpdate]

\* The checks with an update in map m of updates.
Keys(m) == {c \in Checks : m[c] # NoUpdate}

-----------------------------------------------------------------------------

Init ==
  /\ pendingUpdates = EmptyBatch
  /\ flushTimer = NilTimer
  /\ flushCalls = 0
  /\ batches = {}
  /\ processed = {}
  /\ latest = EmptyBatch
  /\ issued = 0
  /\ waited = EmptyBatch

\* drainLocked and the unlock after it: m is the map the batch is made from.
DrainTo(m, timer) ==
  /\ flushTimer' = timer
  /\ pendingUpdates' = EmptyBatch
  /\ waited' = EmptyBatch
  /\ batches' = IF Keys(m) = {} THEN batches ELSE batches \cup {m}

\* Faulty variants: the timer is left in place by a drain; a drain forgets to clear
\* the map; a drain of nothing, by a timer that was replaced, is processed all the
\* same; every Add restarts the timer; the size limit is off by one.
DrainKeepsTimer(m) == DrainTo(m, flushTimer)

DrainKeepsUpdates(m) ==
  /\ flushTimer' = NilTimer
  /\ pendingUpdates' = m
  /\ waited' = waited
  /\ batches' = IF Keys(m) = {} THEN batches ELSE batches \cup {m}

DrainOfNothing(m) ==
  /\ flushTimer' = NilTimer
  /\ pendingUpdates' = EmptyBatch
  /\ waited' = EmptyBatch
  /\ batches' = batches \cup {m}

RestartTimer == flushTimer' = FlushInterval

AtLimitOffByOne(m) == Cardinality(Keys(m)) > MaxBatchSize

DrainLocked(m) == DrainTo(m, NilTimer)

\* The timer is started only if none is running.
StartTimer ==
  flushTimer' = IF flushTimer = NilTimer THEN FlushInterval ELSE flushTimer

AtLimit(m) == Cardinality(Keys(m)) >= MaxBatchSize

\* Add: store the update over any earlier one of the same check; at the limit
\* drain (the caller goes on to ProcessUpdates), below it make sure that a
\* timer runs.
Add(c) ==
  LET m == [pendingUpdates EXCEPT ![c] = issued + 1]
  IN  /\ issued < MaxUpdates
      /\ issued' = issued + 1
      /\ latest' = [latest EXCEPT ![c] = issued + 1]
      /\ \/ /\ AtLimit(m)
            /\ DrainLocked(m)
         \/ /\ ~AtLimit(m)
            /\ StartTimer
            /\ pendingUpdates' = m
            /\ UNCHANGED <<batches, waited>>
      /\ UNCHANGED <<flushCalls, processed>>

\* A tick of the clock. A timer that expires starts a Flush goroutine. What
\* `waited' measures is the wait that is the batcher's doing: it stands still
\* while a Flush goroutine is only waiting to be scheduled.
Tick ==
  /\ flushTimer \in 1..FlushInterval
  /\ flushTimer' = flushTimer - 1
  /\ flushCalls' = IF flushTimer = 1 THEN flushCalls + 1 ELSE flushCalls
  /\ waited' = [c \in Checks |->
                  IF pendingUpdates[c] # NoUpdate /\ flushCalls = 0
                  THEN waited[c] + 1 ELSE waited[c]]
  /\ UNCHANGED <<pendingUpdates, batches, processed, latest, issued>>

\* Flush, in the goroutine of an expired timer.
Flush ==
  /\ flushCalls > 0
  /\ flushCalls' = flushCalls - 1
  /\ DrainLocked(pendingUpdates)
  /\ UNCHANGED <<processed, latest, issued>>

\* Stop, by the check runner at shutdown: it drains, and Add still works after.
Stop ==
  /\ DrainLocked(pendingUpdates)
  /\ UNCHANGED <<flushCalls, processed, latest, issued>>

\* processUpdates: the callback runs, outside of the mutex.
ProcessUpdates(b) ==
  /\ b \in batches
  /\ batches' = batches \ {b}
  /\ processed' = processed \cup ({b[c] : c \in Checks} \ {NoUpdate})
  /\ UNCHANGED <<pendingUpdates, flushTimer, flushCalls, latest, issued, waited>>

Next ==
  \/ \E c \in Checks : Add(c)
  \/ Tick
  \/ Flush
  \/ Stop
  \/ \E b \in batches : ProcessUpdates(b)

\* Time passes, started goroutines run and callbacks return; nobody is obliged
\* to add an update or to stop the batcher.
Fairness ==
  /\ WF_vars(Tick)
  /\ WF_vars(Flush)
  /\ WF_vars(\E b \in batches : ProcessUpdates(b))

Spec == Init /\ [][Next]_vars /\ Fairness

-----------------------------------------------------------------------------
(***************************************************************************)
(* Properties.                                                             *)
(***************************************************************************)

\* The types of the state; a batch that goes to processFunc has an update in it,
\* although Flush and Stop may find that another drain left nothing.
TypeOK ==
  /\ pendingUpdates \in [Checks -> 0..MaxUpdates]
  /\ flushTimer \in 0..NilTimer
  /\ flushCalls \in Nat
  /\ batches \subseteq [Checks -> 0..MaxUpdates] \ {EmptyBatch}
  /\ processed \subseteq Updates
  /\ latest \in [Checks -> 0..MaxUpdates]
  /\ issued \in 0..MaxUpdates
  /\ waited \in [Checks -> Nat]

\* No update is stranded (Add, drainLocked): while something waits in the map
\* there is a timer that will expire, or one that expired and whose Flush call
\* is still to come, whatever calls of older, replaced timers drained before.
NoUpdateStranded ==
  /\ Keys(pendingUpdates) # {} => flushTimer # NilTimer
  /\ flushTimer = 0 => flushCalls > 0

\* The timer is started once and not restarted by later calls ("This ensures
\* batch flushes at regular intervals regardless of update rate"): no check
\* waits longer than flushInterval for the flush of its updates to start,
\* however often Add is called for it or for others.
WaitBounded == \A c \in Checks : waited[c] <= FlushInterval

\* Between critical sections the map stays below the limit, and no batch, by
\* any path, is larger than a transaction may be.
BatchSizeBounded ==
  /\ Cardinality(Keys(pendingUpdates)) < MaxBatchSize
  /\ \A b \in batches : Cardinality(Keys(b)) \in 1..MaxBatchSize

\* The last update added for a check is never lost and never processed twice:
\* it waits, or it is in one batch and no other, or it was processed.
LatestKept ==
  \A c \in Checks : latest[c] # NoUpdate =>
    LET waits == pendingUpdates[c] = latest[c]
        held  == \E b \in batches : b[c] = latest[c]
        done  == latest[c] \in processed
    IN  /\ waits \/ held \/ done
        /\ ~(waits /\ held) /\ ~(waits /\ done) /\ ~(held /\ done)
        /\ \A b1, b2 \in batches :
              b1[c] = latest[c] /\ b2[c] = latest[c] => b1 = b2

\* Every update is in the end handed to processFunc, or replaced by a newer one
\* of the same check before it was.
EventuallyProcessed ==
  \A u \in Updates, c \in Checks :
    latest[c] = u ~> (u \in processed \/ latest[c] # u)

\* The batcher implements the abstract buffer.
Buffer == INSTANCE UpdateBuffer
            WITH buffer <- pendingUpdates, inProcess <- batches

\* Refinement: Add is Put or PutAndTake, Flush and Stop are Take, the clock is
\* invisible, and the timer keeps the promise that what waits is taken.
ImplementsUpdateBuffer == Buffer!Spec
=============================================================================
