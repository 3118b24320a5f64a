------------------------- MODULE CheckRunnerProofs -------------------------
(***************************************************************************)
(* Proofs about CheckRunner, for any checks, results, thresholds, modes,   *)
(* flushers and budgets.                                                   *)
(***************************************************************************)
EXTENDS CheckRunner, TLAPS

\* The parts of TypeOK. What waits to be written is a result of a run, and never
\* the empty state that stands for "nothing to revert to".
CatalogTypes ==
  /\ catalog \in [Checks -> Results \cup {None}]
  /\ fresh \in [Checks -> SUBSET Flushers]

RunnerTypes ==
  /\ checks \in [Checks -> Objects \cup {None}]
  /\ critical \in [Checks -> {"none", "recent", "overdue"}]

PushRecords == [pc : PushPCs, result : Locals, old : Locals, live : BOOLEAN]

PushTypes ==
  /\ push \in [Pushers -> PushRecords]
  /\ \A p \in Pushers : push[p].pc # "idle" => push[p].result \in Results

Batches == [Checks -> PendingUpdates \cup {None}]

QueueTypes == pending \in Batches

FlushRecords ==
  [pc : FlushPCs, batch : Batches, todo : SUBSET Checks, ops : SUBSET Checks,
   failed : SUBSET {setting.nodeNS[c] : c \in Checks},
   cur : Checks \cup {None}, lock : {"none", "live", "dead"}]

\* A flush works on updates its batch has, and takes the lock only to revert the
\* one it is at.
FlushSound(r) ==
  /\ \A c \in r.todo \cup r.ops : r.batch[c] # None
  /\ r.lock # "none" => r.pc \in {"revertFailed", "revertAll", "retryRevert"}
  /\ r.lock # "none" \/ r.pc \in {"retryTxn", "retryRevert"} => r.cur \in r.todo

FlushTypes ==
  /\ flush \in [Flushers -> FlushRecords]
  /\ \A f \in Flushers : FlushSound(flush[f])

OtherTypes ==
  /\ setting \in Settings
  /\ service \in [Checks -> Results]
  /\ snapshot \in [Checks -> Results \cup {None}]
  /\ reaping \in Checks \cup {None}
  /\ runner \in {"running", "flushing", "closing", "stopped", "exited", "panicked"}

BudgetTypes ==
  flips \in 0..MaxFlips /\ faults \in 0..MaxFaults /\ changes \in 0..MaxCatalogChanges

\* Only of an entry that is there does anyone hold the ModifyIndex.
IndexOfEntry == \A c \in Checks : fresh[c] # {} => catalog[c] # None

RunnerInv ==
  /\ CatalogTypes /\ RunnerTypes /\ PushTypes /\ QueueTypes /\ FlushTypes /\ OtherTypes
  /\ BudgetTypes /\ IndexOfEntry

-----------------------------------------------------------------------------
(***************************************************************************)
(* The helpers                                                             *)
(***************************************************************************)

\* Pushers belong to checks, and every pusher may have to run a flush.
LEMMA PusherTypes ==
  /\ \A c \in Checks : /\ Update(c) \in Pushers /\ Update(c).check = c
                       /\ Deferred(c) \in Pushers /\ Deferred(c).check = c
  /\ \A p \in Pushers : p.check \in Checks /\ p \in Flushers
  /\ StopFlush \in Flushers /\ TimerFlushes \subseteq Flushers
  BY DEF Pushers, Update, Deferred, Flushers

\* A pusher and a flusher that do nothing.
LEMMA IdleTypes ==
  /\ IdlePush \in PushRecords /\ IdlePush.pc = "idle"
  /\ IdleFlush \in FlushRecords /\ FlushSound(IdleFlush) /\ IdleFlush.pc = "idle"
<1>1. IdlePush \in PushRecords /\ IdlePush.pc = "idle"
  BY DEF IdlePush, PushRecords, PushPCs, Locals
<1>2. [c \in Checks |-> None] \in Batches
  BY DEF Batches
<1>3. IdleFlush \in FlushRecords /\ IdleFlush.pc = "idle"
  BY <1>2 DEF IdleFlush, FlushRecords, FlushPCs
<1>4. FlushSound(IdleFlush)
  BY DEF IdleFlush, FlushSound
<1> QED BY <1>1, <1>3, <1>4

\* A phase of a flush that holds no lock goes over into a phase that works on
\* updates of the batch.
LEMMA AdvanceType ==
  ASSUME NEW r \in FlushRecords, r.lock = "none",
         r.pc \in {"fetch", "revertFailed", "revertAll", "retry"},
         \A c \in r.todo \cup r.ops : r.batch[c] # None
  PROVE  Advance(r) \in FlushRecords /\ FlushSound(Advance(r))
<1> DEFINE T == {c \in Checks : /\ r.batch[c] # None
                                /\ setting.nodeNS[c] \in r.failed
                                /\ r.batch[c].old # NoState}
           fetched == [r EXCEPT !.pc = "revertFailed", !.todo = T]
           written == [r EXCEPT !.pc = "txn"]
<1>1. T \in SUBSET Checks /\ \A c \in T : r.batch[c] # None
  OBVIOUS
<1>2. r \in FlushRecords /\ FlushSound(r)
  BY DEF FlushSound
<1>3. fetched \in FlushRecords /\ FlushSound(fetched)
  <2> HIDE DEF T
  <2>1. fetched \in FlushRecords
    BY <1>1 DEF FlushRecords, FlushPCs
  <2>2. /\ fetched.todo = T /\ fetched.ops = r.ops /\ fetched.batch = r.batch
        /\ fetched.lock = "none" /\ fetched.pc = "revertFailed"
    BY DEF FlushRecords
  <2> HIDE DEF fetched
  <2> QED BY <1>1, <2>1, <2>2 DEF FlushSound
<1>4. written \in FlushRecords /\ FlushSound(written)
  <2>1. written \in FlushRecords
    BY DEF FlushRecords, FlushPCs
  <2>2. /\ written.todo = r.todo /\ written.ops = r.ops /\ written.batch = r.batch
        /\ written.lock = "none" /\ written.pc = "txn"
    BY DEF FlushRecords
  <2> HIDE DEF written
  <2> QED BY <2>1, <2>2 DEF FlushSound
<1>5. Advance(r) \in {r, fetched, written, IdleFlush}
  BY DEF Advance
<1> HIDE DEF fetched, written
<1> QED BY <1>2, <1>3, <1>4, <1>5, IdleTypes

\* processBatchedUpdates begins with the updates of its batch.
LEMMA StartFlushType ==
  ASSUME NEW b \in Batches
  PROVE  StartFlush(b) \in FlushRecords /\ FlushSound(StartFlush(b))
<1> DEFINE T == {c \in Checks : b[c] # None}
           r == [IdleFlush EXCEPT !.pc = "fetch", !.batch = b, !.todo = T]
<1>1. T \in SUBSET Checks /\ \A c \in T : b[c] # None
  OBVIOUS
<1>2. r \in FlushRecords
  <2> HIDE DEF T
  <2> QED BY <1>1, IdleTypes DEF FlushRecords, FlushPCs
<1>3. r.pc = "fetch" /\ r.batch = b /\ r.todo = T /\ r.ops = {} /\ r.lock = "none"
  BY DEF IdleFlush
<1>4. StartFlush(b) = Advance(r)
  BY DEF StartFlush
<1> HIDE DEF r
<1> QED BY <1>1, <1>2, <1>3, <1>4, AdvanceType

\* A flusher's record changes, and a pusher that ran the flush may return.
LEMMA FlushBecomesType ==
  ASSUME FlushTypes, PushTypes, UNCHANGED setting, NEW f \in Flushers,
         NEW r \in FlushRecords, FlushSound(r), FlushBecomes(f, r)
  PROVE  (FlushTypes /\ PushTypes)'
<1>1. FlushRecords' = FlushRecords
  BY DEF FlushRecords
<1>2. FlushTypes'
  BY <1>1 DEF FlushTypes, FlushBecomes
<1>3. PushTypes'
  <2>1. CASE r.pc = "idle" /\ f \in Pushers
    BY <2>1, IdleTypes DEF PushTypes, FlushBecomes
  <2>2. CASE ~(r.pc = "idle" /\ f \in Pushers)
    BY <2>2 DEF PushTypes, FlushBecomes
  <2> QED BY <2>1, <2>2
<1> QED BY <1>2, <1>3

\* A pusher returns.
LEMMA PushReturnsType ==
  ASSUME PushTypes, NEW p \in Pushers, PushReturns(p)
  PROVE  PushTypes'
  BY IdleTypes DEF PushTypes, PushReturns

\* A write keeps the entries that appear or change typed, and leaves no one with
\* the index of an entry it removes.
LEMMA WriteKeepsCatalog ==
  ASSUME CatalogTypes, IndexOfEntry, NEW entries, WriteEntries(entries),
         \A c \in Checks \cap DOMAIN entries : entries[c] \in Results \cup {None}
  PROVE  (CatalogTypes /\ IndexOfEntry)'
<1>1. CatalogTypes'
  BY DEF CatalogTypes, WriteEntries, Written
<1>2. IndexOfEntry'
  BY DEF CatalogTypes, IndexOfEntry, WriteEntries, Written
<1> QED BY <1>1, <1>2

\* A write to the object a goroutine points to.
LEMMA LocalKeepsTypes ==
  ASSUME RunnerTypes, NEW c \in Checks, NEW live, NEW result \in Locals,
         SetLocal(c, live, result), UNCHANGED critical
  PROVE  RunnerTypes'
<1>1. CASE live /\ checks[c] # None
  <2>1. checks[c] \in Objects
    BY <1>1 DEF RunnerTypes
  <2>2. [checks[c] EXCEPT !.result = result] \in Objects
    BY <2>1 DEF Objects
  <2>3. checks' = [checks EXCEPT ![c] = [checks[c] EXCEPT !.result = result]]
    BY <1>1 DEF SetLocal
  <2> QED BY <2>2, <2>3 DEF RunnerTypes
<1>2. CASE ~(live /\ checks[c] # None)
  BY <1>2 DEF RunnerTypes, SetLocal
<1> QED BY <1>1, <1>2

\* The time tracking of a result.
LEMMA TrackCriticalType ==
  ASSUME RunnerTypes, NEW c \in Checks, NEW status, TrackCritical(c, status)
  PROVE  (critical \in [Checks -> {"none", "recent", "overdue"}])'
<1> DEFINE v == CASE status # "critical" -> "none"
                  [] status = "critical" /\ critical[c] = "none" -> "recent"
                  [] OTHER -> critical[c]
<1>1. critical[c] \in {"none", "recent", "overdue"}
  BY DEF RunnerTypes
<1>2. v \in {"none", "recent", "overdue"}
  BY <1>1
<1>3. critical' = [critical EXCEPT ![c] = v]
  BY DEF TrackCritical
<1> HIDE DEF v
<1> QED BY <1>2, <1>3 DEF RunnerTypes

\* The batcher's Add, below and at its limit.
LEMMA AddKeepsTypes ==
  ASSUME PushTypes, QueueTypes, FlushTypes, UNCHANGED setting, NEW p \in Pushers,
         NEW u \in PendingUpdates, NEW live \in BOOLEAN, Add(p, u, live)
  PROVE  (PushTypes /\ QueueTypes /\ FlushTypes)'
<1> DEFINE m == [d \in Checks |->
                   CASE d = p.check -> u
                     [] d # p.check /\ setting.key[d] = setting.key[p.check] -> None
                     [] OTHER -> pending[d]]
           busy == [pc |-> "flush", result |-> u.result, old |-> NoState, live |-> live]
           empty == [d \in Checks |-> None]
<1>1. m \in Batches /\ empty \in Batches
  BY DEF QueueTypes, Batches
<1>2. busy \in PushRecords /\ busy.result \in Results
  BY DEF PushRecords, PushPCs, Locals, PendingUpdates
<1>3. FlushRecords' = FlushRecords
  BY DEF FlushRecords
<1>4. \/ pending' = m /\ push' = [push EXCEPT ![p] = IdlePush] /\ UNCHANGED flush
      \/ /\ pending' = empty /\ push' = [push EXCEPT ![p] = busy]
         /\ flush' = [flush EXCEPT ![p] = StartFlush(m)]
  BY DEF Add
<1>5. StartFlush(m) \in FlushRecords /\ FlushSound(StartFlush(m)) /\ p \in Flushers
  BY <1>1, StartFlushType, PusherTypes
<1> HIDE DEF m, busy, empty
<1>6. QueueTypes'
  BY <1>1, <1>4 DEF QueueTypes
<1>7. PushTypes'
  BY <1>2, <1>4, IdleTypes DEF PushTypes
<1>8. FlushTypes'
  BY <1>3, <1>4, <1>5 DEF FlushTypes
<1> QED BY <1>6, <1>7, <1>8

\* handleCheckUpdate, with and without the batcher.
LEMMA HandleKeepsTypes ==
  ASSUME PushTypes, QueueTypes, FlushTypes, UNCHANGED setting, NEW p \in Pushers,
         NEW result \in Results, NEW old \in Locals, NEW live \in BOOLEAN,
         HandleCheckUpdate(p, result, old, live)
  PROVE  (PushTypes /\ QueueTypes /\ FlushTypes)'
<1> DEFINE u == [result |-> result, old |-> old]
           adds == [pc |-> "add", result |-> result, old |-> old, live |-> live]
           fetches == [pc |-> "fetch", result |-> result, old |-> NoState, live |-> live]
<1>1. u \in PendingUpdates
  BY DEF PendingUpdates
<1>2. /\ adds \in PushRecords /\ adds.result \in Results
      /\ fetches \in PushRecords /\ fetches.result \in Results
  BY DEF PushRecords, PushPCs, Locals
<1>3. \/ Add(p, u, live)
      \/ /\ UNCHANGED <<pending, flush>>
         /\ push' = [push EXCEPT ![p] = adds] \/ push' = [push EXCEPT ![p] = fetches]
  BY DEF HandleCheckUpdate
<1> HIDE DEF u, adds, fetches
<1>4. CASE Add(p, u, live)
  BY <1>1, <1>4, AddKeepsTypes
<1>5. CASE /\ UNCHANGED <<pending, flush>>
           /\ push' = [push EXCEPT ![p] = adds] \/ push' = [push EXCEPT ![p] = fetches]
  <2>1. PushTypes'
    BY <1>2, <1>5 DEF PushTypes
  <2>2. FlushRecords' = FlushRecords
    BY DEF FlushRecords
  <2> QED BY <1>5, <2>1, <2>2 DEF QueueTypes, FlushTypes
<1> QED BY <1>3, <1>4, <1>5

-----------------------------------------------------------------------------
(***************************************************************************)
(* The steps                                                               *)
(***************************************************************************)

\* The invariant holds when the runner starts.
LEMMA RunnerInit == Init => RunnerInv
<1> SUFFICES ASSUME Init PROVE RunnerInv
  OBVIOUS
<1> USE DEF Init
<1>1. CatalogTypes /\ RunnerTypes /\ QueueTypes
  BY SettingsAssumption DEF CatalogTypes, RunnerTypes, QueueTypes, Batches
<1>2. PushTypes /\ FlushTypes
  BY IdleTypes DEF PushTypes, FlushTypes
<1>3. OtherTypes
  BY SettingsAssumption DEF OtherTypes, NoSnapshot
<1>4. BudgetTypes
  BY LimitAssumption DEF BudgetTypes
<1>5. IndexOfEntry
  BY DEF IndexOfEntry
<1> QED BY <1>1, <1>2, <1>3, <1>4, <1>5 DEF RunnerInv

\* Services, operators and time.
LEMMA EnvironmentKeepsInv ==
  ASSUME RunnerInv, NEW c \in Checks, Flip(c) \/ CatalogChange(c) \/ Age(c)
  PROVE  RunnerInv'
<1> USE DEF RunnerInv, catalogVars, runnerVars, queueVars, otherVars
<1>1. UNCHANGED <<setting, checks, push, pending, flush, snapshot, reaping, runner, faults>>
  BY DEF Flip, CatalogChange, Age
<1>2. (PushTypes /\ QueueTypes /\ FlushTypes)'
  <2>1. FlushRecords' = FlushRecords
    BY <1>1 DEF FlushRecords
  <2> QED BY <1>1, <2>1 DEF PushTypes, QueueTypes, FlushTypes
<1>3. CASE Flip(c)
  BY <1>1, <1>2, <1>3, LimitAssumption, SettingsAssumption
     DEF Flip, CatalogTypes, RunnerTypes, OtherTypes, BudgetTypes, IndexOfEntry
<1>4. CASE CatalogChange(c)
  <2>1. CatalogTypes' /\ IndexOfEntry'
    BY <1>4, SettingsAssumption DEF CatalogChange, Written, CatalogTypes, IndexOfEntry,
                                    OtherTypes
  <2>2. (RunnerTypes /\ OtherTypes /\ BudgetTypes)'
    BY <1>1, <1>4, LimitAssumption DEF CatalogChange, RunnerTypes, OtherTypes, BudgetTypes
  <2> QED BY <1>2, <2>1, <2>2
<1>5. CASE Age(c)
  BY <1>1, <1>2, <1>5 DEF Age, CatalogTypes, RunnerTypes, OtherTypes, BudgetTypes, IndexOfEntry
<1> QED BY <1>3, <1>4, <1>5

\* Steps that leave the catalog and what is neither the runner's nor a queue.
LEMMA LocalStep ==
  ASSUME RunnerInv, UNCHANGED <<catalogVars, otherVars, faults>>,
         (RunnerTypes /\ PushTypes /\ QueueTypes /\ FlushTypes)'
  PROVE  RunnerInv'
<1> USE DEF catalogVars, otherVars
<1>1. CatalogTypes' /\ IndexOfEntry'
  BY DEF RunnerInv, CatalogTypes, IndexOfEntry
<1>2. OtherTypes' /\ BudgetTypes'
  BY DEF RunnerInv, OtherTypes, BudgetTypes
<1> QED BY <1>1, <1>2 DEF RunnerInv

\* Queues that do not change.
LEMMA QueuesUnchanged ==
  ASSUME PushTypes, QueueTypes, FlushTypes, UNCHANGED setting
  PROVE  /\ UNCHANGED push => PushTypes'
         /\ UNCHANGED pending => QueueTypes'
         /\ UNCHANGED flush => FlushTypes'
<1>1. FlushRecords' = FlushRecords
  BY DEF FlushRecords
<1> QED BY <1>1 DEF PushTypes, QueueTypes, FlushTypes

\* The object of a check with a counter back at zero.
LEMMA ResetType ==
  ASSUME RunnerTypes, OtherTypes, NEW c \in Checks, checks[c] # None
  PROVE  /\ ResetCounter(c) \in Objects
         /\ [ResetCounter(c) EXCEPT !.result = service[c]] \in Objects
         /\ checks[c] \in Objects /\ checks[c].result \in Locals
         /\ service[c] \in Results /\ service[c] \in Locals
<1>1. checks[c] \in Objects /\ service[c] \in Results /\ service[c] \in Locals
  BY DEF RunnerTypes, OtherTypes, Locals
<1>2. ResetCounter(c) \in Objects
  BY <1>1, ThresholdAssumption DEF ResetCounter, Objects
<1>3. [ResetCounter(c) EXCEPT !.result = service[c]] \in Objects
  BY <1>1, <1>2 DEF Objects
<1>4. checks[c].result \in Locals
  BY <1>1 DEF Objects
<1> QED BY <1>1, <1>2, <1>3, <1>4

\* A run of a check.
LEMMA RunCheckKeepsInv ==
  ASSUME RunnerInv, NEW c \in Checks, RunCheck(c)
  PROVE  RunnerInv'
<1>1. checks[c] # None
  BY DEF RunCheck, IdempotentResult, CountResult, DeferResult, PushResult, AcceptResult, CanRun
<1>2. /\ ResetCounter(c) \in Objects
      /\ [ResetCounter(c) EXCEPT !.result = service[c]] \in Objects
      /\ checks[c] \in Objects /\ checks[c].result \in Locals
      /\ service[c] \in Results /\ service[c] \in Locals
  BY <1>1, ResetType DEF RunnerInv
<1>3. UNCHANGED <<catalogVars, otherVars, faults>> /\ UNCHANGED setting
  BY DEF RunCheck, IdempotentResult, CountResult, DeferResult, PushResult, otherVars
<1>4. (critical \in [Checks -> {"none", "recent", "overdue"}])'
  <2>1. (\E status : TrackCritical(c, status)) \/ UNCHANGED critical
    BY DEF RunCheck, IdempotentResult, CountResult, DeferResult, PushResult, AcceptResult
  <2> QED BY <2>1, TrackCriticalType DEF RunnerInv, RunnerTypes
<1>5. ASSUME NEW o \in Objects, checks' = [checks EXCEPT ![c] = o]
      PROVE  RunnerTypes'
  BY <1>4, <1>5 DEF RunnerInv, RunnerTypes
<1>6. CASE IdempotentResult(c)
  <2> DEFINE o == [checks[c] EXCEPT !.failures = DecrementCounter(@),
                                    !.successes = DecrementCounter(@)]
  <2>1. checks' = [checks EXCEPT ![c] = o]
    BY <1>6 DEF IdempotentResult, RunnerInv, RunnerTypes
  <2>2. o \in Objects
    <3>1. \A m \in Nat : \A n \in 0..m : DecrementCounter(n) \in 0..m
      BY DEF DecrementCounter
    <3>2. /\ DecrementCounter(checks[c].failures) \in 0..CriticalThreshold
          /\ DecrementCounter(checks[c].successes) \in 0..PassingThreshold
      BY <1>2, <3>1, ThresholdAssumption DEF Objects
    <3> QED BY <1>2, <3>2 DEF Objects
  <2>3. RunnerTypes'
    BY <1>5, <2>1, <2>2
  <2>4. UNCHANGED <<push, pending, flush>>
    BY <1>6 DEF IdempotentResult, queueVars
  <2> QED BY <1>3, <2>3, <2>4, LocalStep, QueuesUnchanged DEF RunnerInv
<1>7. CASE CountResult(c)
  <2> DEFINE more == [checks[c] EXCEPT !.failures = @ + 1]
             most == [checks[c] EXCEPT !.successes = @ + 1]
  <2>1. ASSUME service[c].status = "critical" PROVE RunnerTypes'
    <3>1. checks' = [checks EXCEPT ![c] = more] /\ checks[c].failures < CriticalThreshold
      BY <1>7, <2>1 DEF CountResult, BelowThreshold
    <3>2. more \in Objects
      BY <1>2, <3>1, ThresholdAssumption DEF Objects
    <3> QED BY <1>5, <3>1, <3>2
  <2>2. ASSUME service[c].status # "critical" PROVE RunnerTypes'
    <3>1. checks' = [checks EXCEPT ![c] = most] /\ checks[c].successes < PassingThreshold
      BY <1>7, <2>2 DEF CountResult, BelowThreshold
    <3>2. most \in Objects
      BY <1>2, <3>1, ThresholdAssumption DEF Objects
    <3> QED BY <1>5, <3>1, <3>2
  <2>3. RunnerTypes'
    BY <2>1, <2>2
  <2>4. UNCHANGED <<push, pending, flush>>
    BY <1>7 DEF CountResult, queueVars
  <2> QED BY <1>3, <2>3, <2>4, LocalStep, QueuesUnchanged DEF RunnerInv
<1>8. CASE DeferResult(c)
  <2>1. RunnerTypes'
    BY <1>2, <1>5, <1>8 DEF DeferResult
  <2>2. PushTypes'
    <3> DEFINE a == [pc |-> "armed", result |-> service[c], old |-> NoState,
                     live |-> TRUE]
    <3>1. a \in PushRecords /\ a.result \in Results
      BY <1>2 DEF PushRecords, PushPCs, Locals
    <3>2. push' = [push EXCEPT ![Deferred(c)] = a] \/ push' = push
      BY <1>8 DEF DeferResult
    <3> HIDE DEF a
    <3> QED BY <3>1, <3>2, PusherTypes DEF RunnerInv, PushTypes
  <2>3. UNCHANGED <<pending, flush>>
    BY <1>8 DEF DeferResult
  <2> QED BY <1>3, <2>1, <2>2, <2>3, LocalStep, QueuesUnchanged DEF RunnerInv
<1>9. CASE PushResult(c)
  <2>1. RunnerTypes'
    BY <1>2, <1>5, <1>9 DEF PushResult
  <2>2. (PushTypes /\ QueueTypes /\ FlushTypes)'
    <3>1. HandleCheckUpdate(Update(c), service[c], checks[c].result, TRUE)
      BY <1>9 DEF PushResult
    <3> QED BY <1>2, <1>3, <3>1, HandleKeepsTypes, PusherTypes DEF RunnerInv
  <2> QED BY <1>3, <2>1, <2>2, LocalStep
<1> QED BY <1>6, <1>7, <1>8, <1>9 DEF RunCheck

\* The timer of a deferred push fires.
LEMMA DeferredKeepsInv ==
  ASSUME RunnerInv, NEW c \in Checks, DeferredFires(c)
  PROVE  RunnerInv'
<1> DEFINE d == push[Deferred(c)]
<1>1. d \in PushRecords /\ d.result \in Results /\ d.live \in BOOLEAN
  <2>1. d \in PushRecords /\ d.result \in Results
    BY PusherTypes DEF DeferredFires, RunnerInv, PushTypes
  <2> QED BY <2>1 DEF PushRecords
<1>2. HandleCheckUpdate(Deferred(c), d.result, NoState, d.live) /\ NoState \in Locals
  BY DEF DeferredFires, Locals
<1>3. UNCHANGED <<catalogVars, otherVars, faults>> /\ UNCHANGED <<setting, runnerVars>>
  BY DEF DeferredFires, otherVars
<1>4. (PushTypes /\ QueueTypes /\ FlushTypes)'
  BY <1>1, <1>2, <1>3, HandleKeepsTypes, PusherTypes DEF RunnerInv
<1>5. RunnerTypes'
  BY <1>3 DEF RunnerInv, RunnerTypes, runnerVars
<1> QED BY <1>3, <1>4, <1>5, LocalStep

\* An Add that comes a step after the comparison of c.batcher to nil.
LEMMA LateAddKeepsInv ==
  ASSUME RunnerInv, NEW p \in Pushers, LateAdd(p)
  PROVE  RunnerInv'
<1> DEFINE u == [result |-> push[p].result, old |-> push[p].old]
<1>1. push[p] \in PushRecords /\ push[p].result \in Results
  BY DEF LateAdd, RunnerInv, PushTypes
<1>2. u \in PendingUpdates /\ push[p].live \in BOOLEAN
  BY <1>1 DEF PushRecords, PendingUpdates
<1>3. Add(p, u, push[p].live)
  BY DEF LateAdd
<1>4. UNCHANGED <<catalogVars, otherVars, faults>> /\ UNCHANGED <<setting, runnerVars>>
  BY DEF LateAdd, otherVars
<1> HIDE DEF u
<1>5. (PushTypes /\ QueueTypes /\ FlushTypes)'
  BY <1>2, <1>3, <1>4, AddKeepsTypes DEF RunnerInv
<1>6. RunnerTypes'
  BY <1>4 DEF RunnerInv, RunnerTypes, runnerVars
<1> QED BY <1>4, <1>5, <1>6, LocalStep

\* The process ends.
LEMMA EndKeepsInv ==
  ASSUME RunnerInv, Exit \/ \E p \in Pushers : AddToNil(p)
  PROVE  RunnerInv'
<1>1. ProcessEnds("exited") \/ ProcessEnds("panicked")
  BY DEF Exit, AddToNil
<1>2. UNCHANGED <<setting, catalog, service, flips, faults, changes>>
  BY <1>1 DEF ProcessEnds
<1>3. OtherTypes' /\ BudgetTypes'
  BY <1>1, <1>2 DEF ProcessEnds, NoSnapshot, RunnerInv, OtherTypes, BudgetTypes
<1>4. CatalogTypes' /\ IndexOfEntry' /\ RunnerTypes' /\ QueueTypes'
  BY <1>1, <1>2 DEF ProcessEnds, RunnerInv, CatalogTypes, IndexOfEntry, RunnerTypes,
                    QueueTypes, Batches
<1>5. (PushTypes /\ FlushTypes)'
  <2>1. FlushRecords' = FlushRecords
    BY <1>2 DEF FlushRecords
  <2> QED BY <1>1, <2>1, IdleTypes DEF ProcessEnds, PushTypes, FlushTypes
<1> QED BY <1>3, <1>4, <1>5 DEF RunnerInv

\* Steps at Consul of a pusher or a flusher: what they leave alone, and what a
\* request that fails costs.
LEMMA RemoteStep ==
  ASSUME RunnerInv, UNCHANGED otherVars, UNCHANGED faults \/ Fault,
         (CatalogTypes /\ IndexOfEntry /\ RunnerTypes /\ PushTypes /\ QueueTypes
            /\ FlushTypes)'
  PROVE  RunnerInv'
<1>1. OtherTypes' /\ BudgetTypes'
  BY LimitAssumption DEF RunnerInv, OtherTypes, BudgetTypes, otherVars, Fault
<1> QED BY <1>1 DEF RunnerInv

\* The entry of a check is read, or the index of it is given up.
LEMMA ReadKeepsCatalog ==
  ASSUME CatalogTypes, IndexOfEntry, UNCHANGED catalog,
         fresh' \in [Checks -> SUBSET Flushers],
         \A c \in Checks : fresh'[c] \subseteq fresh[c] \/ catalog[c] # None
  PROVE  (CatalogTypes /\ IndexOfEntry)'
  BY DEF CatalogTypes, IndexOfEntry

\* The two requests of handleCheckUpdateImmediate.
LEMMA ImmediateKeepsInv ==
  ASSUME RunnerInv, NEW p \in Pushers, ImmediateFetch(p) \/ ImmediateTxn(p)
  PROVE  RunnerInv'
<1> USE DEF RunnerInv
<1> DEFINE c == p.check
<1>1. c \in Checks /\ p \in Flushers
  BY PusherTypes
<1>2. /\ UNCHANGED otherVars /\ UNCHANGED <<setting, pending, flush>>
      /\ UNCHANGED faults \/ Fault
  BY DEF ImmediateFetch, ImmediateTxn, otherVars
<1>3. QueueTypes' /\ FlushTypes'
  BY <1>2, QueuesUnchanged
<1>4. CASE ImmediateFetch(p)
  <2>1. RunnerTypes'
    BY <1>4 DEF ImmediateFetch, RunnerTypes, runnerVars
  <2>2. PushTypes'
    <3> DEFINE r == [push[p] EXCEPT !.pc = "txn"]
    <3>1. push[p] \in PushRecords /\ push[p].result \in Results
      BY <1>4 DEF ImmediateFetch, PushTypes
    <3>2. r \in PushRecords /\ r.result \in Results
      BY <3>1 DEF PushRecords, PushPCs
    <3>3. PushReturns(p) \/ push' = [push EXCEPT ![p] = r]
      BY <1>4 DEF ImmediateFetch
    <3> HIDE DEF r
    <3>4. CASE push' = [push EXCEPT ![p] = r]
      BY <3>2, <3>4 DEF PushTypes
    <3> QED BY <3>3, <3>4, PushReturnsType
  <2>3. CatalogTypes' /\ IndexOfEntry'
    <3>1. UNCHANGED catalog
      BY <1>4 DEF ImmediateFetch
    <3>2. \/ UNCHANGED fresh
          \/ catalog[c] # None /\ fresh' = [fresh EXCEPT ![c] = fresh[c] \cup {p}]
      BY <1>4 DEF ImmediateFetch
    <3> HIDE DEF c
    <3> QED BY <1>1, <3>1, <3>2, ReadKeepsCatalog DEF CatalogTypes
  <2> QED BY <1>2, <1>3, <2>1, <2>2, <2>3, RemoteStep
<1>5. CASE ImmediateTxn(p)
  <2>1. PushTypes'
    BY <1>5, PushReturnsType DEF ImmediateTxn
  <2>2. push[p].result \in Results /\ push[p].result \in Locals
    BY <1>5 DEF ImmediateTxn, PushTypes, Locals
  <2>3. RunnerTypes'
    <3>1. UNCHANGED critical
      BY <1>5 DEF ImmediateTxn
    <3>2. SetLocal(c, push[p].live, push[p].result) \/ UNCHANGED checks
      BY <1>5 DEF ImmediateTxn
    <3>3. CASE UNCHANGED checks
      BY <3>1, <3>3 DEF RunnerTypes
    <3> QED BY <1>1, <2>2, <3>1, <3>2, <3>3, LocalKeepsTypes
  <2>4. CatalogTypes' /\ IndexOfEntry'
    <3> DEFINE entry == [d \in {c} |-> push[p].result]
    <3>1. \/ WriteEntries(entry)
          \/ UNCHANGED catalog /\ fresh' = [fresh EXCEPT ![c] = fresh[c] \ {p}]
      BY <1>5 DEF ImmediateTxn
    <3>2. \A d \in Checks \cap DOMAIN entry : entry[d] \in Results \cup {None}
      BY <2>2
    <3>3. ASSUME WriteEntries(entry) PROVE CatalogTypes' /\ IndexOfEntry'
      <4> HIDE DEF entry
      <4> QED BY <3>2, <3>3, WriteKeepsCatalog
    <3>4. ASSUME UNCHANGED catalog, fresh' = [fresh EXCEPT ![c] = fresh[c] \ {p}]
          PROVE  CatalogTypes' /\ IndexOfEntry'
      BY <1>1, <3>4, ReadKeepsCatalog DEF CatalogTypes
    <3> QED BY <3>1, <3>3, <3>4
  <2> QED BY <1>2, <1>3, <2>1, <2>3, <2>4, RemoteStep
<1> QED BY <1>4, <1>5

\* The batcher's timer.
LEMMA TimerFlushKeepsInv ==
  ASSUME RunnerInv, NEW f \in TimerFlushes, TimerFlush(f)
  PROVE  RunnerInv'
<1> USE DEF RunnerInv
<1>1. UNCHANGED <<catalogVars, otherVars, faults>> /\ UNCHANGED <<setting, runnerVars, push>>
  BY DEF TimerFlush, otherVars
<1>2. FlushTypes'
  <2>1. FlushRecords' = FlushRecords
    BY <1>1 DEF FlushRecords
  <2>2. StartFlush(pending) \in FlushRecords /\ FlushSound(StartFlush(pending))
    BY StartFlushType DEF QueueTypes
  <2> QED BY <2>1, <2>2, PusherTypes DEF TimerFlush, FlushTypes
<1>3. QueueTypes'
  BY DEF TimerFlush, QueueTypes, Batches
<1>4. PushTypes' /\ RunnerTypes'
  BY <1>1 DEF PushTypes, RunnerTypes, runnerVars
<1> QED BY <1>1, <1>2, <1>3, <1>4, LocalStep

\* The record of a flusher with another phase and less to do, which holds no lock.
LEMMA NextPhaseType ==
  ASSUME NEW r \in FlushRecords, FlushSound(r),
         NEW pc \in {"fetch", "revertFailed", "revertAll", "retry"},
         NEW T \in SUBSET (r.todo \cup r.ops), NEW O \in SUBSET Checks,
         \A c \in O : r.batch[c] # None,
         NEW F \in SUBSET {setting.nodeNS[c] : c \in Checks}, NEW cur \in Checks \cup {None},
         NEW s, s = [r EXCEPT !.pc = pc, !.todo = T, !.ops = O, !.failed = F,
                              !.cur = cur, !.lock = "none"]
  PROVE  Advance(s) \in FlushRecords /\ FlushSound(Advance(s))
<1>1. s \in FlushRecords
  BY DEF FlushRecords, FlushPCs
<1>2. s.pc = pc /\ s.todo = T /\ s.ops = O /\ s.batch = r.batch /\ s.lock = "none"
  BY DEF FlushRecords
<1>3. \A c \in T \cup O : r.batch[c] # None
  BY DEF FlushSound
<1> QED BY <1>1, <1>2, <1>3, AdvanceType

\* One Health().Node request of processBatchedUpdates.
LEMMA FlushFetchType ==
  ASSUME RunnerInv, NEW f \in Flushers, FlushFetch(f)
  PROVE  /\ (CatalogTypes /\ IndexOfEntry)'
         /\ \E r \in FlushRecords : FlushSound(r) /\ FlushBecomes(f, r)
<1> DEFINE r == flush[f]
<1>1. r \in FlushRecords /\ FlushSound(r) /\ r.pc = "fetch" /\ r.lock = "none"
  <2>1. r \in FlushRecords /\ FlushSound(r) /\ r.pc = "fetch"
    BY DEF FlushFetch, RunnerInv, FlushTypes
  <2> QED BY <2>1 DEF FlushSound
<1> DEFINE n(c) == setting.nodeNS[c]
           found(c) == {d \in Checks : n(d) = n(c) /\ r.batch[d] # None /\ catalog[d] # None}
           s1(c) == [r EXCEPT !.todo = @ \ {c}, !.failed = @ \cup {n(c)}]
           s2(c) == [r EXCEPT !.todo = {d \in @ : n(d) # n(c)}, !.ops = @ \cup found(c)]
<1>2. PICK c \in r.todo :
        \/ FlushBecomes(f, Advance(s1(c))) /\ UNCHANGED fresh
        \/ /\ FlushBecomes(f, Advance(s2(c)))
           /\ fresh' = [d \in Checks |-> IF d \in found(c) THEN fresh[d] \cup {f}
                                                           ELSE fresh[d]]
  BY DEF FlushFetch
<1>3. r.todo \in SUBSET Checks /\ r.ops \in SUBSET Checks
      /\ r.failed \in SUBSET {setting.nodeNS[d] : d \in Checks} /\ r.cur \in Checks \cup {None}
  BY <1>1 DEF FlushRecords
<1>4. Advance(s1(c)) \in FlushRecords /\ FlushSound(Advance(s1(c)))
  <2> DEFINE T == r.todo \ {c}
             F == r.failed \cup {n(c)}
             s == [r EXCEPT !.pc = "fetch", !.todo = T, !.ops = r.ops, !.failed = F,
                            !.cur = r.cur, !.lock = "none"]
  <2>1. s1(c) = s
    BY <1>1 DEF FlushRecords
  <2>2. T \in SUBSET (r.todo \cup r.ops) /\ F \in SUBSET {setting.nodeNS[d] : d \in Checks}
    BY <1>3
  <2>3. \A d \in r.ops : r.batch[d] # None
    BY <1>1 DEF FlushSound
  <2>4. Advance(s) \in FlushRecords /\ FlushSound(Advance(s))
    <3> HIDE DEF r, T, F, s1
    <3> QED BY <1>1, <1>3, <2>2, <2>3, NextPhaseType
  <2> QED BY <2>1, <2>4
<1>5. Advance(s2(c)) \in FlushRecords /\ FlushSound(Advance(s2(c)))
  <2> DEFINE T == {d \in r.todo : n(d) # n(c)}
             O == r.ops \cup found(c)
             s == [r EXCEPT !.pc = "fetch", !.todo = T, !.ops = O, !.failed = r.failed,
                            !.cur = r.cur, !.lock = "none"]
  <2>1. s2(c) = s
    BY <1>1 DEF FlushRecords
  <2>2. T \in SUBSET (r.todo \cup r.ops) /\ O \in SUBSET Checks
    BY <1>3
  <2>3. \A d \in O : r.batch[d] # None
    BY <1>1 DEF FlushSound
  <2>4. Advance(s) \in FlushRecords /\ FlushSound(Advance(s))
    <3> HIDE DEF r, T, O, s2
    <3> QED BY <1>1, <1>3, <2>2, <2>3, NextPhaseType
  <2> QED BY <2>1, <2>4
<1>6. \E q \in FlushRecords : FlushSound(q) /\ FlushBecomes(f, q)
  BY <1>2, <1>4, <1>5
<1>7. CatalogTypes' /\ IndexOfEntry'
  <2>1. UNCHANGED catalog
    BY DEF FlushFetch
  <2>2. \A d \in found(c) : catalog[d] # None
    OBVIOUS
  <2> HIDE DEF r, found, s1, s2
  <2> QED BY <1>2, <2>1, <2>2, ReadKeepsCatalog DEF RunnerInv, CatalogTypes
<1> QED BY <1>6, <1>7

\* Giving the index up, and what a flusher writes.
LEMMA ReleaseKeepsCatalog ==
  ASSUME CatalogTypes, IndexOfEntry, NEW f \in Flushers, UNCHANGED catalog,
         fresh' = Releases(f) \/ UNCHANGED fresh
  PROVE  (CatalogTypes /\ IndexOfEntry)'
  BY ReadKeepsCatalog DEF CatalogTypes, Releases

\* What a flush works on is an update, with a result to write.
LEMMA BatchResults ==
  ASSUME NEW r \in FlushRecords, FlushSound(r), NEW c \in r.todo \cup r.ops
  PROVE  /\ c \in Checks /\ r.batch[c] \in PendingUpdates
         /\ r.batch[c].result \in Results /\ r.batch[c].old \in Locals
<1>1. c \in Checks /\ r.batch[c] \in PendingUpdates
  BY DEF FlushRecords, Batches, FlushSound
<1> QED BY <1>1 DEF PendingUpdates

\* executeBatchTransaction.
LEMMA FlushTxnType ==
  ASSUME RunnerInv, NEW f \in Flushers, FlushTxn(f)
  PROVE  /\ (CatalogTypes /\ IndexOfEntry)'
         /\ \E r \in FlushRecords : FlushSound(r) /\ FlushBecomes(f, r)
<1> DEFINE r == flush[f]
           entries == [c \in r.ops |-> r.batch[c].result]
           stale == {c \in r.ops : ~CASOK(f, c)}
           retry == [r EXCEPT !.pc = "retry", !.todo = stale]
           olds == {c \in r.ops : r.batch[c].old # NoState}
           reverting == [r EXCEPT !.pc = "revertAll", !.todo = olds]
<1>1. r \in FlushRecords /\ FlushSound(r) /\ r.pc = "txn" /\ r.lock = "none"
  <2>1. r \in FlushRecords /\ FlushSound(r) /\ r.pc = "txn"
    BY DEF FlushTxn, RunnerInv, FlushTypes
  <2> QED BY <2>1 DEF FlushSound
<1>2. r.ops \in SUBSET Checks /\ r.failed \in SUBSET {setting.nodeNS[d] : d \in Checks}
      /\ r.cur \in Checks \cup {None}
  BY <1>1 DEF FlushRecords
<1>3. \A d \in r.ops : r.batch[d] # None
  BY <1>1 DEF FlushSound
<1>4. retry \in FlushRecords /\ FlushSound(retry)
  <2>1. stale \in SUBSET Checks /\ \A d \in stale : r.batch[d] # None
    BY <1>2, <1>3
  <2> HIDE DEF r, stale
  <2>2. retry \in FlushRecords
    BY <1>1, <2>1 DEF FlushRecords, FlushPCs
  <2>3. /\ retry.pc = "retry" /\ retry.todo = stale /\ retry.ops = r.ops
        /\ retry.batch = r.batch /\ retry.lock = "none"
    BY <1>1 DEF FlushRecords
  <2> HIDE DEF retry
  <2> QED BY <1>3, <2>1, <2>2, <2>3 DEF FlushSound
<1>5. Advance(reverting) \in FlushRecords /\ FlushSound(Advance(reverting))
  <2> DEFINE s == [r EXCEPT !.pc = "revertAll", !.todo = olds, !.ops = r.ops,
                            !.failed = r.failed, !.cur = r.cur, !.lock = "none"]
  <2>1. olds \in SUBSET (r.todo \cup r.ops)
    OBVIOUS
  <2> HIDE DEF olds
  <2>2. reverting = s
    BY <1>1 DEF FlushRecords
  <2> HIDE DEF r, reverting
  <2> QED BY <1>1, <1>2, <1>3, <2>1, <2>2, NextPhaseType
<1>6. \/ FlushBecomes(f, IdleFlush) /\ WriteEntries(entries)
      \/ FlushBecomes(f, Advance(reverting)) /\ WriteEntries(entries)
      \/ FlushBecomes(f, retry) /\ fresh' = Releases(f) /\ UNCHANGED catalog
      \/ FlushBecomes(f, Advance(reverting)) /\ fresh' = Releases(f) /\ UNCHANGED catalog
  BY DEF FlushTxn
<1>7. \E q \in FlushRecords : FlushSound(q) /\ FlushBecomes(f, q)
  <2> HIDE DEF entries, retry, reverting
  <2> QED BY <1>4, <1>5, <1>6, IdleTypes
<1>8. CatalogTypes' /\ IndexOfEntry'
  <2>1. \A c \in Checks \cap DOMAIN entries : entries[c] \in Results \cup {None}
    BY <1>1, BatchResults
  <2>2. WriteEntries(entries) \/ (fresh' = Releases(f) /\ UNCHANGED catalog)
    BY <1>6
  <2> HIDE DEF entries
  <2> QED BY <2>1, <2>2, WriteKeepsCatalog, ReleaseKeepsCatalog DEF RunnerInv
<1> QED BY <1>7, <1>8

\* retryFailedBatchOperations reads an entry again ...
LEMMA RetryFetchType ==
  ASSUME RunnerInv, NEW f \in Flushers, RetryFetch(f)
  PROVE  /\ (CatalogTypes /\ IndexOfEntry)'
         /\ \E r \in FlushRecords : FlushSound(r) /\ FlushBecomes(f, r)
<1> DEFINE r == flush[f]
           skipped(c) == [r EXCEPT !.todo = @ \ {c}]
           again(c) == [r EXCEPT !.pc = "retryTxn", !.cur = c]
<1>1. r \in FlushRecords /\ FlushSound(r) /\ r.pc = "retry" /\ r.lock = "none"
  <2>1. r \in FlushRecords /\ FlushSound(r) /\ r.pc = "retry"
    BY DEF RetryFetch, RunnerInv, FlushTypes
  <2> QED BY <2>1 DEF FlushSound
<1>2. PICK c \in r.todo :
        \/ FlushBecomes(f, Advance(skipped(c))) /\ UNCHANGED fresh
        \/ /\ FlushBecomes(f, again(c)) /\ catalog[c] # None
           /\ fresh' = [fresh EXCEPT ![c] = @ \cup {f}]
  BY DEF RetryFetch
<1>3. c \in Checks /\ r.ops \in SUBSET Checks /\ r.cur \in Checks \cup {None}
      /\ r.failed \in SUBSET {setting.nodeNS[d] : d \in Checks}
  BY <1>1 DEF FlushRecords
<1>4. \A d \in r.ops : r.batch[d] # None
  BY <1>1 DEF FlushSound
<1>5. Advance(skipped(c)) \in FlushRecords /\ FlushSound(Advance(skipped(c)))
  <2> DEFINE T == r.todo \ {c}
             s == [r EXCEPT !.pc = "retry", !.todo = T, !.ops = r.ops,
                            !.failed = r.failed, !.cur = r.cur, !.lock = "none"]
  <2>1. skipped(c) = s
    BY <1>1 DEF FlushRecords
  <2>2. T \in SUBSET (r.todo \cup r.ops)
    OBVIOUS
  <2>3. Advance(s) \in FlushRecords /\ FlushSound(Advance(s))
    <3> HIDE DEF r, T, skipped, again
    <3> QED BY <1>1, <1>3, <1>4, <2>2, NextPhaseType
  <2> QED BY <2>1, <2>3
<1>6. again(c) \in FlushRecords /\ FlushSound(again(c))
  <2>1. again(c) \in FlushRecords
    <3> HIDE DEF r
    <3> QED BY <1>1, <1>3 DEF FlushRecords, FlushPCs
  <2>2. /\ again(c).pc = "retryTxn" /\ again(c).todo = r.todo /\ again(c).ops = r.ops
        /\ again(c).batch = r.batch /\ again(c).lock = "none" /\ again(c).cur = c
    BY <1>1 DEF FlushRecords
  <2> HIDE DEF r, again
  <2> QED BY <1>1, <1>2, <2>1, <2>2 DEF FlushSound
<1>7. \E q \in FlushRecords : FlushSound(q) /\ FlushBecomes(f, q)
  BY <1>2, <1>5, <1>6
<1>8. CatalogTypes' /\ IndexOfEntry'
  <2>1. UNCHANGED catalog
    BY DEF RetryFetch
  <2>2. \/ UNCHANGED fresh
        \/ catalog[c] # None /\ fresh' = [fresh EXCEPT ![c] = fresh[c] \cup {f}]
    BY <1>2
  <2> HIDE DEF r, skipped, again
  <2> QED BY <1>3, <2>1, <2>2, ReadKeepsCatalog DEF RunnerInv, CatalogTypes
<1> QED BY <1>7, <1>8

\* ... and writes it.
LEMMA RetryTxnType ==
  ASSUME RunnerInv, NEW f \in Flushers, RetryTxn(f)
  PROVE  /\ (CatalogTypes /\ IndexOfEntry)'
         /\ \E r \in FlushRecords : FlushSound(r) /\ FlushBecomes(f, r)
<1> DEFINE r == flush[f]
           c == r.cur
           entry == [d \in {c} |-> r.batch[d].result]
           next == [r EXCEPT !.pc = "retry", !.todo = @ \ {c}, !.cur = None]
           again == [r EXCEPT !.pc = "retryRevert"]
<1>1. r \in FlushRecords /\ FlushSound(r) /\ r.pc = "retryTxn"
  BY DEF RetryTxn, RunnerInv, FlushTypes
<1>2. r.lock = "none" /\ c \in r.todo
  BY <1>1 DEF FlushSound
<1>3. r.ops \in SUBSET Checks /\ r.failed \in SUBSET {setting.nodeNS[d] : d \in Checks}
  BY <1>1 DEF FlushRecords
<1>4. \A d \in r.ops : r.batch[d] # None
  BY <1>1 DEF FlushSound
<1>5. Advance(next) \in FlushRecords /\ FlushSound(Advance(next))
  <2> DEFINE T == r.todo \ {c}
             s == [r EXCEPT !.pc = "retry", !.todo = T, !.ops = r.ops,
                            !.failed = r.failed, !.cur = None, !.lock = "none"]
  <2>1. next = s
    BY <1>1, <1>2 DEF FlushRecords
  <2>2. T \in SUBSET (r.todo \cup r.ops)
    OBVIOUS
  <2>3. Advance(s) \in FlushRecords /\ FlushSound(Advance(s))
    <3> HIDE DEF r, T, next, again
    <3> QED BY <1>1, <1>3, <1>4, <2>2, NextPhaseType
  <2> QED BY <2>1, <2>3
<1>6. again \in FlushRecords /\ FlushSound(again)
  <2>1. again \in FlushRecords
    <3> HIDE DEF r
    <3> QED BY <1>1 DEF FlushRecords, FlushPCs
  <2>2. /\ again.pc = "retryRevert" /\ again.todo = r.todo /\ again.ops = r.ops
        /\ again.batch = r.batch /\ again.lock = "none" /\ again.cur = c
    BY <1>1, <1>2 DEF FlushRecords
  <2> HIDE DEF r, again
  <2> QED BY <1>1, <1>2, <2>1, <2>2 DEF FlushSound
<1>7. \/ FlushBecomes(f, Advance(next)) /\ WriteEntries(entry)
      \/ FlushBecomes(f, again) /\ UNCHANGED <<catalog, fresh>>
      \/ FlushBecomes(f, Advance(next)) /\ fresh' = Releases(f) /\ UNCHANGED catalog
  BY DEF RetryTxn, catalogVars
<1>8. \E q \in FlushRecords : FlushSound(q) /\ FlushBecomes(f, q)
  <2> HIDE DEF entry, next, again
  <2> QED BY <1>5, <1>6, <1>7
<1>9. CatalogTypes' /\ IndexOfEntry'
  <2>1. r.batch[c].result \in Results
    <3> HIDE DEF r, c
    <3> QED BY <1>1, <1>2, BatchResults
  <2>2. \A d \in Checks \cap DOMAIN entry : entry[d] \in Results \cup {None}
    BY <2>1
  <2>3. WriteEntries(entry) \/ ((fresh' = Releases(f) \/ UNCHANGED fresh) /\ UNCHANGED catalog)
    BY <1>7
  <2> HIDE DEF entry
  <2> QED BY <2>2, <2>3, WriteKeepsCatalog, ReleaseKeepsCatalog DEF RunnerInv
<1> QED BY <1>8, <1>9

\* A reversion is over, of the check the flush is at.
LEMMA RevertDoneType ==
  ASSUME NEW r \in FlushRecords, FlushSound(r), NEW c,
         r.pc \in {"revertFailed", "revertAll", "retryRevert"}
  PROVE  RevertDone(r, c) \in FlushRecords /\ FlushSound(RevertDone(r, c))
<1> DEFINE T == r.todo \ {c}
           s == [r EXCEPT !.pc = IF @ = "retryRevert" THEN "retry" ELSE @,
                          !.todo = T, !.cur = None, !.lock = "none"]
<1>1. T \in SUBSET Checks /\ T \subseteq r.todo
  BY DEF FlushRecords
<1>2. RevertDone(r, c) = Advance(s)
  BY DEF RevertDone
<1>3. s \in FlushRecords
  <2> HIDE DEF T
  <2> QED BY <1>1 DEF FlushRecords, FlushPCs
<1>4. /\ s.pc \in {"revertFailed", "revertAll", "retry"}
      /\ s.todo = T /\ s.ops = r.ops /\ s.batch = r.batch /\ s.lock = "none"
  BY DEF FlushRecords
<1>5. \A d \in T \cup r.ops : r.batch[d] # None
  BY DEF FlushSound
<1> HIDE DEF s, T
<1> QED BY <1>2, <1>3, <1>4, <1>5, AdvanceType

\* revertCheckState: the look-up, and the restoration under the lock.
LEMMA RevertType ==
  ASSUME RunnerInv, NEW f \in Flushers, RevertLoad(f) \/ RevertLock(f)
  PROVE  /\ RunnerTypes'
         /\ \E r \in FlushRecords : FlushSound(r) /\ FlushBecomes(f, r)
<1> DEFINE r == flush[f]
<1>1. r \in FlushRecords /\ FlushSound(r)
  BY DEF RunnerInv, FlushTypes
<1>2. r.pc \in {"revertFailed", "revertAll", "retryRevert"}
  BY <1>1 DEF RevertLoad, RevertLock, FlushSound
<1>3. CASE RevertLoad(f)
  <2> DEFINE locked(c) == [r EXCEPT !.cur = c, !.lock = "live"]
  <2>1. PICK c \in r.todo : FlushBecomes(f, RevertDone(r, c)) \/ FlushBecomes(f, locked(c))
    BY <1>3 DEF RevertLoad
  <2>2. RevertDone(r, c) \in FlushRecords /\ FlushSound(RevertDone(r, c))
    BY <1>1, <1>2, RevertDoneType
  <2>3. locked(c) \in FlushRecords /\ FlushSound(locked(c))
    <3>1. c \in Checks
      BY <1>1 DEF FlushRecords
    <3>2. locked(c) \in FlushRecords
      <4> HIDE DEF r
      <4> QED BY <1>1, <3>1 DEF FlushRecords
    <3>3. /\ locked(c).pc = r.pc /\ locked(c).todo = r.todo /\ locked(c).ops = r.ops
          /\ locked(c).batch = r.batch /\ locked(c).lock = "live" /\ locked(c).cur = c
      BY <1>1 DEF FlushRecords
    <3> HIDE DEF r, locked
    <3> QED BY <1>1, <1>2, <3>2, <3>3 DEF FlushSound
  <2>4. RunnerTypes'
    BY <1>3 DEF RevertLoad, RunnerInv, RunnerTypes, runnerVars
  <2> QED BY <2>1, <2>2, <2>3, <2>4
<1>4. CASE RevertLock(f)
  <2>1. r.cur \in r.todo
    BY <1>1, <1>4 DEF RevertLock, FlushSound
  <2>2. r.cur \in Checks /\ r.batch[r.cur].old \in Locals
    <3> HIDE DEF r
    <3> QED BY <1>1, <2>1, BatchResults
  <2>3. /\ SetLocal(r.cur, r.lock = "live", r.batch[r.cur].old) /\ UNCHANGED critical
        /\ FlushBecomes(f, RevertDone(r, r.cur))
    BY <1>4 DEF RevertLock
  <2>4. RunnerTypes'
    BY <2>2, <2>3, LocalKeepsTypes DEF RunnerInv
  <2>5. RevertDone(r, r.cur) \in FlushRecords /\ FlushSound(RevertDone(r, r.cur))
    BY <1>1, <1>2, RevertDoneType
  <2> QED BY <2>3, <2>4, <2>5
<1> QED BY <1>3, <1>4

\* The steps of processBatchedUpdates and of what it calls.
LEMMA FlusherKeepsInv ==
  ASSUME RunnerInv, NEW f \in Flushers, Flusher(f)
  PROVE  RunnerInv'
<1> USE DEF RunnerInv
<1>1. /\ UNCHANGED otherVars /\ UNCHANGED <<setting, pending>>
      /\ UNCHANGED faults \/ Fault
  BY DEF Flusher, FlushFetch, FlushTxn, RetryFetch, RetryTxn, RevertLoad, RevertLock, otherVars
<1>2. \E r \in FlushRecords : FlushSound(r) /\ FlushBecomes(f, r)
  BY FlushFetchType, FlushTxnType, RetryFetchType, RetryTxnType, RevertType DEF Flusher
<1>3. (PushTypes /\ FlushTypes)'
  BY <1>1, <1>2, FlushBecomesType
<1>4. QueueTypes'
  BY <1>1, QueuesUnchanged
<1>5. CASE FlushFetch(f) \/ FlushTxn(f) \/ RetryFetch(f) \/ RetryTxn(f)
  <2>1. (CatalogTypes /\ IndexOfEntry)'
    BY <1>5, FlushFetchType, FlushTxnType, RetryFetchType, RetryTxnType
  <2>2. RunnerTypes'
    BY <1>5 DEF FlushFetch, FlushTxn, RetryFetch, RetryTxn, RunnerTypes, runnerVars
  <2> QED BY <1>1, <1>3, <1>4, <2>1, <2>2, RemoteStep
<1>6. CASE RevertLoad(f) \/ RevertLock(f)
  <2>1. UNCHANGED <<catalogVars, otherVars, faults>>
    BY <1>6 DEF RevertLoad, RevertLock
  <2>2. RunnerTypes'
    BY <1>6, RevertType
  <2> QED BY <1>3, <1>4, <2>1, <2>2, LocalStep
<1> QED BY <1>5, <1>6 DEF Flusher

\* The watch and UpdateChecks, which replaces every object.
LEMMA WatcherKeepsInv ==
  ASSUME RunnerInv, Watcher
  PROVE  RunnerInv'
<1> USE DEF RunnerInv
<1>1. UNCHANGED <<setting, catalog, fresh, pending, service, reaping, runner, flips, faults,
                  changes>>
  BY DEF Watcher, WatchFetch, UpdateChecks, catalogVars, queueVars
<1>2. (CatalogTypes /\ IndexOfEntry /\ QueueTypes /\ BudgetTypes)'
  BY <1>1 DEF CatalogTypes, IndexOfEntry, QueueTypes, BudgetTypes
<1>3. CASE WatchFetch
  <2>1. UNCHANGED <<checks, critical, push, flush>>
    BY <1>3 DEF WatchFetch, runnerVars, queueVars
  <2>2. OtherTypes'
    BY <1>1, <1>3 DEF WatchFetch, OtherTypes, CatalogTypes
  <2>3. RunnerTypes'
    BY <2>1 DEF RunnerTypes
  <2> QED BY <1>1, <1>2, <2>1, <2>2, <2>3, QueuesUnchanged
<1>4. CASE UpdateChecks
  <2>1. OtherTypes'
    BY <1>1, <1>4 DEF UpdateChecks, OtherTypes, NoSnapshot
  <2>2. RunnerTypes'
    <3>1. \A c \in Checks : snapshot[c] # None => NewObject(c) \in Objects
      <4> SUFFICES ASSUME NEW c \in Checks, snapshot[c] # None
                   PROVE  NewObject(c) \in Objects
        OBVIOUS
      <4>1. snapshot[c] \in Locals
        BY DEF OtherTypes, Locals
      <4>2. checks[c] # None => checks[c] \in Objects
        BY DEF RunnerTypes
      <4> QED BY <4>1, <4>2, ThresholdAssumption DEF NewObject, Objects
    <3>2. checks' = [c \in Checks |-> IF snapshot[c] # None THEN NewObject(c) ELSE None]
      BY <1>4 DEF UpdateChecks
    <3>3. critical' = [c \in Checks |-> IF snapshot[c] # None THEN critical[c] ELSE "none"]
      BY <1>4 DEF UpdateChecks
    <3> QED BY <3>1, <3>2, <3>3 DEF RunnerTypes
  <2>3. PushTypes'
    <3>1. push' = [p \in Pushers |-> [push[p] EXCEPT !.live = FALSE]]
      BY <1>4 DEF UpdateChecks
    <3>2. \A p \in Pushers : /\ [push[p] EXCEPT !.live = FALSE] \in PushRecords
                             /\ [push[p] EXCEPT !.live = FALSE].pc = push[p].pc
                             /\ [push[p] EXCEPT !.live = FALSE].result = push[p].result
      BY DEF PushTypes, PushRecords
    <3> QED BY <3>1, <3>2 DEF PushTypes
  <2>4. FlushTypes'
    <3> DEFINE s(r) == [r EXCEPT !.lock = IF @ = "live" THEN "dead" ELSE @]
    <3>1. flush' = [f \in Flushers |-> s(flush[f])]
      BY <1>4 DEF UpdateChecks
    <3>2. \A r \in FlushRecords : /\ s(r) \in FlushRecords
                                  /\ FlushSound(r) => FlushSound(s(r))
      <4> SUFFICES ASSUME NEW r \in FlushRecords
                   PROVE  s(r) \in FlushRecords /\ (FlushSound(r) => FlushSound(s(r)))
        OBVIOUS
      <4>1. s(r) \in FlushRecords
        BY DEF FlushRecords
      <4>2. /\ s(r).pc = r.pc /\ s(r).todo = r.todo /\ s(r).ops = r.ops
            /\ s(r).batch = r.batch /\ s(r).cur = r.cur
            /\ s(r).lock = "none" <=> r.lock = "none"
        BY DEF FlushRecords
      <4> HIDE DEF s
      <4> QED BY <4>1, <4>2 DEF FlushSound
    <3>3. FlushRecords' = FlushRecords
      BY <1>1 DEF FlushRecords
    <3> HIDE DEF s
    <3> QED BY <3>1, <3>2, <3>3 DEF FlushTypes
  <2> QED BY <1>2, <2>1, <2>2, <2>3, <2>4
<1> QED BY <1>3, <1>4 DEF Watcher

\* The reaper removes entries, and with them what anyone knows of their index.
LEMMA ReaperKeepsInv ==
  ASSUME RunnerInv, Reaper
  PROVE  RunnerInv'
<1> USE DEF RunnerInv
<1>1. /\ UNCHANGED <<setting, checks, critical, push, pending, flush, service, snapshot,
                     runner, flips, changes>>
      /\ UNCHANGED faults \/ Fault
  BY DEF Reaper, ReapPick, ReapDeregister, runnerVars, queueVars
<1>2. (RunnerTypes /\ PushTypes /\ QueueTypes /\ FlushTypes)'
  BY <1>1, QueuesUnchanged DEF RunnerTypes
<1>3. (OtherTypes /\ BudgetTypes)'
  <2>1. reaping' \in Checks \cup {None}
    BY DEF Reaper, ReapPick, ReapDeregister
  <2> QED BY <1>1, <2>1, LimitAssumption DEF OtherTypes, BudgetTypes, Fault
<1>4. (CatalogTypes /\ IndexOfEntry)'
  <2> DEFINE gone == [c \in {d \in Checks : ServiceOf[d] = ServiceOf[reaping]} |-> None]
  <2>1. WriteEntries(gone) \/ UNCHANGED <<catalog, fresh>>
    BY DEF Reaper, ReapPick, ReapDeregister, catalogVars
  <2>2. \A c \in Checks \cap DOMAIN gone : gone[c] \in Results \cup {None}
    OBVIOUS
  <2>3. ASSUME UNCHANGED <<catalog, fresh>> PROVE (CatalogTypes /\ IndexOfEntry)'
    BY <2>3 DEF CatalogTypes, IndexOfEntry
  <2> HIDE DEF gone
  <2> QED BY <2>1, <2>2, <2>3, WriteKeepsCatalog
<1> QED BY <1>2, <1>3, <1>4

\* CheckRunner.Stop.
LEMMA StopKeepsInv ==
  ASSUME RunnerInv, StopBegin \/ StopBatcher \/ StopCheckers
  PROVE  RunnerInv'
<1> USE DEF RunnerInv
<1>1. UNCHANGED <<setting, catalog, fresh, checks, critical, push, service, reaping, flips,
                  faults, changes>>
  BY DEF StopBegin, StopBatcher, StopCheckers, catalogVars, runnerVars, queueVars
<1>2. (CatalogTypes /\ IndexOfEntry /\ RunnerTypes /\ BudgetTypes /\ PushTypes)'
  BY <1>1 DEF CatalogTypes, IndexOfEntry, RunnerTypes, BudgetTypes, PushTypes
<1>3. OtherTypes'
  BY <1>1 DEF StopBegin, StopBatcher, StopCheckers, OtherTypes, NoSnapshot
<1>4. CASE StopBegin
  <2>1. QueueTypes'
    BY <1>4 DEF StopBegin, QueueTypes, Batches
  <2>2. PICK r \in FlushRecords : FlushSound(r) /\ flush' = [flush EXCEPT ![StopFlush] = r]
    BY <1>4, StartFlushType, IdleTypes DEF StopBegin, QueueTypes
  <2>3. FlushRecords' = FlushRecords
    BY <1>1 DEF FlushRecords
  <2>4. FlushTypes'
    BY <2>2, <2>3, PusherTypes DEF FlushTypes
  <2> QED BY <1>2, <1>3, <2>1, <2>4
<1>5. CASE StopBatcher \/ StopCheckers
  <2>1. UNCHANGED <<pending, flush>>
    BY <1>5 DEF StopBatcher, StopCheckers, queueVars
  <2> QED BY <1>1, <1>2, <1>3, <2>1, QueuesUnchanged
<1> QED BY <1>4, <1>5

\* The steps of all goroutines together.
LEMMA RunnerStep == RunnerInv /\ [Next]_vars => RunnerInv'
<1> SUFFICES ASSUME RunnerInv, [Next]_vars PROVE RunnerInv'
  OBVIOUS
<1>1. ASSUME NEW c \in Checks, Flip(c) \/ CatalogChange(c) \/ Age(c) PROVE RunnerInv'
  BY <1>1, EnvironmentKeepsInv
<1>2. ASSUME NEW c \in Checks, RunCheck(c) \/ DeferredFires(c) PROVE RunnerInv'
  BY <1>2, RunCheckKeepsInv, DeferredKeepsInv
<1>3. ASSUME NEW p \in Pushers, Pusher(p) PROVE RunnerInv'
  BY <1>3, LateAddKeepsInv, EndKeepsInv, ImmediateKeepsInv, FlusherKeepsInv, PusherTypes
     DEF Pusher
<1>4. ASSUME NEW f \in TimerFlushes, FlushTimer(f) PROVE RunnerInv'
  BY <1>4, TimerFlushKeepsInv, FlusherKeepsInv, PusherTypes DEF FlushTimer
<1>5. CASE Watcher \/ Reaper \/ StopBegin \/ Stop \/ Exit
  BY <1>5, WatcherKeepsInv, ReaperKeepsInv, StopKeepsInv, EndKeepsInv, FlusherKeepsInv,
     PusherTypes DEF Stop
<1>6. CASE UNCHANGED vars
  <2>1. UNCHANGED <<catalogVars, otherVars, faults>> /\ UNCHANGED <<setting, checks, critical,
                                                                    push, pending, flush>>
    BY <1>6 DEF vars, catalogVars, otherVars
  <2>2. (RunnerTypes /\ PushTypes /\ QueueTypes /\ FlushTypes)'
    BY <2>1, QueuesUnchanged DEF RunnerInv, RunnerTypes
  <2> QED BY <2>1, <2>2, LocalStep
<1> QED BY <1>1, <1>2, <1>3, <1>4, <1>5, <1>6, PusherTypes
        DEF Next, Environment, Checker, DeferredTimer

-----------------------------------------------------------------------------
(***************************************************************************)
(* The theorems                                                            *)
(***************************************************************************)

\* The types of the state, what a flush works on, and whose index is whose, hold in
\* every state, however pushes, flushes, reversions, the watch and the reaper
\* interleave and whatever requests fail.
THEOREM RunnerInvariant == Spec => []RunnerInv
<1>1. Init => RunnerInv
  BY RunnerInit
<1>2. RunnerInv /\ [Next]_vars => RunnerInv'
  BY RunnerStep
<1> QED BY <1>1, <1>2, PTL DEF Spec

\* TypeOK: in particular UpdateCheck's counters never pass their thresholds, in
\* whatever order results, new objects and reversions come.
THEOREM RunnerTypeCorrect == Spec => []TypeOK
<1>1. RunnerInv => TypeOK
  BY DEF RunnerInv, TypeOK, CatalogTypes, RunnerTypes, PushTypes, PushRecords, QueueTypes,
         Batches, FlushTypes, FlushRecords, OtherTypes, BudgetTypes
<1> QED BY <1>1, RunnerInvariant, PTL

\* A write that every index allows brings no entry back.
LEMMA CASWritesExisting ==
  ASSUME IndexOfEntry, NEW f, NEW entries, WriteEntries(entries),
         \A c \in DOMAIN entries : CASOK(f, c),
         NEW c \in Checks, catalog[c] = None
  PROVE  catalog'[c] = None
  BY DEF IndexOfEntry, WriteEntries, CASOK

\* No push, flush or retry brings back an entry that was deregistered after it was
\* read: in any number of checks, flushers and faults, only an operator does.
THEOREM RunnerNoResurrection == Spec => NoResurrection
<1>1. ASSUME RunnerInv, [Next]_vars, NEW c \in Checks, catalog[c] = None, catalog'[c] # None
      PROVE  changes' # changes
  <2>1. CASE \E d \in Checks : CatalogChange(d)
    BY <1>1, <2>1, LimitAssumption DEF CatalogChange, RunnerInv, BudgetTypes
  <2>2. ASSUME NEW p \in Pushers, ImmediateTxn(p) PROVE FALSE
    <3>1. WriteEntries([d \in {p.check} |-> push[p].result]) /\ CASOK(p, p.check)
      BY <1>1, <2>2 DEF ImmediateTxn
    <3> QED BY <1>1, <3>1, CASWritesExisting DEF RunnerInv
  <2>3. ASSUME NEW f \in Flushers, FlushTxn(f) PROVE FALSE
    <3> DEFINE r == flush[f]
               entries == [d \in r.ops |-> r.batch[d].result]
    <3>1. WriteEntries(entries) /\ \A d \in r.ops : CASOK(f, d)
      BY <1>1, <2>3 DEF FlushTxn
    <3>2. DOMAIN entries = r.ops
      OBVIOUS
    <3> HIDE DEF entries
    <3> QED BY <1>1, <3>1, <3>2, CASWritesExisting DEF RunnerInv
  <2>4. ASSUME NEW f \in Flushers, RetryTxn(f) PROVE FALSE
    <3> DEFINE r == flush[f]
               entry == [d \in {r.cur} |-> r.batch[d].result]
    <3>1. WriteEntries(entry) /\ CASOK(f, r.cur)
      BY <1>1, <2>4 DEF RetryTxn, catalogVars
    <3>2. DOMAIN entry = {r.cur}
      OBVIOUS
    <3> HIDE DEF entry
    <3> QED BY <1>1, <3>1, <3>2, CASWritesExisting DEF RunnerInv
  <2>5. CASE ReapDeregister
    BY <1>1, <2>5 DEF ReapDeregister, WriteEntries, catalogVars
  <2>6. CASE UNCHANGED catalog
    BY <1>1, <2>6
  <2>7. CASE \E f \in Flushers : Flusher(f)
    BY <2>3, <2>4, <2>6, <2>7
       DEF Flusher, FlushFetch, RetryFetch, RevertLoad, RevertLock, catalogVars
  <2>8. CASE \E p \in Pushers : Pusher(p)
    BY <2>2, <2>6, <2>7, <2>8, PusherTypes
       DEF Pusher, LateAdd, AddToNil, ProcessEnds, ImmediateFetch, catalogVars
  <2>9. CASE \E d \in Checks : Flip(d) \/ Age(d) \/ RunCheck(d) \/ DeferredFires(d)
    BY <2>6, <2>9 DEF Flip, Age, RunCheck, IdempotentResult, CountResult, DeferResult,
                      PushResult, DeferredFires, catalogVars
  <2>10. CASE \/ \E f \in TimerFlushes : TimerFlush(f)
              \/ WatchFetch \/ UpdateChecks \/ (\E d \in Checks : ReapPick(d))
              \/ StopBegin \/ StopBatcher \/ StopCheckers \/ Exit \/ UNCHANGED vars
    BY <2>6, <2>10 DEF TimerFlush, WatchFetch, UpdateChecks, ReapPick, StopBegin,
                       StopBatcher, StopCheckers, Exit, ProcessEnds, catalogVars,
                       vars
  <2> QED BY <1>1, <2>1, <2>5, <2>7, <2>8, <2>9, <2>10, PusherTypes
          DEF Next, Environment, Checker, DeferredTimer, FlushTimer, Watcher, Reaper, Stop
<1>2. ASSUME RunnerInv, [Next]_vars
      PROVE  [\A c \in Checks :
                 catalog[c] = None /\ catalog'[c] # None => changes' # changes]_vars
  BY <1>1, <1>2
<1> QED BY <1>2, RunnerInvariant, PTL DEF Spec, NoResurrection
=============================================================================
