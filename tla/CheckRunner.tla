---------------------------- MODULE CheckRunner ----------------------------
(***************************************************************************)
(* check.go and the watch loop of agent.go: how the results of the running *)
(* HTTP, TCP and gRPC checks reach the Consul catalog.                     *)
(*                                                                         *)
(* Goroutines, each a sequence of actions that interleaves with the        *)
(* others:                                                                 *)
(*  - one checker per check calls UpdateCheck with each result and holds   *)
(*    check.mu until the call returns (a pusher of kind "update");         *)
(*  - one time.AfterFunc per check may push an output later, without the   *)
(*    mutex (a pusher of kind "deferred");                                 *)
(*  - the batcher's timer, a pusher that fills the batch and Stop each run *)
(*    processBatchedUpdates on the batch they drained (a flusher);         *)
(*  - watchHealthChecks fetches the checks of the catalog and replaces the *)
(*    runner's check objects by them (UpdateChecks);                       *)
(*  - reapServices deregisters services that were critical for too long.   *)
(*                                                                         *)
(* Every request to Consul is a step of its own, and while the fault       *)
(* budget lasts it may fail, or take effect and lose its answer.           *)
(*                                                                         *)
(* Abstractions. A result is a status and an output. UpdateChecks puts a   *)
(* new object in place of the old one: a goroutine that holds a pointer to *)
(* the old one goes on writing to an object nobody reads, which is what    *)
(* `live' = FALSE stands for. The ModifyIndex a transaction compares is    *)
(* `fresh[c]': the goroutines that read check c since it was last written. *)
(* The batcher is its abstract form, UpdateBuffer: the map of pending      *)
(* updates, drained at the limit or at any later time.                     *)
(***************************************************************************)
EXTENDS Naturals, FiniteSets

CONSTANTS
  Checks,             \* the checks, by hashCheck
  Results,            \* what a run can find: a status and an output
  Settings,           \* what a runner may find itself in, see `setting'
  ServiceOf,          \* [Checks -> services]
  Reapable,           \* checks with a DeregisterCriticalServiceAfter
  PassingThreshold, CriticalThreshold,
  MaxBatchSize,       \* the batcher's limit, maxTxnOps
  TimerFlushes,       \* the flushes by the timer
  StopFlush,          \* the flush by Stop
  MaxFlips,           \* bound: changes of what the checks see
  MaxFaults,          \* bound: requests to Consul that fail
  MaxCatalogChanges   \* bound: changes of the catalog by others

ASSUME ThresholdAssumption ==
  PassingThreshold \in Nat /\ CriticalThreshold \in Nat
\* Consul has no two checks with one id on a node and in a namespace; it may have
\* them on a node in two namespaces.
ASSUME SettingsAssumption ==
  \A s \in Settings :
    /\ \A c, d \in Checks : c # d /\ s.key[c] = s.key[d] => s.nodeNS[c] # s.nodeNS[d]
    /\ s.timers \subseteq TimerFlushes /\ s.results \subseteq Results
    /\ {s.agentless, s.batching, s.deferSync, s.faulty, s.canStop} \subseteq BOOLEAN
    /\ s.batching => s.agentless
ASSUME ResultsAssumption ==
  \A r \in Results : r.status \in {"passing", "critical"}
ASSUME LimitAssumption ==
  MaxBatchSize \in Nat \ {0} /\ MaxFlips \in Nat /\ MaxFaults \in Nat
  /\ MaxCatalogChanges \in Nat

\* No check object, no catalog entry, no pending update.
None == [status |-> "none"]

\* The empty strings that stand for "no state to revert to".
NoState == [status |-> "", output |-> ""]

Pushers == [kind : {"update", "deferred"}, check : Checks]
Update(c)   == [kind |-> "update", check |-> c]
Deferred(c) == [kind |-> "deferred", check |-> c]

Flushers == Pushers \cup TimerFlushes \cup {StopFlush}

VARIABLES
  setting,      \* what does not change: of each check, its node and namespace (nodeNS)
                \* and its node and id (key, the batcher's checkKey); enable_agentless,
                \* batch_flush_interval > 0 (batching), CheckUpdateInterval > 0
                \* (deferSync); and bounds: what runs find (results), the timer's flushes
                \* that overlap (timers), whether requests fail (faulty) and whether the
                \* runner may be stopped (canStop)
  catalog,      \* Consul: the result stored for each check, or None
  fresh,        \* who holds the current ModifyIndex of each check
  service,      \* what a run of each check would find now
  checks,       \* c.checks: the object of each check, or None
  critical,     \* c.checksCritical: no entry, or how old it is
  push,         \* the pushers
  pending,      \* the batcher's pendingUpdates
  flush,        \* the flushers
  snapshot,     \* what getHealthChecks returned, until UpdateChecks applies it
  reaping,      \* the check reapServicesInternal is about to deregister for
  runner,       \* progress of CheckRunner.Stop, and the end of the process
  flips, faults, changes

catalogVars == <<catalog, fresh>>
runnerVars  == <<checks, critical>>
queueVars   == <<push, pending, flush>>
otherVars   == <<setting, service, snapshot, reaping, runner, flips, changes>>
vars == <<setting, catalog, fresh, service, checks, critical, push, pending, flush,
          snapshot, reaping, runner, flips, faults, changes>>

IdlePush  == [pc |-> "idle", result |-> NoState, old |-> NoState, live |-> FALSE]

IdleFlush == [pc |-> "idle", batch |-> [c \in Checks |-> None], todo |-> {},
              ops |-> {}, failed |-> {}, cur |-> None, lock |-> "none"]

NoSnapshot == [c \in Checks |-> None]

Init ==
  /\ setting \in Settings
  /\ catalog \in [Checks -> setting.results]
  /\ fresh = [c \in Checks |-> {}]
  /\ service \in [Checks -> setting.results]
  /\ checks = [c \in Checks |-> None]
  /\ critical = [c \in Checks |-> "none"]
  /\ push = [p \in Pushers |-> IdlePush]
  /\ pending = [c \in Checks |-> None]
  /\ flush = [f \in Flushers |-> IdleFlush]
  /\ snapshot = NoSnapshot
  /\ reaping = None
  /\ runner = "running"
  /\ flips = 0 /\ faults = 0 /\ changes = 0

-----------------------------------------------------------------------------
(***************************************************************************)
(* The environment: services change, others write the catalog, time passes *)
(***************************************************************************)

Flip(c) ==
  /\ flips < MaxFlips
  /\ flips' = flips + 1
  /\ \E r \in setting.results \ {service[c]} : service' = [service EXCEPT ![c] = r]
  /\ UNCHANGED <<setting, catalogVars, runnerVars, queueVars, snapshot, reaping,
                 runner, faults, changes>>

\* A write of entry c takes the ModifyIndex from everyone who read it.
Written(cs) == [c \in Checks |-> IF c \in cs THEN {} ELSE fresh[c]]

\* An operator registers, changes or deregisters a check.
CatalogChange(c) ==
  /\ changes < MaxCatalogChanges
  /\ changes' = changes + 1
  /\ \E r \in (setting.results \cup {None}) \ {catalog[c]} :
        catalog' = [catalog EXCEPT ![c] = r]
  /\ fresh' = Written({c})
  /\ UNCHANGED <<setting, runnerVars, queueVars, service, snapshot, reaping, runner,
                 flips, faults>>

\* Nothing is on its way for check c, and its object has what a run finds.
Settled(c) ==
  /\ push[Update(c)].pc = "idle"
  /\ push[Deferred(c)].pc \in {"idle", "armed"}
  /\ pending[c] = None
  /\ checks[c] # None => checks[c].result = service[c]

\* A critical entry becomes older than DeregisterCriticalServiceAfter. That takes
\* minutes, long against requests and check intervals, so the runner has settled
\* on what the check finds by then.
Age(c) ==
  /\ c \in Reapable
  /\ Settled(c)
  /\ critical[c] = "recent"
  /\ critical' = [critical EXCEPT ![c] = "overdue"]
  /\ UNCHANGED <<catalogVars, queueVars, otherVars, checks, faults>>

\* A request fails, for as long as the budget lasts.
Fault == setting.faulty /\ faults < MaxFaults /\ faults' = faults + 1

-----------------------------------------------------------------------------
(***************************************************************************)
(* UpdateCheck and handleCheckUpdate                                       *)
(***************************************************************************)

\* The next phase of a flush once there is nothing left to do in this one.
Advance(r) ==
  LET revertAfterFetch ==
        [r EXCEPT !.pc = "revertFailed",
                  !.todo = {c \in Checks : /\ r.batch[c] # None
                                           /\ setting.nodeNS[c] \in r.failed
                                           /\ r.batch[c].old # NoState}]
      reverted == IF r.pc = "fetch" THEN revertAfterFetch ELSE r
  IN  CASE r.todo # {} -> r
        [] r.todo = {} /\ reverted.todo # {} -> reverted
        [] r.todo = {} /\ reverted.todo = {} ->
             IF r.pc \in {"fetch", "revertFailed"} /\ r.ops # {}
             THEN [r EXCEPT !.pc = "txn"] ELSE IdleFlush

\* processBatchedUpdates begins on a batch.
StartFlush(batch) ==
  Advance([IdleFlush EXCEPT !.pc = "fetch", !.batch = batch,
                            !.todo = {c \in Checks : batch[c] # None}])

HasBatcher == setting.batching /\ runner \in {"running", "flushing"}

AtLimit(m) == Cardinality({d \in Checks : m[d] # None}) >= MaxBatchSize

\* Faulty variant: an Add after which UpdateCheck returns and keeps its mutex.
AddKeepsMutex(p, u, live) ==
  /\ pending' = [pending EXCEPT ![p.check] = u]
  /\ push' = [push EXCEPT ![p] = [pc |-> "flush", result |-> u.result,
                                  old |-> NoState, live |-> live]]
  /\ UNCHANGED flush

\* The batcher's Add of an update u by pusher p, where it takes the place of what
\* waits under the same key; at the limit the flush runs in p itself.
Add(p, u, live) ==
  LET m == [d \in Checks |->
              CASE d = p.check -> u
                [] d # p.check /\ setting.key[d] = setting.key[p.check] -> None
                [] OTHER -> pending[d]]
  IN  \/ /\ ~AtLimit(m)
         /\ pending' = m
         /\ push' = [push EXCEPT ![p] = IdlePush]
         /\ UNCHANGED flush
      \/ /\ AtLimit(m)
         /\ pending' = [d \in Checks |-> None]
         /\ flush' = [flush EXCEPT ![p] = StartFlush(m)]
         /\ push' = [push EXCEPT ![p] = [pc |-> "flush", result |-> u.result,
                                         old |-> NoState, live |-> live]]

\* handleCheckUpdate by pusher p, which holds the object p's state says: with a
\* batcher its Add, without one the two requests of handleCheckUpdateImmediate.
\* The Add is a step of its own where Stop can come between it and the comparison
\* of c.batcher to nil.
HandleCheckUpdate(p, result, old, live) ==
  \/ /\ HasBatcher /\ ~setting.canStop
     /\ Add(p, [result |-> result, old |-> old], live)
  \/ /\ HasBatcher /\ setting.canStop
     /\ push' = [push EXCEPT ![p] = [pc |-> "add", result |-> result, old |-> old,
                                     live |-> live]]
     /\ UNCHANGED <<pending, flush>>
  \/ /\ ~HasBatcher
     /\ push' = [push EXCEPT ![p] = [pc |-> "fetch", result |-> result,
                                     old |-> NoState, live |-> live]]
     /\ UNCHANGED <<pending, flush>>

\* Faulty variants of definitions below, to show that the properties notice:
\* a threshold that is off by one; a critical time stored over an older one; a
\* write without check-and-set; a retry with the index of the first try; a
\* resynchronisation that keeps the local status.
BelowThresholdOrAt(c) ==
  IF service[c].status = "critical" THEN checks[c].failures <= CriticalThreshold
                                    ELSE checks[c].successes <= PassingThreshold

TrackCriticalAgain(c, status) ==
  critical' = [critical EXCEPT ![c] = IF status # "critical" THEN "none" ELSE "recent"]

SetWithoutCAS(g, c) == TRUE

RetryWithOldIndex(f) ==
  /\ flush[f].pc = "retry"
  /\ \E c \in flush[f].todo :
       flush' = [flush EXCEPT ![f].pc = "retryTxn", ![f].cur = c]
  /\ UNCHANGED <<catalogVars, runnerVars, otherVars, push, pending, faults>>

KeepsLocalStatus(c) ==
  IF checks[c] = None
  THEN [result |-> snapshot[c], failures |-> 0, successes |-> 0] ELSE checks[c]

DecrementCounter(n) == IF n = 0 THEN 0 ELSE n - 1

\* The time tracking of a critical or a non-critical result.
TrackCritical(c, status) ==
  critical' = [critical EXCEPT ![c] = CASE status # "critical" -> "none"
                                        [] status = "critical" /\ @ = "none" -> "recent"
                                        [] OTHER -> @]

\* The runner still starts runs of the check, and the last one is over.
CanRun(c) ==
  /\ runner # "stopped"
  /\ checks[c] # None
  /\ push[Update(c)].pc = "idle"

\* UpdateCheck with a result the runner already has.
IdempotentResult(c) ==
  /\ CanRun(c)
  /\ checks[c].result = service[c]
  /\ IF service[c].status = "critical"
     THEN TrackCritical(c, "critical") ELSE UNCHANGED critical
  /\ checks' = [checks EXCEPT ![c].failures = DecrementCounter(@),
                              ![c].successes = DecrementCounter(@)]
  /\ UNCHANGED <<catalogVars, queueVars, otherVars, faults>>

BelowThreshold(c) ==
  IF service[c].status = "critical" THEN checks[c].failures < CriticalThreshold
                                    ELSE checks[c].successes < PassingThreshold

\* UpdateCheck with a new result, not seen often enough yet.
CountResult(c) ==
  /\ CanRun(c)
  /\ checks[c].result # service[c]
  /\ BelowThreshold(c)
  /\ checks' = IF service[c].status = "critical"
               THEN [checks EXCEPT ![c].failures = @ + 1]
               ELSE [checks EXCEPT ![c].successes = @ + 1]
  /\ UNCHANGED <<catalogVars, queueVars, otherVars, critical, faults>>

\* The object with the counter of the accepted status back at zero.
ResetCounter(c) ==
  IF service[c].status = "critical" THEN [checks[c] EXCEPT !.failures = 0]
                                    ELSE [checks[c] EXCEPT !.successes = 0]

AcceptResult(c) ==
  /\ CanRun(c)
  /\ checks[c].result # service[c]
  /\ ~BelowThreshold(c)
  /\ TrackCritical(c, service[c].status)

\* UpdateCheck with a new output for the same status: kept locally, and pushed
\* by a timer that remembers this result unless one is running already.
DeferResult(c) ==
  /\ setting.deferSync
  /\ AcceptResult(c)
  /\ checks[c].result.status = service[c].status
  /\ checks' = [checks EXCEPT ![c] = [ResetCounter(c) EXCEPT !.result = service[c]]]
  /\ push' = IF push[Deferred(c)].pc = "idle"
             THEN [push EXCEPT ![Deferred(c)] =
                     [pc |-> "armed", result |-> service[c], old |-> NoState,
                      live |-> TRUE]]
             ELSE push
  /\ UNCHANGED <<catalogVars, otherVars, pending, flush, faults>>

\* UpdateCheck with a new status (or any new result when outputs are not
\* deferred): agentless mode stores it before it is pushed.
PushResult(c) ==
  /\ AcceptResult(c)
  /\ setting.deferSync => checks[c].result.status # service[c].status
  /\ checks' = [checks EXCEPT ![c] =
                  IF setting.agentless THEN [ResetCounter(c) EXCEPT !.result = service[c]]
                                 ELSE ResetCounter(c)]
  /\ HandleCheckUpdate(Update(c), service[c], checks[c].result, TRUE)
  /\ UNCHANGED <<catalogVars, otherVars, faults>>

\* The timer of a deferred push fires: handleCheckUpdate with what it captured.
DeferredFires(c) ==
  LET d == push[Deferred(c)]
  IN  /\ d.pc = "armed"
      /\ HandleCheckUpdate(Deferred(c), d.result, NoState, d.live)
      /\ UNCHANGED <<catalogVars, runnerVars, otherVars, faults>>

\* The Add goes to the batcher that was seen when c.batcher was compared to nil,
\* also when Stop has let go of it since.
LateAdd(p) ==
  /\ push[p].pc = "add"
  /\ Add(p, [result |-> push[p].result, old |-> push[p].old], push[p].live)
  /\ UNCHANGED <<catalogVars, runnerVars, otherVars, faults>>

\* The process ends, and what it had in memory is gone.
ProcessEnds(how) ==
  /\ runner' = how
  /\ checks' = [c \in Checks |-> None]
  /\ critical' = [c \in Checks |-> "none"]
  /\ push' = [q \in Pushers |-> IdlePush]
  /\ pending' = [c \in Checks |-> None]
  /\ flush' = [f \in Flushers |-> IdleFlush]
  /\ snapshot' = NoSnapshot
  /\ reaping' = None
  /\ fresh' = [c \in Checks |-> {}]
  /\ UNCHANGED <<setting, catalog, service, flips, faults, changes>>

\* Stop has set c.batcher to nil since, without a lock, and a build that reads the
\* field a second time calls Add on nil: the process ends in a panic.
AddToNil(p) ==
  /\ push[p].pc = "add"
  /\ ~HasBatcher
  /\ ProcessEnds("panicked")

-----------------------------------------------------------------------------
(***************************************************************************)
(* handleCheckUpdateImmediate: read the entry, write it back with CAS      *)
(***************************************************************************)

PushReturns(p) == push' = [push EXCEPT ![p] = IdlePush]

ImmediateFetch(p) ==
  /\ push[p].pc = "fetch"
  /\ \/ Fault /\ PushReturns(p) /\ UNCHANGED fresh
     \/ /\ catalog[p.check] = None
        /\ PushReturns(p) /\ UNCHANGED <<fresh, faults>>
     \/ /\ catalog[p.check] # None
        /\ fresh' = [fresh EXCEPT ![p.check] = @ \cup {p}]
        /\ push' = [push EXCEPT ![p].pc = "txn"]
        /\ UNCHANGED faults
  /\ UNCHANGED <<runnerVars, otherVars, catalog, pending, flush>>

\* CheckCAS: the index that g read is still that of the entry.
CASOK(g, c) == g \in fresh[c]

\* The check-and-set writes, and everyone's copy of the index is out of date.
WriteEntries(entries) ==
  /\ catalog' = [c \in Checks |-> IF c \in DOMAIN entries THEN entries[c] ELSE catalog[c]]
  /\ fresh' = Written(DOMAIN entries)

\* A write to the object p points to reaches c.checks only if it is still there.
SetLocal(c, live, result) ==
  checks' = IF live /\ checks[c] # None
            THEN [checks EXCEPT ![c].result = result] ELSE checks

ImmediateTxn(p) ==
  LET c == p.check
      entry == [d \in {c} |-> push[p].result]
      casOK == CASOK(p, c)
  IN  /\ push[p].pc = "txn"
      /\ PushReturns(p)
      /\ \/ /\ casOK                                   \* done
            /\ WriteEntries(entry)
            /\ SetLocal(c, push[p].live, push[p].result)
            /\ UNCHANGED faults
         \/ /\ casOK /\ Fault                          \* done, answer lost
            /\ WriteEntries(entry)
            /\ UNCHANGED checks
         \/ /\ (~casOK /\ UNCHANGED faults) \/ Fault    \* refused, or not sent
            /\ fresh' = [fresh EXCEPT ![c] = @ \ {p}]
            /\ UNCHANGED <<catalog, checks>>
      /\ UNCHANGED <<otherVars, critical, pending, flush>>

-----------------------------------------------------------------------------
(***************************************************************************)
(* processBatchedUpdates, executeBatchTransaction and                      *)
(* retryFailedBatchOperations                                              *)
(***************************************************************************)

\* The timer's Flush drains the batcher and processes the batch. The timer holds
\* on to the batcher: it fires even after Stop has let go of it.
TimerFlush(f) ==
  /\ f \in setting.timers
  /\ flush[f].pc = "idle"
  /\ \E c \in Checks : pending[c] # None
  /\ flush' = [flush EXCEPT ![f] = StartFlush(pending)]
  /\ pending' = [c \in Checks |-> None]
  /\ UNCHANGED <<catalogVars, runnerVars, otherVars, push, faults>>

\* The record of flusher f becomes r; when that ends the flush, a pusher that
\* ran it returns as well.
FlushBecomes(f, r) ==
  /\ flush' = [flush EXCEPT ![f] = r]
  /\ push' = IF r.pc = "idle" /\ f \in Pushers
             THEN [push EXCEPT ![f] = IdlePush] ELSE push

Releases(f) == [c \in Checks |-> fresh[c] \ {f}]

\* One Health().Node request; a failed one is tried again when a later update of
\* the batch is on the same node.
FlushFetch(f) ==
  /\ flush[f].pc = "fetch"
  /\ \E c \in flush[f].todo :
       LET n == setting.nodeNS[c]
           found == {d \in Checks : /\ setting.nodeNS[d] = n
                                    /\ flush[f].batch[d] # None
                                    /\ catalog[d] # None}
       IN  \/ /\ Fault
              /\ FlushBecomes(f, Advance([flush[f] EXCEPT !.todo = @ \ {c},
                                                          !.failed = @ \cup {n}]))
              /\ UNCHANGED fresh
           \/ /\ FlushBecomes(f, Advance([flush[f] EXCEPT
                                            !.todo = {d \in @ : setting.nodeNS[d] # n},
                                            !.ops = @ \cup found]))
              /\ fresh' = [d \in Checks |-> IF d \in found THEN fresh[d] \cup {f}
                                                           ELSE fresh[d]]
              /\ UNCHANGED faults
  /\ UNCHANGED <<runnerVars, otherVars, catalog, pending>>

\* The transaction of the whole batch: all of it or nothing. Operations whose
\* index is stale are retried one by one; after any other error everything is
\* reverted.
FlushTxn(f) ==
  LET r == flush[f]
      entries == [c \in r.ops |-> r.batch[c].result]
      stale == {c \in r.ops : ~CASOK(f, c)}
      retry == [r EXCEPT !.pc = "retry", !.todo = stale]
      revert == Advance([r EXCEPT !.pc = "revertAll",
                                  !.todo = {c \in r.ops : r.batch[c].old # NoState}])
  IN  /\ r.pc = "txn"
      /\ \/ /\ stale = {}                              \* done
            /\ WriteEntries(entries)
            /\ FlushBecomes(f, IdleFlush)
            /\ UNCHANGED faults
         \/ /\ stale = {} /\ Fault                     \* done, answer lost
            /\ WriteEntries(entries)
            /\ FlushBecomes(f, revert)
         \/ /\ stale # {}                              \* refused
            /\ FlushBecomes(f, retry)
            /\ fresh' = Releases(f)
            /\ UNCHANGED <<catalog, faults>>
         \/ /\ Fault                                   \* not sent
            /\ FlushBecomes(f, revert)
            /\ fresh' = Releases(f)
            /\ UNCHANGED catalog
      /\ UNCHANGED <<runnerVars, otherVars, pending>>

\* The retry of one operation reads the entry again ...
RetryFetch(f) ==
  /\ flush[f].pc = "retry"
  /\ \E c \in flush[f].todo :
       LET skip == Advance([flush[f] EXCEPT !.todo = @ \ {c}])
       IN  \/ Fault /\ FlushBecomes(f, skip) /\ UNCHANGED fresh
           \/ /\ catalog[c] = None
              /\ FlushBecomes(f, skip) /\ UNCHANGED <<fresh, faults>>
           \/ /\ catalog[c] # None
              /\ FlushBecomes(f, [flush[f] EXCEPT !.pc = "retryTxn", !.cur = c])
              /\ fresh' = [fresh EXCEPT ![c] = @ \cup {f}]
              /\ UNCHANGED faults
  /\ UNCHANGED <<runnerVars, otherVars, catalog, pending>>

\* ... and writes it; only an answer that says the index is stale again leads to
\* a reversion.
RetryTxn(f) ==
  LET r == flush[f]
      c == r.cur
      entry == [d \in {c} |-> r.batch[d].result]
      next == Advance([r EXCEPT !.pc = "retry", !.todo = @ \ {c}, !.cur = None])
      casOK == CASOK(f, c)
  IN  /\ r.pc = "retryTxn"
      /\ \/ /\ casOK                                   \* done, with or without answer
            /\ WriteEntries(entry)
            /\ FlushBecomes(f, next)
            /\ UNCHANGED faults \/ Fault
         \/ /\ ~casOK                                  \* stale again
            /\ FlushBecomes(f, [r EXCEPT !.pc = "retryRevert"])
            /\ UNCHANGED <<catalogVars, faults>>
         \/ /\ Fault                                   \* not sent
            /\ FlushBecomes(f, next)
            /\ fresh' = Releases(f)
            /\ UNCHANGED catalog
      /\ UNCHANGED <<runnerVars, otherVars, pending>>

-----------------------------------------------------------------------------
(***************************************************************************)
(* revertCheckState: look the object up, lock it, restore the old result   *)
(***************************************************************************)

RevertDone(r, c) ==
  Advance([r EXCEPT !.pc = IF @ = "retryRevert" THEN "retry" ELSE @,
                    !.todo = @ \ {c}, !.cur = None, !.lock = "none"])

\* c.checks.Load: without an object there is nothing to revert. A retry reverts
\* without asking whether the update came with an old state.
RevertLoad(f) ==
  /\ flush[f].pc \in {"revertFailed", "revertAll", "retryRevert"}
  /\ flush[f].lock = "none"
  /\ \E c \in flush[f].todo :
       /\ flush[f].pc = "retryRevert" => c = flush[f].cur
       /\ FlushBecomes(f, IF checks[c] = None THEN RevertDone(flush[f], c)
                          ELSE [flush[f] EXCEPT !.cur = c, !.lock = "live"])
  /\ UNCHANGED <<catalogVars, runnerVars, otherVars, pending, faults>>

\* check.mu.Lock waits for an UpdateCheck that works on the same object.
RevertLock(f) ==
  LET r == flush[f]
      u == push[Update(r.cur)]
  IN  /\ r.lock # "none"
      /\ ~(u.pc # "idle" /\ (u.live <=> r.lock = "live"))
      /\ SetLocal(r.cur, r.lock = "live", r.batch[r.cur].old)
      /\ FlushBecomes(f, RevertDone(r, r.cur))
      /\ UNCHANGED <<catalogVars, otherVars, critical, pending, faults>>

-----------------------------------------------------------------------------
(***************************************************************************)
(* watchHealthChecks, UpdateChecks, reapServices and Stop                  *)
(***************************************************************************)

\* getHealthChecks answers when the catalog changed or its wait time is over; an
\* empty answer is skipped.
WatchFetch ==
  /\ runner = "running"
  /\ snapshot = NoSnapshot
  /\ snapshot' = catalog
  /\ UNCHANGED <<setting, catalogVars, runnerVars, queueVars, service, reaping,
                 runner, flips, faults, changes>>

\* The object UpdateChecks stores: the status of the snapshot, the counters of
\* the object it replaces.
NewObject(c) ==
  [result    |-> snapshot[c],
   failures  |-> IF checks[c] = None THEN 0 ELSE checks[c].failures,
   successes |-> IF checks[c] = None THEN 0 ELSE checks[c].successes]

\* UpdateChecks: new objects with the status of the snapshot and the counters of
\* the old ones; checks that are not in it are dropped, with their critical time.
UpdateChecks ==
  LET known == {c \in Checks : snapshot[c] # None}
  IN  /\ runner = "running"
      /\ known # {}
      /\ checks' = [c \in Checks |-> IF c \in known THEN NewObject(c) ELSE None]
      /\ critical' = [c \in Checks |-> IF c \in known THEN critical[c] ELSE "none"]
      /\ push' = [p \in Pushers |-> [push[p] EXCEPT !.live = FALSE]]
      /\ flush' = [f \in Flushers |-> [flush[f] EXCEPT
                                         !.lock = IF @ = "live" THEN "dead" ELSE @]]
      /\ snapshot' = NoSnapshot
      /\ UNCHANGED <<setting, catalogVars, service, pending, reaping, runner, flips,
                     faults, changes>>

\* reapServicesInternal finds a check whose critical time is too old ...
ReapPick(c) ==
  /\ runner = "running"
  /\ reaping = None
  /\ critical[c] = "overdue"
  /\ checks[c] # None
  /\ c \in Reapable
  /\ reaping' = c
  /\ UNCHANGED <<setting, catalogVars, runnerVars, queueVars, service, snapshot,
                 runner, flips, faults, changes>>

\* ... and deregisters its service, with all of the service's checks.
ReapDeregister ==
  LET gone == [c \in {d \in Checks : ServiceOf[d] = ServiceOf[reaping]} |-> None]
  IN  /\ reaping # None
      /\ reaping' = None
      /\ \/ WriteEntries(gone) /\ (UNCHANGED faults \/ Fault)
         \/ Fault /\ UNCHANGED catalogVars
      /\ UNCHANGED <<setting, runnerVars, queueVars, service, snapshot, runner,
                     flips, changes>>

\* CheckRunner.Stop: the batcher drains and processes what is left ...
StopBegin ==
  /\ setting.canStop /\ runner = "running"
  /\ runner' = "flushing"
  /\ flush' = [flush EXCEPT ![StopFlush] =
                 IF setting.batching /\ (\E c \in Checks : pending[c] # None)
                 THEN StartFlush(pending) ELSE IdleFlush]
  /\ pending' = [c \in Checks |-> None]
  /\ snapshot' = NoSnapshot
  /\ UNCHANGED <<setting, catalogVars, runnerVars, service, push, reaping, flips,
                 faults, changes>>

\* ... then the batcher is gone ...
StopBatcher ==
  /\ runner = "flushing"
  /\ flush[StopFlush].pc = "idle"
  /\ runner' = "closing"
  /\ UNCHANGED <<setting, catalogVars, runnerVars, queueVars, service, snapshot,
                 reaping, flips, faults, changes>>

\* ... and the checkers are told to stop.
StopCheckers ==
  /\ runner = "closing"
  /\ runner' = "stopped"
  /\ UNCHANGED <<setting, catalogVars, runnerVars, queueVars, service, snapshot,
                 reaping, flips, faults, changes>>

\* The process has not ended.
Alive == runner \notin {"exited", "panicked"}

\* At shutdown main exits when Run returns. Run waits for neither watchHealthChecks
\* nor the Stop it defers, so the end can come before Stop, within it or after it.
Exit ==
  /\ setting.canStop /\ Alive
  /\ ProcessEnds("exited")

-----------------------------------------------------------------------------

RunCheck(c) ==
  IdempotentResult(c) \/ CountResult(c) \/ DeferResult(c) \/ PushResult(c)

Flusher(f) ==
  FlushFetch(f) \/ FlushTxn(f) \/ RetryFetch(f) \/ RetryTxn(f)
  \/ RevertLoad(f) \/ RevertLock(f)

Pusher(p) ==
  LateAdd(p) \/ AddToNil(p) \/ ImmediateFetch(p) \/ ImmediateTxn(p) \/ Flusher(p)

\* The goroutines.
Checker(c)       == Alive /\ (RunCheck(c) \/ Pusher(Update(c)))
DeferredTimer(c) == Alive /\ (DeferredFires(c) \/ Pusher(Deferred(c)))
FlushTimer(f)    == Alive /\ (TimerFlush(f) \/ Flusher(f))
Watcher          == WatchFetch \/ UpdateChecks
Reaper           == Alive /\ (ReapDeregister \/ \E c \in Checks : ReapPick(c))
Stop             == Alive /\ (Flusher(StopFlush) \/ StopBatcher \/ StopCheckers)

Environment == \E c \in Checks : Flip(c) \/ CatalogChange(c) \/ Age(c)

Next ==
  \/ Environment
  \/ \E c \in Checks : Checker(c) \/ DeferredTimer(c)
  \/ \E f \in TimerFlushes : FlushTimer(f)
  \/ Watcher
  \/ Reaper
  \/ StopBegin \/ Stop
  \/ Exit

\* While the process runs every goroutine that can go on does: checks run at their
\* interval, timers fire, requests return, the watch and the reaper loop, a Stop
\* that has begun goes on; and time passes. A flush that waits for a check's mutex gets
\* it although UpdateCheck takes it again and again: a sync.Mutex is handed to the
\* goroutine that waits for it, which is the strong fairness. Nothing obliges a service, an operator
\* or a fault to happen, nor the agent to stop, nor the process to live on.
Fairness ==
  /\ \A c \in Checks : WF_vars(Checker(c)) /\ WF_vars(DeferredTimer(c))
  /\ \A c \in Reapable : SF_vars(Age(c))
  /\ \A f \in TimerFlushes : SF_vars(FlushTimer(f))
  /\ WF_vars(Watcher)
  /\ WF_vars(Reaper)
  /\ SF_vars(Stop)

Spec == Init /\ [][Next]_vars /\ Fairness

-----------------------------------------------------------------------------
(***************************************************************************)
(* Properties                                                              *)
(***************************************************************************)

Locals == Results \cup {NoState}
Objects == [result : Locals, failures : 0..CriticalThreshold,
            successes : 0..PassingThreshold]
PendingUpdates == [result : Results, old : Locals]
PushPCs == {"idle", "armed", "add", "fetch", "txn", "flush"}
FlushPCs == {"idle", "fetch", "revertFailed", "txn", "revertAll", "retry",
             "retryTxn", "retryRevert"}

\* The types of the state; the counters stay within the thresholds.
TypeOK ==
  /\ setting \in Settings
  /\ catalog \in [Checks -> Results \cup {None}]
  /\ fresh \in [Checks -> SUBSET Flushers]
  /\ service \in [Checks -> Results]
  /\ checks \in [Checks -> Objects \cup {None}]
  /\ critical \in [Checks -> {"none", "recent", "overdue"}]
  /\ push \in [Pushers -> [pc : PushPCs, result : Locals, old : Locals,
                           live : BOOLEAN]]
  /\ pending \in [Checks -> PendingUpdates \cup {None}]
  /\ flush \in [Flushers -> [pc : FlushPCs,
                             batch : [Checks -> PendingUpdates \cup {None}],
                             todo : SUBSET Checks, ops : SUBSET Checks,
                             failed : SUBSET {setting.nodeNS[c] : c \in Checks},
                             cur : Checks \cup {None},
                             lock : {"none", "live", "dead"}]]
  /\ snapshot \in [Checks -> Results \cup {None}]
  /\ reaping \in Checks \cup {None}
  /\ runner \in {"running", "flushing", "closing", "stopped", "exited", "panicked"}
  /\ flips \in 0..MaxFlips /\ faults \in 0..MaxFaults
  /\ changes \in 0..MaxCatalogChanges

\* Once services, operators and Consul are quiet, and unless the runner is stopped,
\* the catalog shows for every check that is still registered the status its checker
\* sees, whatever failed before: lost answers, dropped retries, stale deferred pushes
\* and batches that are processed in the wrong order are all made good by the results
\* to come and by the watch's resynchronisation.
EventuallyConsistent ==
  <>[](runner = "running" =>
         \A c \in Checks : catalog[c] # None => catalog[c].status = service[c].status)

\* A service with deregister_critical_service_after does not stay registered
\* while its check stays critical: faults, reversions and replaced objects do not
\* restart or lose the critical time.
CriticalEventuallyReaped ==
  \A c \in Reapable :
    []<>(catalog[c] = None \/ service[c].status # "critical")

\* Every call of UpdateCheck and of a deferred push returns and every flush by
\* the timer ends: no one waits for a mutex forever.
UpdateCheckReturns ==
  /\ \A p \in Pushers : []<>(push[p].pc = "idle")
  /\ \A f \in TimerFlushes : []<>(flush[f].pc = "idle")

\* A Stop that has begun returns, unless the process ends first: its flush may have
\* to revert updates, and for that waits for the mutexes of UpdateChecks that still
\* run and add to the batcher, while the timer flushes as well. (Of batches below
\* the limit: a flush within UpdateCheck never gives its mutex back, see
\* UpdateCheckReturns.)
StopReturns == runner = "flushing" ~> runner \in {"stopped", "exited", "panicked"}

\* ESM never brings a deregistered check back: an entry appears in the catalog by
\* an operator's registration only, although every push reads the entry first and
\* writes it later.
NoResurrection ==
  [][\A c \in Checks : catalog[c] = None /\ catalog'[c] # None => changes' # changes]_vars

\* reapServices "looks for checks that have been critical too long": it does not
\* pick a service whose check passes by what the check finds, by the runner's own
\* state and by the catalog.
ReapsOnlyCritical ==
  [][\A c \in Checks : reaping = None /\ reaping' = c =>
       \/ service[c].status = "critical"
       \/ checks[c].result.status = "critical"
       \/ catalog[c] # None /\ catalog[c].status = "critical"]_vars
=============================================================================
