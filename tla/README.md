# Verification of consul-esm

TLA+ models of Consul ESM (External Service Monitor), the TLC runs that check them on small
instances, and TLAPS proofs for every instance. Paths and line numbers refer to `src/`.

ESM watches nodes and services that are registered in a Consul catalog but have no Consul
agent of their own. Several ESM instances share the work. One of them is leader and deals the
external nodes out; each instance pings its nodes, runs their HTTP, TCP and gRPC checks, writes
the results back to the catalog, and deregisters what has been critical for too long.

## Inventory

| Component | State | Operations | Module |
|---|---|---|---|
| Check update batcher (`batcher.go`) | map of pending updates, flush timer | `Add`, `Flush`, `Stop`, callback | `CheckUpdateBatcher`, abstract form `UpdateBuffer` |
| Check runner (`check.go`) | check objects with status, output and two counters; critical times; deferred timers | `UpdateCheck`, `UpdateChecks`, immediate and batched pushes, retry, reversion, `reapServices`, `Stop` | `CheckRunner` |
| Check definitions and checkers (`check.go:200-489`) | `checks` and the three maps of checkers | `UpdateChecks`: start, stop, replace when a definition changes; `StopAll` | `CheckSync` |
| Node lists and the watch of health checks (`agent.go:700-981`) | two channels, wait indices, the nodes of this instance, the detected edition | `watchNodeList`, `watchHealthChecks`, `getHealthChecks`, `getNamespaceWildcard` | `NodeListWatch` |
| Node probing (`coordinate.go`) | node list, in-flight pings, debounce cache; in Consul the node's check and the KV entry with its critical time | ticker, ping, two transactions, `checkNodeTracking` | `NodeProbe` |
| Leader and assignment (`leader.go`) | lock session, lists of nodes and instances, one KV entry per instance | election, `computeWatchedNodes`, `commitOps`, watches | `NodeAssignment` |
| Agent lifecycle (`agent.go:167-698`, `agent.go:1003-1072`, `main.go`) | in Consul: node, service, check, session and lock of the instance; locally: the goroutines of `Run`, `shutdownCh` | start, verify versions, register, re-register, TTL check or agentless session, leader lock, HTTP, shutdown, deregister | `AgentLifecycle` |
| Configuration, flags, metrics, version strings | none once the agent runs | parse, validate, report | not modelled |

How they interact. The leader writes `agents/<id>` entries into the KV store; `watchNodeList`
of each instance reads its own entry and hands the list to `watchHealthChecks` and to
`updateCoords` through channels. `watchHealthChecks` queries the catalog and calls
`UpdateChecks`, which replaces the runner's check objects and starts or stops checkers. Checkers
call `UpdateCheck` from goroutines of their own; the results go to Consul directly (agent mode)
or through the batcher (agentless mode). Everything that is shared between instances is in
Consul: the catalog, the KV store and the lock.

What is hard, and what makes each component correct:

* **Batcher.** A timer that cannot be taken back races with drains by `Add` and `Stop`.
  Correct: no update is lost, processed twice, left without a timer, or delayed beyond the
  interval, and no batch is too large for a transaction.
* **Check runner.** Local state, catalog and queue are updated at different times; each request
  may fail or lose its answer; objects are replaced under goroutines that hold them; flushes
  overlap, and may run under a check's mutex. Correct: the catalog comes to show what the check
  finds; a deregistered check is not written back; a service that stays critical is reaped, and
  only such a service; every call returns.
* **Node probing.** Pings of one node overlap, within an agent and between agents when a node
  changes hands; statuses are debounced by a cache others cannot see. Correct: a node is reaped
  in the end if it stays down, never on the strength of a critical time that was reset, and its
  status converges.
* **Checkers.** Four maps are kept in step by hand while a check changes its type, its
  parameters or its validity, goes and comes back. Correct: a known check has one running checker,
  with its definition; no other checker runs; none survives the shutdown.
* **Node lists.** A list travels from the KV store through bounded channels to goroutines that
  are in the middle of a blocking query, and may be gone. Correct: the checkers come to be those of
  the present list and catalog, and the goroutines end.
* **Lifecycle.** The registration, its health check and the locks are kept up by goroutines that
  know nothing of each other, while Consul takes any of them away. Correct: an instance that runs
  comes to be registered and healthy; one that is told to stop comes to its end, and leaves behind
  only what a cleanup request failed to take back.
* **Assignment.** A deposed leader's goroutines go on until they notice; a round may take several
  transactions, the first of which deletes all lists; instances crash, restart and miss their
  TTL. Correct: every node ends up with exactly one instance; the lists are even.

The hazards behind these properties are in `PROJECT.json`, each at its line.

## Modules

**`CheckUpdateBatcher`** models `batcher.go` line by line: one action per critical section, the
callback as a step of its own, and a timer whose expired goroutine (`flushCalls`) cannot be
recalled. An update is a serial number. History variables (`processed`, `latest`, `issued`,
`waited`) serve the properties. **`UpdateBuffer`** is what the batcher promises: updates are put,
taken as a whole and processed, and what waits is taken in the end. The refinement maps
`pendingUpdates` to the buffer and `batches` to what is in process; timers are invisible.

**`CheckRunner`** (with **`MCCheckRunner`** for its instances) models `check.go` from
`UpdateCheck` to `revertCheckState`, and the watch of `agent.go`. Each pusher (an `UpdateCheck`
call or a deferred timer) and each flusher (a batch being processed by the timer, by a pusher or
by `Stop`) is a record with a program counter; every request to Consul is a step. The data is
abstracted: a result is a status and an output from a small set; a `ModifyIndex` is the set of
goroutines that have read the present entry (`fresh`); a pointer to a replaced object is the flag
`live = FALSE`. The batcher appears in its abstract form, which the refinement above justifies.
Mutexes: `UpdateCheck` holds `check.mu` while its pusher is not idle, and `RevertLock` waits for
it. Where the runner can be stopped, `handleCheckUpdate`'s comparison of `c.batcher` to nil and the
`Add` are two steps, since `Stop` writes the field without a lock: the `Add` then goes to the batcher
that was seen (`LateAdd`), or, if the build reads the field a second time, is a call on nil and ends
the process (`AddToNil`). Where it cannot be stopped the field never changes and they are one step.
`Exit` is the end of the process, for which `Run` waits neither for `watchHealthChecks` nor for the
`Stop` it defers: it may come before, within or after `Stop`, and takes the process's memory with it.
`setting`, chosen in the initial state, is what does not change: the mode (agent, agentless, with or
without a batcher, outputs deferred or not); of each check which node and namespace a request finds it
under, and which key `makeCheckKey` gives it (two checks may share either, and then share a request of
the retry or overwrite each other's pending update); and some bounds, so that one run can look at
several small instances.

**`NodeProbe`** models `coordinate.go` and the debounce cache of `agent.go`. A ping is a record
with the node, the KV entry it read and what it is going to do; check-and-set indices are sets of
pings that read the present entry. A critical time is `recent` or, when
`node_reconnect_timeout` has passed, `overdue`. An entry that cannot be decoded (`DecodeFails`) ends
the ping as one of the budgeted faults.

**`CheckSync`** models the maps of `CheckRunner` under `UpdateChecks` and `Stop`. `checks[c]` is the
definition of a known check, `checkers[c]["HTTP"]` its entry in `checksHTTP`, with a flag that says
whether it has been stopped, and `leaked` remembers checkers that dropped out of their map while
they ran. A definition has the types whose target is set, a set of headers with their values (of
which `headersAlmostEqual` skips `User-Agent` and `Accept`), an interval, the
`DeregisterCriticalServiceAfter`, and one value for everything else that is compared for equality.
It has no specification of its own: **`NodeListWatch`** extends it and calls `UpdateChecks` where
`watchHealthChecks` does. There each goroutine has a program counter (`watch`, `health`, `coords`);
a channel is a set with at most one list, or a number where only its length matters; `unread` says
that the KV entry is newer than `WaitIndex`. A list that cannot be decoded is one of `Garbled`, and a
query whose wait time is over sends the same list again (`GetListAgain`). **`MCNodeListWatch`** has
the definitions and places of the instance: a check whose definition changes, and one
on another node and in another namespace.

**`AgentLifecycle`** models `main`, `Run` and the five goroutines `Run` waits for, in both modes
(chosen in the initial state). `run` is where `main` and `Run` are, `pc` where the goroutines are;
`registerCatalog` and `register` are the same steps, each a request, for `Run` and for the
re-registration. Consul's part is modelled from what the code relies on and marked external in the
map: a check is registered only for a service that is there; a session needs its node and its
check, makes the check pass (`agent.go:355`), and dies when the check turns critical; a service is
removed after `deregisterTime` of a critical check. The requests that clean up may fail, which the
code logs or ignores: `cleanupErrors` remembers which did. A lock whose process is gone, or whose
`Unlock` failed, is held until its session ends (`Orphaned`).

**`NodeAssignment`** models `leader.go` and the way of a list to the instance's
watches. Each acquisition of the lock is a term with its own `computeWatchedNodes`; several may be
alive. A channel is a set with at most one element. Names are numbers, in the order the code sorts them, so that `nodeLists`
is modelled as it is: node *i* goes to instance *i* modulo their number. Transactions take
`maxTxnOps` operations, the first of a round being `KVDeleteTree`; the limit is chosen in the initial
state, so that rounds fit one transaction or do not.

How the modules fit together. `CheckRunner` uses the batcher as `UpdateBuffer`, which
`CheckUpdateBatcher` implements. `NodeAssignment` ends with the list of an instance
(`ourNodes`, `pinging`), `NodeListWatch` begins with it (`ChangeList`) and ends with the running
checkers, `CheckRunner` begins with what checkers find, and `NodeProbe` with the list of probes.
`SettleHealth`, `MissTTL`, `Crash` and `Restart` of `NodeAssignment` are what a leader sees of
`AgentLifecycle`; its `watch` goroutine is `NodeListWatch`.

The theorems are in modules of their own, one for each component: **`CheckUpdateBatcherProofs`**,
**`CheckRunnerProofs`**, **`NodeProbeProofs`**, **`NodeListWatchProofs`** (with `CheckSync`),
**`AgentLifecycleProofs`** and **`NodeAssignmentProofs`**, which rests on **`NodeListsProofs`**, the
arithmetic of `nodeLists`.

Definitions named as faulty variants in the modules (for example `DrainKeepsTimer`,
`SetWithoutCAS`) are not part of any specification; each is a plausible mistake in the definition
that follows, and shows that the properties notice it.

## Runs

| Run | Instance | What it shows |
|---|---|---|
| `batcher` | 3 checks, limit 2, interval 2 ticks, 4 updates | all batcher properties, and the refinement of `UpdateBuffer` with its liveness |
| `runner_immediate` | agent mode, or agentless without a batcher; 1 reapable check, 3 results, deferred outputs, critical threshold 1, 1 flip, 1 fault, 1 catalog change | `EventuallyConsistent`, `CriticalEventuallyReaped`, `NoResurrection` |
| `runner_batched` | agentless, 2 checks of a node in one namespace or with one key in two, limit not reached, 1 timer flush, 1 fault, 1 catalog change | `EventuallyConsistent`, `NoResurrection` through partial batches, failing retries and reversions |
| `runner_overlap` | agentless, 1 check, 1 flip: 2 timer flushes at once, 3 results, deferred outputs; or 1 timer flush, 1 fault, and the runner is stopped and the process may end | `EventuallyConsistent` although an older result is written, or refused and retried, next to a newer one, and although a refused retry reverts to the empty state of a deferred update; `StopReturns` |
| `node_probe` | 2 agents, 1 node, 2 pings in flight, 2 flips, 1 fault, 1 list change, 2 operator actions | `NotReapedOnOldTime`, `DeadNodeReaped`, `NodeStatusConverges` |
| `assignment` | 2 instances, 2 nodes, 2 terms, transactions of 2 or 3 operations, 1 change, 1 fault | `EventuallyAssigned`; `DividedEvenly` at every moment for rounds of one transaction |
| `watch` | 2 checks on 2 nodes and in 2 namespaces, 6 definitions of one of them, which differ in type, interval and headers (`Accept` and another), 3 lists, one that cannot be decoded and none, 2 changes of which the shutdown is one, 1 fault | `OneCheckerEach`, `EventuallyInSync`, `CheckersStop`, `ReturnsWhenThereIsRoom` |
| `lifecycle` | both modes, compatible versions or not, 2 faults, 3 losses, any number of restarts | `EventuallyServing`, `CleanExit`, `ShutdownCompletes` |
| `runner_deadlock` | agentless, 2 checks, limit 2, 1 fault | **violated** `UpdateCheckReturns` |
| `runner_reap` | agent mode, 2 flips, 1 fault | **violated** `ReapsOnlyCritical` |
| `node_probe_reap` | 1 agent, 4 flips, 1 fault | **violated** `ReapedOnlyWhileCritical` |
| `watch_shutdown` | no changes, no faults, shutdown at any time | **violated** `WatchNodeListReturns` |

What the violated runs show (details and quotations under `findings` in `PROJECT.json`):

1. An `UpdateCheck` that fills the batch processes it while it holds its check's mutex. If the
   flush fails, `revertCheckState` locks the same mutex and the call never returns. A failed request
   is not needed: with another writer of the catalog a retry that is refused does the same.
2. A critical result whose push fails leaves its critical time in `checksCritical`; passing
   results are then idempotent and do not remove it, and the service is reaped while it passes.
3. A failed read of a node's KV entry is treated as "no entry": the healthy ping does not delete
   it, and the next failed ping, however much later, deregisters the node at once.
4. `watchNodeList` does not look at the shutdown until it has had a list. A process that is told to
   stop before that never ends, and its service stays registered (until its check is critical for
   half an hour). `ReturnsWhenThereIsRoom` says when it does end: the first list read, and room in
   both channels. `ShutdownCompletes` says that nothing else keeps `Run` from returning.

Three more disagreements between the code and what it says of itself are in the models. No property
is about them, because each is refuted in a few steps; the properties say where they stop short.

* `Stop` gives up the batcher before it stops the checkers, and an update that finds no batcher is
  pushed immediately (`check.go:597-600`, in the model `HandleCheckUpdate` with `runner = "closing"`),
  where the comment at `check.go:594-595` says it is dropped.
* A header that is added to a definition never reaches the running checker: `headersAlmostEqual`
  looks at the headers of the checker only (`check.go:282-293`), although `check.go:397-398` says that
  the running checks are updated to match. `OneCheckerEach` and `EventuallyInSync` ask what the
  comparison does ensure (`Runs`): no header, but the skipped ones, that the definition lacks.
* A check that has a TCP and an HTTP target for a while: `stopExistingChecks` leaves the stopped TCP
  checker in its map (`check.go:210-212`), the next TCP definition finds it up to date, and the HTTP
  checker runs on. `OneCheckerEach`, `EventuallyInSync` and `CheckersStop` are therefore about checks
  that are never defined with two targets (`SingleTarget`).

Behaviour that the models have and the properties leave out on purpose: a deferred sync pushes the
status captured when it was armed, although the check has changed since (`check.go:562-567`; the
catalog is corrected by the next resynchronisation, `EventuallyConsistent`); `watchHealthChecks`
skips an empty list and an empty answer (`agent.go:846-856`), so an instance left without checks
keeps running its old ones; what is added to the batcher behind the drain of `Stop` is flushed by
its timer only if the process lives that long, which nothing ensures; and an agentless instance
whose session check alone is deregistered, with the service left, does not register it again, so
`LoseRegistration` loses the service with it.

### Bounds

Every bound is a constant with "bound" in its comment. Faults, flips and operators' changes are
budgets: one of each, combined with every interleaving, reaches each error path of the code, and
two flips let a status go and come back. Two checks on one node are enough for a partial batch, a
shared request and a reversion that meets another check's lock; two pings for every pairwise race
on the KV entry; two changes for a definition that changes its type and changes back, or a list that
goes and comes back; two operator actions for a node that is removed and registered again; three
losses for a registration, its check and a lock that are lost one after
the other; two terms for a deposed leader that writes after its successor. Three checks and
a limit of two let a batch fill while another is processed. Two timer flushes and one flip give an
older and a newer batch of a check at once; they are more than two checks or a budget of faults can
afford, so `runner_batched` has two checks, one flush and a fault, `runner_overlap` one check and two
flushes, whose transactions refuse each other. Both keep the limit out of reach because of the first
result above. The shutdown counts as one of the two changes of `watch`, so it comes after at most one
other. Differences in the parameters that are only compared for equality come with a change of type
there; `WatchOneChecker` is about every definition. `node_probe` has
overlapping pings of two agents; those of one agent need more lists, and are covered by the theorem
`NodeNotReapedOnOldTime`, which bounds nothing.

Runs with `CHECK_DEADLOCK FALSE` are those of systems that may stop: the batcher when nobody adds
updates, a stopped runner, a probe whose last node is gone, an instance that has shut down.

### Fairness

Weak fairness of every goroutine: checkers run at their interval, timers fire, requests return
with an answer or an error (blocking queries after Consul's wait time at the latest; a connection
that hangs without an error, which the comment at `agent.go:873-878` warns of, is excluded), loops
loop. Nothing is assumed of
services, operators, faults, crashes, restarts or signals, nor that the leader lock becomes free,
nor that a query's wait time ends (`GetListAgain`), nor that a process that is told to stop lives on
(`Exit` of `CheckRunner`): timers fire and `Stop` goes on only while it does.
In `AgentLifecycle` the session of a dead process ends (its TTL), and the goroutines of `Run` take
their steps, but `watchNodeList` need not return. Strong fairness in five places:

* `Age` of `CheckRunner`: that a critical time becomes overdue takes minutes, and is enabled in
  the model only while the runner has settled on the check's result, which counter updates and
  resynchronisations interrupt again and again. Time passes all the same.
* `FlushTimer` and `Stop` of `CheckRunner`: a flush that waits for a check's mutex gets it although
  `UpdateCheck` takes it again and again. A `sync.Mutex` goes to the goroutine that has waited for a
  millisecond; and a timer that has been started for a batch fires.
* `StartPing` of `NodeProbe`: the number of pings in flight is a bound of the model only; the
  ticker does not starve a node for ever because the slots happen to be taken by others.
* `SelectList` of `NodeListWatch`: the select of `watchHealthChecks` chooses at random among the
  cases that are ready, so a list that waits again and again is taken.
* `GetNodeList` of `NodeAssignment` when the entry exists: between two transactions of a round the
  entry is missing for milliseconds, rounds are minutes apart, and a changed entry is read within
  seconds.

## Proofs

Checked by TLAPS for all values of the constants, under the named assumptions of the modules:
names that are naturals and finitely many where they are counted, positive limits, bounds that are
naturals, definitions whose types are HTTP, TCP or GRPC, a positive minimum interval. Every
inductive invariant below was also model-checked, on the instance of the component's passing runs.
Every invariant and every action property that a passing run checks is stated by a theorem.

`CheckUpdateBatcherProofs`. The safety properties are not inductive. `BatcherInv` adds that
an armed timer plus the waited time never exceeds the interval, which needs that a map that is
not empty has a timer, that an expired timer has a Flush call, and that an empty map has no
waiting time. `KeptInv` adds that updates are numbered by `issued`, that each number belongs to
one check, and that map, batches and processed updates are disjoint. From these:
`BatcherTypeCorrect` (no batch is empty), `BatcherNeverStrands`, `BatcherWaitBounded`, `BatcherSizeBounded`,
`BatcherKeepsLatest`, and `BatcherImplementsBuffer`: initial states map to initial states and
each step to a step of `UpdateBuffer` or a stutter.

`CheckRunnerProofs`. `RunnerInv` strengthens `TypeOK` in three places. A pusher under way has a
result of a run, not the empty state that stands for "nothing to revert to" (`PushTypes`);
otherwise an immediate push could write that to the catalog. A flush works on updates its batch has,
and has looked up the object it is going to lock (`FlushSound`); otherwise a retry or a reversion
could reach for an update that is not there. And only of an entry that exists does anyone hold the
`ModifyIndex` (`IndexOfEntry`). Proved, in every mode and for any checks, flushers, thresholds and
faults: `RunnerTypeCorrect`, where the hard part is that the counters stay within their thresholds
and that what is written is a result; `RunnerNoResurrection`, since each of the three writes that
are not the reaper's is a check-and-set, and `IndexOfEntry` makes its target exist.

`NodeProbeProofs`. `NotReapedOnOldTime` is an action property about the one step that deletes a
node. `ProbeInv` is the type invariant with two facts: a ping that is not idle belongs to an
agent and a node, and a reaping ping read an overdue entry (`PingInv`); and a ping that still has
the present index of an entry holds what the entry says (`FreshInv`), so that the check-and-set of
the deletion succeeds only if the entry is absent or overdue. Proved: `ProbeTypeCorrect` and
`NodeNotReapedOnOldTime`, for any number of agents, nodes, pings and faults.

`NodeListWatchProofs`. `SyncInv` says of every known check that is never defined with two targets
that its definition has a type, that the map of this type has a running checker with the definition's
settings, and that the two other maps have no entry, not even a stopped one: an entry left behind
would be found up to date later and never started. `WatchInv` adds the types, that a list under way
was written by the leader, and that from the end of `watchHealthChecks` on the checkers of these
checks are stopped. Proved, for any definitions: `WatchTypeCorrect`, `WatchOneChecker`
(`OneCheckerEach`) and `WatchStopsCheckers` (the safety part of `CheckersStop`). Other checks in the
same maps may have two targets; why the statement leaves them out is said under "Runs".

`AgentLifecycleProofs`. `CleanExit` needs `LifecycleInv`: the goroutines run exactly between
their start and the end of `wg.Wait` (`PlaceInv`), and a session or the leader key is ours only
while the goroutine that will release it is at its select, or after its `Unlock` returned an error
(`HeldInv`). Proved: `LifecycleTypeCorrect` and `LifecycleCleanExit`, in both modes and for any
faults and losses.

`NodeListsProofs` is about `nodeLists` alone: for any finite sets of nodes and instances
`DealtOnce` says that the lists are disjoint and leave no node out, `DealtEvenly` that no list has
two nodes more than another. The place of a name in its sorted list (`Rank`) is shown to be a
bijection onto 0..n-1. A node of the instance at place *i* is mapped to the node of the instance
at place *j* in the same turn if *j* is not above *i*, and in the turn before otherwise; this is
injective, and leaves out at most one node, that of the first turn.

`NodeAssignmentProofs` lifts that to every state. `DividedEvenly` is not inductive: evenness of
lists says nothing about the lists after the next transaction. `OneRound` says more: when a
transaction holds a whole round, the KV store is what one round of some term has written.
It needs that a round that has begun has either done nothing or everything (`Progress`), so that a
second, empty transaction writes nothing; `TermInv` says that a term that has not begun does
nothing. Proved: `AssignmentTypeCorrect`, whose hard part is that `commitOps` never counts
more operations than a round has (`ChunkBound`), and `AssignmentDividedEvenly`, for any number of
nodes, instances, deposed leaders that still write, crashes and lost answers.

Only model-checked: the liveness properties (`EventuallyProcessed`, the fairness part of the
refinement, `EventuallyConsistent`, `CriticalEventuallyReaped`,
`StopReturns`, `DeadNodeReaped`, `NodeStatusConverges`, `EventuallyAssigned`, `EventuallyInSync`,
`CheckersStop`, `ReturnsWhenThereIsRoom`, `EventuallyServing`, `ShutdownCompletes`), which are
outside of the prover's reach.

## Not modelled

* Configuration (`config.go`): decoding, merging and validation are sequential and over before the
  agent starts; the models take the settings as constants or initial states.
* Network coordinates, gauges, logging, what the HTTP endpoint serves, flags, version strings and
  their comparison (one outcome, `compatible`).
* Partitions and stale reads; namespaces but for which checks a query returns and which
  checks share a batcher key. `hashCheck` leaves the namespace out as well: two checks that differ
  in nothing else are one check to the runner, and that case is left out.
* What a checker does when it runs, and the Consul library's locks, beyond what they answer.
* Data races on check objects outside of the mutex other than a replaced object and a deferred
  push: single reads and writes are atomic steps, and so is `UpdateChecks`.
* Goroutines that `computeWatchedNodes` leaves behind when its term ends before its first lists
  (`leader.go:158-159`): they have no effect on the modelled state.
* A node's KV entry that never decodes: only `updateFailedNodeTxn` writes it, in the form it reads.
* Time as such: clocks appear as timers that count ticks (batcher) or as "recent" and "overdue".

## Plan

Safety behind the liveness properties that are only model-checked:

1. `CheckRunner`: a flush runs in a pusher exactly while that pusher waits for it, and no
   `UpdateCheck` flushes under its mutex while the batcher's limit is above the number of checks;
   that is what keeps the first result above out of `runner_batched` and `runner_overlap`.
2. `NodeAssignment`: at most one term has not been told to stop, and it is the one that holds
   the lock or has just lost it; a list that an instance follows was written by some round.
3. `NodeListWatch`: what waits in a channel is the last list that was read.
