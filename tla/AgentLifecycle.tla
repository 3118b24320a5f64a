--------------------------- MODULE AgentLifecycle ---------------------------
(***************************************************************************)
(* NewAgent, VerifyConsulCompatibility, Run and Shutdown of agent.go: an   *)
(* ESM instance registers itself as a service, keeps the registration and  *)
(* its health alive while it runs, and takes it back when it is told to    *)
(* stop. In agent mode a TTL check of the local Consul agent stands for    *)
(* its health, in agentless mode a check in the catalog that follows a     *)
(* session of the instance.                                                *)
(*                                                                         *)
(* Run registers, starts the goroutines "register" (runRegister or         *)
(* runAgentlessRegister), "alive" (runTTL or runAgentlessSession),         *)
(* "leader" (runLeaderLoop), "http" (runHTTP) and "watch" (watchNodeList), *)
(* waits for the shutdown and for all of them, and deregisters.            *)
(*                                                                         *)
(* Consul is modelled from how the code uses it: a check is registered     *)
(* only for a service that is there; a session needs its node and its      *)
(* check, turns the check passing, and dies when the check turns critical; *)
(* a service whose check stays critical for deregisterTime is removed.     *)
(*                                                                         *)
(* Abstractions. Every request is one step; a retry that finds nothing     *)
(* changed is a stutter. What the leader and the node list are used for is *)
(* in modules NodeAssignment and NodeListWatch; here "watch" returns after *)
(* the shutdown or, as NodeListWatch shows, does not. A lock object is     *)
(* made from constant options, so LockOpts does not fail, and is dropped   *)
(* when it is lost, so Lock never answers ErrLockHeld.                     *)
(***************************************************************************)
EXTENDS Naturals

CONSTANTS
  MaxFaults,  \* bound: requests to Consul that fail
  MaxLosses   \* bound: crashes, and what Consul or an operator takes away

ASSUME BoundsAssumption == MaxFaults \in Nat /\ MaxLosses \in Nat

Goroutines == {"register", "alive", "leader", "http", "watch"}

VARIABLES
  agentless,   \* config.EnableAgentless
  initial,     \* the status of a new session check: NodeMeta["initial-health"]
  compatible,  \* the versions of the Consul agent and of the servers
  node,        \* Consul: the node of an agentless instance is registered
  service,     \* Consul: the service is registered
  check,       \* Consul: the TTL check or the session check
  session,     \* Consul: who holds the health session lock: this process, running or
               \* ended ("ours"), an earlier one ("old"), nobody ("none")
  leaderKey,   \* Consul: who holds the leader lock, likewise
  run,         \* main and Run
  pc,          \* the goroutines
  shutdown,    \* shutdownCh is closed
  cleanupErrors,  \* history: the requests of the cleanup that returned an error
  faults, losses

config     == <<agentless, initial, compatible>>
registered == <<node, service, check>>
locks      == <<session, leaderKey>>
vars == <<config, registered, locks, run, pc, shutdown, cleanupErrors, faults, losses>>

NotStarted == [g \in Goroutines |-> "off"]

\* The state in which Run starts them.
Started == [register |-> "wait", alive |-> "start", leader |-> "start",
            http |-> "on", watch |-> "on"]

Init ==
  /\ agentless \in BOOLEAN /\ compatible \in BOOLEAN
  /\ initial \in IF agentless THEN {"critical", "passing"} ELSE {"passing"}
  /\ node = FALSE /\ service = FALSE /\ check = "none"
  /\ session = "none" /\ leaderKey = "none"
  /\ run = "connect" /\ pc = NotStarted /\ shutdown = FALSE
  /\ cleanupErrors = {} /\ faults = 0 /\ losses = 0

Fault == faults < MaxFaults /\ faults' = faults + 1
Loss  == losses < MaxLosses /\ losses' = losses + 1

\* The process has ended, in one of these ways.
Ended == {"exited", "failed", "down"}

Goto(g, where) == pc' = [pc EXCEPT ![g] = where]

-----------------------------------------------------------------------------
(***************************************************************************)
(* Consul and the environment                                              *)
(***************************************************************************)

\* A critical check ends the sessions that name it.
SetCheck(status) ==
  /\ check' = status
  /\ IF agentless /\ status = "critical"
     THEN session' = "none" /\ leaderKey' = "none"
     ELSE UNCHANGED locks

\* The TTL passes without an update: of a process that has ended in time, of one
\* that runs when its updates were late.
TTLExpires ==
  /\ ~agentless /\ check = "passing"
  /\ (run \in Ended /\ UNCHANGED losses) \/ Loss
  /\ SetCheck("critical")
  /\ UNCHANGED <<config, node, service, run, pc, shutdown, cleanupErrors, faults>>

\* Nobody renews the session of this lock: its holder g has ended, or was part of
\* an earlier process.
Orphaned(lock, g) == lock = "old" \/ (lock = "ours" /\ pc[g] # "held")

\* The session is invalidated, or no longer renewed, and the check follows it.
SessionEnds ==
  /\ agentless /\ session # "none"
  /\ (Orphaned(session, "alive") /\ UNCHANGED losses) \/ Loss
  /\ SetCheck("critical")
  /\ UNCHANGED <<config, node, service, run, pc, shutdown, cleanupErrors, faults>>

\* The leader lock goes to another instance, or its session ends.
LoseLeaderKey ==
  /\ leaderKey # "none"
  /\ (Orphaned(leaderKey, "leader") /\ UNCHANGED losses) \/ Loss
  /\ leaderKey' = "none"
  /\ UNCHANGED <<config, registered, session, run, pc, shutdown, cleanupErrors, faults>>

\* deregisterTime, half an hour, has passed with a critical check: the process has
\* ended, or could not reach Consul for so long.
DeregisterCritical ==
  /\ service /\ check = "critical"
  /\ (run \in Ended /\ UNCHANGED losses) \/ Loss
  /\ service' = FALSE
  /\ check' = IF agentless THEN check ELSE "none"
  /\ UNCHANGED <<config, node, locks, run, pc, shutdown, cleanupErrors, faults>>

\* The registration is lost: the service; or everything, with the node in
\* agentless mode, or the state of the local agent.
LoseRegistration ==
  /\ service /\ Loss
  /\ service' = FALSE
  /\ \/ agentless /\ UNCHANGED <<node, check, locks>>
     \/ /\ node' = FALSE /\ check' = "none"
        /\ IF agentless THEN session' = "none" /\ leaderKey' = "none"
                        ELSE UNCHANGED locks
  /\ UNCHANGED <<config, run, pc, shutdown, cleanupErrors, faults>>

\* The process is killed; its sessions stay for their TTL.
Crash ==
  /\ run \notin Ended /\ Loss
  /\ run' = "down" /\ pc' = NotStarted /\ shutdown' = FALSE /\ cleanupErrors' = {}
  /\ UNCHANGED <<config, registered, locks, faults>>

\* It is started again, with the same instance_id.
Restart ==
  /\ run \in Ended
  /\ run' = "connect" /\ pc' = NotStarted /\ shutdown' = FALSE /\ cleanupErrors' = {}
  /\ session' = (IF session = "none" THEN "none" ELSE "old")
  /\ leaderKey' = (IF leaderKey = "none" THEN "none" ELSE "old")
  /\ UNCHANGED <<config, registered, faults, losses>>

-----------------------------------------------------------------------------
(***************************************************************************)
(* NewAgent, VerifyConsulCompatibility and signals                         *)
(***************************************************************************)

\* NewAgent tries until Consul has a leader.
Connect ==
  /\ run = "connect"
  /\ run' = "self"
  /\ UNCHANGED <<config, registered, locks, pc, shutdown, cleanupErrors, faults, losses>>

\* The version of the agent: an error is final.
VerifyAgent ==
  /\ run = "self"
  /\ \/ run' = "servers" /\ UNCHANGED faults
     \/ run' = "failed" /\ Fault
  /\ UNCHANGED <<config, registered, locks, pc, shutdown, cleanupErrors, losses>>

\* The versions of the servers (an answer 429 is tried again), and
\* CheckConsulVersions.
VerifyServers ==
  /\ run = "servers"
  /\ \/ run' = (IF compatible THEN "lookup" ELSE "failed") /\ UNCHANGED faults
     \/ run' = "failed" /\ Fault
  /\ UNCHANGED <<config, registered, locks, pc, shutdown, cleanupErrors, losses>>

\* SIGINT or SIGTERM, once main handles them. Later ones find a.shutdown set.
Shutdown ==
  /\ run \notin {"connect", "self", "servers"} \cup Ended
  /\ ~shutdown
  /\ shutdown' = TRUE
  /\ UNCHANGED <<config, registered, locks, run, pc, cleanupErrors, faults, losses>>

-----------------------------------------------------------------------------
(***************************************************************************)
(* register and registerCatalog, called by Run (g = "run") and by          *)
(* "register"                                                              *)
(***************************************************************************)

At(g, where) == IF g = "run" THEN run = where ELSE pc[g] = where

\* Goes on at the next request, or returns an error or nil to its caller.
Continue(g, where) ==
  IF g = "run" THEN run' = where /\ UNCHANGED pc ELSE UNCHANGED run /\ Goto(g, where)

\* Faulty variants: an error that ends the re-registration; a Run that does not
\* wait for runRegister; a TTL loop that does not register its check again, or that
\* is not told of the shutdown.
RefusedForGood(g) == Continue(g, "failed")

AllButRegister(g) == g # "register"

UpdateTTLOnly ==
  /\ ~agentless /\ pc["alive"] = "held"
  /\ check # "none" /\ check' = "passing"
  /\ UNCHANGED <<config, node, service, locks, run, pc, shutdown, cleanupErrors, faults, losses>>

StopUnlessUpdatingTTL(g) ==
  /\ shutdown
  /\ \/ pc[g] \in {"wait", "start", "on"}
     \/ pc[g] = "held" /\ (agentless \/ g # "alive")
  /\ Goto(g, "done")
  /\ UNCHANGED <<config, registered, locks, run, shutdown, cleanupErrors, faults, losses>>

Refused(g) == Continue(g, IF g = "run" THEN "failed" ELSE "wait")
Succeeded(g) ==
  IF g = "run" THEN run' = "wait" /\ pc' = Started ELSE UNCHANGED run /\ Goto(g, "wait")

\* Whether an instance with this service id is registered. In agent mode an error
\* of the lookup is taken for "no".
Lookup(g) ==
  /\ At(g, "lookup")
  /\ \/ ~service /\ Continue(g, IF agentless THEN "nodeLookup" ELSE "service")
        /\ UNCHANGED faults
     \/ service /\ Refused(g) /\ UNCHANGED faults
     \/ Fault /\ IF agentless THEN Refused(g) ELSE Continue(g, "service")
  /\ UNCHANGED <<config, registered, locks, shutdown, cleanupErrors, losses>>

LookupNode(g) ==
  /\ At(g, "nodeLookup")
  /\ \/ Continue(g, IF node THEN "service" ELSE "nodeRegister") /\ UNCHANGED faults
     \/ Refused(g) /\ Fault
  /\ UNCHANGED <<config, registered, locks, shutdown, cleanupErrors, losses>>

RegisterNode(g) ==
  /\ At(g, "nodeRegister")
  /\ \/ Continue(g, "service") /\ node' = TRUE /\ UNCHANGED faults
     \/ Refused(g) /\ Fault /\ node' \in {node, TRUE}
  /\ UNCHANGED <<config, service, check, locks, shutdown, cleanupErrors, losses>>

\* What registering the service does: in agentless mode its node and its check
\* are in the same request, and the check starts again.
Registered ==
  /\ service' = TRUE
  /\ IF agentless THEN node' = TRUE /\ SetCheck(initial)
                  ELSE UNCHANGED <<node, check, locks>>

RegisterService(g) ==
  /\ At(g, "service")
  /\ \/ Succeeded(g) /\ Registered /\ UNCHANGED faults
     \/ Refused(g) /\ Fault /\ (Registered \/ UNCHANGED <<registered, locks>>)
  /\ UNCHANGED <<config, shutdown, cleanupErrors, losses>>

Registering(g) == Lookup(g) \/ LookupNode(g) \/ RegisterNode(g) \/ RegisterService(g)

-----------------------------------------------------------------------------
(***************************************************************************)
(* The goroutines                                                          *)
(***************************************************************************)

\* What the deferred Unlock of a goroutine does. The check follows its session.
Unlock(g) ==
  CASE g = "alive" /\ session = "ours" -> SetCheck("critical")
    [] g = "leader" /\ leaderKey = "ours" -> leaderKey' = "none" /\ UNCHANGED <<check, session>>
    [] OTHER -> UNCHANGED <<check, locks>>

\* An error of Unlock is ignored: the lock is held until its session ends.
Release(g) ==
  \/ Unlock(g) /\ UNCHANGED <<cleanupErrors, faults>>
  \/ /\ (g = "alive" /\ agentless) \/ g = "leader"
     /\ pc[g] = "held" /\ Fault
     /\ cleanupErrors' = cleanupErrors \cup {g}
     /\ Unlock(g) \/ UNCHANGED <<check, locks>>

\* A goroutine at one of its selects, or in Lock, sees the shutdown.
StopGoroutine(g) ==
  /\ shutdown
  /\ pc[g] \in {"wait", "start", "held", "on"}
  /\ Goto(g, "done")
  /\ Release(g)
  /\ UNCHANGED <<config, node, service, run, shutdown, losses>>

\* runRegister and runAgentlessRegister, every agentTTL. An error of the list is
\* tried again.
ListServices ==
  /\ pc["register"] = "wait"
  /\ ~service
  /\ Goto("register", "lookup")
  /\ UNCHANGED <<config, registered, locks, run, shutdown, cleanupErrors, faults, losses>>

\* runTTL registers its check, which starts as passing ...
RegisterTTL ==
  /\ ~agentless /\ pc["alive"] = "start"
  /\ service
  /\ \/ check' = "passing" /\ Goto("alive", "held") /\ UNCHANGED faults
     \/ check' \in {check, "passing"} /\ UNCHANGED pc /\ Fault
  /\ UNCHANGED <<config, node, service, locks, run, shutdown, cleanupErrors, losses>>

\* ... and updates it every agentTTL / 2; an error leads back.
UpdateTTL ==
  /\ ~agentless /\ pc["alive"] = "held"
  /\ \/ check # "none" /\ check' = "passing" /\ UNCHANGED <<pc, faults>>
     \/ check = "none" /\ Goto("alive", "start") /\ UNCHANGED <<check, faults>>
     \/ check # "none" /\ check' \in {check, "passing"} /\ Goto("alive", "start") /\ Fault
  /\ UNCHANGED <<config, node, service, locks, run, shutdown, cleanupErrors, losses>>

\* runAgentlessSession obtains the lock of its session, or loses it.
ObtainSession ==
  /\ agentless /\ pc["alive"] = "start"
  /\ node /\ check # "none" /\ session = "none"
  /\ session' = "ours" /\ check' = "passing"
  /\ Goto("alive", "held")
  /\ UNCHANGED <<config, node, service, leaderKey, run, shutdown, cleanupErrors, faults, losses>>

LostSession ==
  /\ agentless /\ pc["alive"] = "held"
  /\ session # "ours"
  /\ Goto("alive", "start")
  /\ UNCHANGED <<config, registered, locks, run, shutdown, cleanupErrors, faults, losses>>

\* runLeaderLoop, likewise, when no other instance leads.
ObtainLeadership ==
  /\ pc["leader"] = "start" /\ leaderKey = "none"
  /\ agentless => node /\ check = "passing"
  /\ leaderKey' = "ours"
  /\ Goto("leader", "held")
  /\ UNCHANGED <<config, registered, session, run, shutdown, cleanupErrors, faults, losses>>

LostLeadership ==
  /\ pc["leader"] = "held" /\ leaderKey # "ours"
  /\ Goto("leader", "start")
  /\ UNCHANGED <<config, registered, locks, run, shutdown, cleanupErrors, faults, losses>>

\* runHTTP has nothing to serve, or cannot listen.
HTTPReturns ==
  /\ pc["http"] = "on"
  /\ Goto("http", "done")
  /\ UNCHANGED <<config, registered, locks, run, shutdown, cleanupErrors, faults, losses>>

-----------------------------------------------------------------------------

\* The goroutines wg.Wait waits for.
Waited(g) == g \in Goroutines

\* Run: wg.Wait returns ...
AllReturned ==
  /\ run = "wait" /\ shutdown
  /\ \A g \in Goroutines : Waited(g) => pc[g] = "done"
  /\ run' = "deregister"
  /\ UNCHANGED <<config, registered, locks, pc, shutdown, cleanupErrors, faults, losses>>

\* ... and the service is deregistered, with the TTL check; the node and the
\* session check of agentless mode stay.
Deregistered ==
  service' = FALSE /\ check' = (IF agentless THEN check ELSE "none")

\* An error is logged and no more: Run returns nil.
Deregister ==
  /\ run = "deregister" /\ run' = "exited"
  /\ \/ Deregistered /\ UNCHANGED <<cleanupErrors, faults>>
     \/ /\ Fault /\ cleanupErrors' = cleanupErrors \cup {"service"}
        /\ Deregistered \/ UNCHANGED <<service, check>>
  /\ UNCHANGED <<config, node, locks, pc, shutdown, losses>>

Main == Connect \/ VerifyAgent \/ VerifyServers \/ Registering("run")
        \/ AllReturned \/ Deregister
RunRegister == ListServices \/ Registering("register") \/ StopGoroutine("register")
Alive == RegisterTTL \/ UpdateTTL \/ ObtainSession \/ LostSession \/ StopGoroutine("alive")
Leader == LostLeadership \/ StopGoroutine("leader")

Next ==
  \/ TTLExpires \/ SessionEnds \/ LoseLeaderKey \/ DeregisterCritical
  \/ LoseRegistration \/ Crash \/ Restart \/ Shutdown
  \/ Main \/ RunRegister \/ Alive
  \/ Leader \/ ObtainLeadership
  \/ HTTPReturns \/ StopGoroutine("http") \/ StopGoroutine("watch")

\* Goroutines that can go on do, and requests are answered; the session of a
\* process that has died ends. Nothing obliges the leader lock to be free, nor a
\* loss, a signal or a restart to happen, nor watchNodeList to return.
Fairness ==
  /\ WF_vars(Main) /\ WF_vars(RunRegister) /\ WF_vars(Alive) /\ WF_vars(Leader)
  /\ WF_vars(StopGoroutine("http"))
  /\ WF_vars(Orphaned(session, "alive") /\ SessionEnds)

Spec == Init /\ [][Next]_vars /\ Fairness

-----------------------------------------------------------------------------
(***************************************************************************)
(* Properties                                                              *)
(***************************************************************************)

RegisterSteps == {"lookup", "nodeLookup", "nodeRegister", "service"}

\* The types of the state; a goroutine is never where only another one can be, nor
\* ended by an error that only Run treats as final.
TypeOK ==
  /\ {agentless, compatible, node, service, shutdown} \subseteq BOOLEAN
  /\ initial \in {"critical", "passing"}
  /\ check \in {"none", "critical", "passing"}
  /\ {session, leaderKey} \subseteq {"none", "ours", "old"}
  /\ run \in {"connect", "self", "servers", "wait", "deregister"} \cup RegisterSteps \cup Ended
  /\ pc["register"] \in {"off", "wait", "done"} \cup RegisterSteps
  /\ pc["alive"] \in {"off", "start", "held", "done"}
  /\ pc["leader"] \in {"off", "start", "held", "done"}
  /\ pc["http"] \in {"off", "on", "done"} /\ pc["watch"] \in {"off", "on", "done"}
  /\ cleanupErrors \subseteq {"alive", "leader", "service"}
  /\ faults \in 0..MaxFaults /\ losses \in 0..MaxLosses

Healthy ==
  /\ service /\ check = "passing"
  /\ agentless => session = "ours"

\* "Ensures this agent is registered with Consul's service discovery"
\* (runRegister): an instance that goes on running is in the end registered and
\* healthy for good, in both modes, whatever was lost and in whatever order the
\* re-registration and the TTL check or the session come back.
EventuallyServing ==
  <>[](run = "wait" /\ ~shutdown) => <>[]Healthy

\* "Clean up" (Run): of a process whose Run has returned there is a service, or a
\* lock, only where the request that gives it back returned an error, which the code
\* ignores. No re-registration or lock that was under way when the shutdown came
\* makes up for it, before the exit or after it.
CleanExit ==
  run = "exited" =>
    /\ service => "service" \in cleanupErrors
    /\ session = "ours" => "alive" \in cleanupErrors
    /\ leaderKey = "ours" => "leader" \in cleanupErrors

\* After the shutdown it is watchNodeList alone that can keep Run from returning.
ShutdownCompletes == shutdown /\ pc["watch"] = "done" ~> run \in Ended
=============================================================================
