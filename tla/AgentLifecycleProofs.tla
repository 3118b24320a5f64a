------------------------ MODULE AgentLifecycleProofs ------------------------
(***************************************************************************)
(* Proofs about AgentLifecycle, for any number of faults and losses.       *)
(***************************************************************************)
EXTENDS AgentLifecycle, TLAPS

\* The parts of TypeOK.
ValueTypes ==
  /\ {agentless, compatible, node, service, shutdown} \subseteq BOOLEAN
  /\ initial \in {"critical", "passing"}
  /\ check \in {"none", "critical", "passing"}
  /\ {session, leaderKey} \subseteq {"none", "ours", "old"}
  /\ cleanupErrors \subseteq {"alive", "leader", "service"}

BudgetTypes == faults \in 0..MaxFaults /\ losses \in 0..MaxLosses

PlaceTypes ==
  /\ run \in {"connect", "self", "servers", "wait", "deregister"} \cup RegisterSteps \cup Ended
  /\ pc["register"] \in {"off", "wait", "done"} \cup RegisterSteps
  /\ pc["alive"] \in {"off", "start", "held", "done"}
  /\ pc["leader"] \in {"off", "start", "held", "done"}
  /\ pc["http"] \in {"off", "on", "done"} /\ pc["watch"] \in {"off", "on", "done"}

\* Where main and Run are before the goroutines run, and after they have ended.
BeforeRun == {"connect", "self", "servers", "failed", "down"} \cup RegisterSteps
AfterWait == {"deregister", "exited"}

\* Where a goroutine can be.
Places == {"off", "on", "wait", "start", "held", "done"} \cup RegisterSteps

\* The goroutines run between Started and the end of wg.Wait and at no other time.
PlaceInv ==
  /\ PlaceTypes
  /\ pc \in [Goroutines -> Places]
  /\ run \in BeforeRun => pc = NotStarted
  /\ run \in AfterWait => \A g \in Goroutines : pc[g] = "done"

\* Goroutine g can have a lock: it holds it, its Unlock returned an error, or the
\* process was killed.
MayHold(g) ==
  \/ pc[g] = "held"
  \/ pc[g] = "done" /\ g \in cleanupErrors
  \/ run = "down"

\* A lock is held only for the goroutine that obtained it; a process that has exited
\* has a service only if it could not deregister it.
HeldInv ==
  /\ session = "ours" => agentless /\ MayHold("alive")
  /\ leaderKey = "ours" => MayHold("leader")
  /\ run = "exited" /\ service => "service" \in cleanupErrors

LifecycleInv == ValueTypes /\ BudgetTypes /\ PlaceInv /\ HeldInv

-----------------------------------------------------------------------------

\* Before Run starts them, the goroutines are off.
LEMMA NotStartedPlaces ==
  /\ NotStarted \in [Goroutines -> Places]
  /\ \A g \in Goroutines : NotStarted[g] = "off"
  BY DEF NotStarted, Places

\* The invariant holds when run begins.
LEMMA LifecycleInit == Init => LifecycleInv
<1> SUFFICES ASSUME Init PROVE LifecycleInv
  OBVIOUS
<1>1. ValueTypes
  BY DEF Init, ValueTypes
<1>2. BudgetTypes
  BY BoundsAssumption DEF Init, BudgetTypes
<1>3. PlaceInv
  BY NotStartedPlaces
  DEF Init, PlaceInv, PlaceTypes, Goroutines, BeforeRun, AfterWait, RegisterSteps, Ended
<1>4. HeldInv
  BY DEF Init, HeldInv, MayHold
<1> QED BY <1>1, <1>2, <1>3, <1>4 DEF LifecycleInv

\* No step spends more than the budgets of faults and losses.
LEMMA BudgetsKept == BudgetTypes /\ [Next]_vars => BudgetTypes'
<1> SUFFICES ASSUME BudgetTypes, [Next]_vars PROVE BudgetTypes'
  OBVIOUS
<1>1. (UNCHANGED faults \/ Fault) /\ (UNCHANGED losses \/ Loss)
  BY DEF Next, vars, TTLExpires, SessionEnds, LoseLeaderKey, DeregisterCritical,
         LoseRegistration, Crash, Restart, Shutdown, Main, Connect, VerifyAgent,
         VerifyServers, Registering, Lookup, LookupNode, RegisterNode,
         RegisterService, AllReturned, Deregister, RunRegister, ListServices,
         StopGoroutine, Release, Alive, RegisterTTL, UpdateTTL, ObtainSession, LostSession,
         Leader, LostLeadership, ObtainLeadership, HTTPReturns
<1> QED BY <1>1, BoundsAssumption DEF BudgetTypes, Fault, Loss

\* The steps outside of the goroutines, but for those of registerCatalog and
\* register.
LEMMA OutsideKeepsInv ==
  ASSUME LifecycleInv,
         \/ TTLExpires \/ SessionEnds \/ LoseLeaderKey \/ DeregisterCritical
         \/ LoseRegistration \/ Crash \/ Restart \/ Shutdown
         \/ Connect \/ VerifyAgent \/ VerifyServers \/ AllReturned \/ Deregister
  PROVE  (ValueTypes /\ PlaceInv /\ HeldInv)'
<1> USE DEF LifecycleInv, config, registered, locks, SetCheck
<1>1. ValueTypes'
  BY DEF ValueTypes, TTLExpires, SessionEnds, LoseLeaderKey, DeregisterCritical,
         LoseRegistration, Crash, Restart, Shutdown, Connect, VerifyAgent,
         VerifyServers, AllReturned, Deregister, Deregistered
<1>2. PlaceInv'
  <2>1. CASE UNCHANGED <<run, pc>>
    BY <2>1 DEF PlaceInv, PlaceTypes
  <2>2. CASE Crash \/ Restart
    <3>1. pc' = NotStarted /\ run' \in {"connect", "down"}
      BY <2>2 DEF Crash, Restart
    <3> QED BY <3>1, NotStartedPlaces
            DEF PlaceInv, PlaceTypes, Goroutines, AfterWait, Ended
  <2>3. CASE Connect \/ VerifyAgent \/ VerifyServers
    <3>1. /\ run \in BeforeRun /\ run' \in {"self", "servers", "lookup", "failed"}
          /\ UNCHANGED pc
      BY <2>3 DEF Connect, VerifyAgent, VerifyServers, BeforeRun
    <3> QED BY <3>1 DEF PlaceInv, PlaceTypes, BeforeRun, AfterWait, RegisterSteps, Ended
  <2>4. CASE AllReturned
    BY <2>4 DEF AllReturned, PlaceInv, PlaceTypes, BeforeRun, AfterWait, RegisterSteps,
                Waited
  <2>5. CASE Deregister
    BY <2>5 DEF Deregister, PlaceInv, PlaceTypes, BeforeRun, AfterWait, RegisterSteps,
                Ended
  <2> QED BY <2>1, <2>2, <2>3, <2>4, <2>5
          DEF TTLExpires, SessionEnds, LoseLeaderKey, DeregisterCritical,
              LoseRegistration, Shutdown
<1>3. HeldInv'
  BY DEF HeldInv, MayHold, PlaceInv, PlaceTypes, NotStarted, BeforeRun, AfterWait, Ended,
         RegisterSteps, Goroutines, TTLExpires, SessionEnds, LoseLeaderKey,
         DeregisterCritical, LoseRegistration, Crash, Restart, Shutdown, Connect,
         VerifyAgent, VerifyServers, AllReturned, Deregister, Deregistered
<1> QED BY <1>1, <1>2, <1>3

\* registerCatalog and register, for Run and for the re-registration.
LEMMA RegisteringKeepsInv ==
  ASSUME LifecycleInv, NEW g \in {"run", "register"}, Registering(g)
  PROVE  (ValueTypes /\ PlaceInv /\ HeldInv)'
<1> USE DEF LifecycleInv, config, registered, locks
<1>1. ValueTypes'
  BY DEF ValueTypes, Registering, Lookup, LookupNode, RegisterNode, RegisterService,
         Registered, SetCheck
<1>2. /\ At(g, "lookup") \/ At(g, "nodeLookup") \/ At(g, "nodeRegister") \/ At(g, "service")
      /\ \/ \E where \in RegisterSteps : Continue(g, where)
         \/ Refused(g)
         \/ Succeeded(g)
  BY DEF Registering, Lookup, LookupNode, RegisterNode, RegisterService, RegisterSteps
<1>3. CASE g = "run"
  <2>1. /\ run \in RegisterSteps
        /\ \/ run' \in RegisterSteps \cup {"failed"} /\ UNCHANGED pc
           \/ run' = "wait" /\ pc' = Started
    BY <1>2, <1>3 DEF At, Continue, Refused, Succeeded, RegisterSteps
  <2>2. pc = NotStarted
    BY <2>1 DEF PlaceInv, BeforeRun
  <2>3. PlaceInv'
    BY <2>1, <2>2, NotStartedPlaces
    DEF PlaceInv, PlaceTypes, Places, Started, BeforeRun, AfterWait, RegisterSteps, Ended,
        Goroutines
  <2>4. session # "ours" /\ leaderKey # "ours"
    BY <2>1, <2>2, NotStartedPlaces DEF HeldInv, MayHold, Goroutines, RegisterSteps
  <2>5. session' # "ours" /\ leaderKey' # "ours"
    BY <2>4 DEF Registering, Lookup, LookupNode, RegisterNode, RegisterService,
                Registered, SetCheck
  <2> QED BY <1>1, <2>1, <2>3, <2>5 DEF HeldInv, MayHold, RegisterSteps
<1>4. CASE g = "register"
  <2>1. /\ pc["register"] \in RegisterSteps /\ UNCHANGED run
        /\ \E where \in RegisterSteps \cup {"wait"} : Goto("register", where)
    BY <1>2, <1>4 DEF At, Continue, Refused, Succeeded, RegisterSteps
  <2>2. run = "wait"
    BY <2>1, NotStartedPlaces
    DEF PlaceInv, PlaceTypes, BeforeRun, AfterWait, RegisterSteps, Ended, Goroutines
  <2>3. PlaceInv'
    BY <2>1, <2>2
    DEF PlaceInv, PlaceTypes, Places, Goto, BeforeRun, AfterWait, RegisterSteps, Goroutines
  <2>4. pc'["alive"] = pc["alive"] /\ pc'["leader"] = pc["leader"]
    BY <2>1 DEF Goto, PlaceInv, Goroutines
  <2>5. UNCHANGED <<agentless, cleanupErrors>> /\ session' \in {session, "none"}
        /\ leaderKey' \in {leaderKey, "none"}
    BY DEF Registering, Lookup, LookupNode, RegisterNode, RegisterService,
           Registered, SetCheck
  <2> QED BY <1>1, <2>1, <2>2, <2>3, <2>4, <2>5 DEF HeldInv, MayHold
<1> QED BY <1>3, <1>4

\* The other steps of the goroutines.
LEMMA GoroutineKeepsInv ==
  ASSUME LifecycleInv,
         \/ ListServices \/ RegisterTTL \/ UpdateTTL \/ ObtainSession \/ LostSession
         \/ ObtainLeadership \/ LostLeadership \/ HTTPReturns
         \/ \E g \in Goroutines : StopGoroutine(g)
  PROVE  (ValueTypes /\ PlaceInv /\ HeldInv)'
<1> USE DEF LifecycleInv, config, registered, locks
<1>1. ValueTypes'
  BY DEF ValueTypes, ListServices, RegisterTTL, UpdateTTL, ObtainSession, LostSession,
         ObtainLeadership, LostLeadership, HTTPReturns, StopGoroutine, Release, Unlock, SetCheck
<1>2. /\ UNCHANGED run
      /\ \/ UNCHANGED pc /\ pc["alive"] \in {"start", "held"}
         \/ Goto("register", "lookup") /\ pc["register"] = "wait"
         \/ \E p \in {"start", "held"} :
              Goto("alive", p) /\ pc["alive"] \in {"start", "held"}
         \/ \E p \in {"start", "held"} :
              Goto("leader", p) /\ pc["leader"] \in {"start", "held"}
         \/ Goto("http", "done") /\ pc["http"] = "on"
         \/ \E g \in Goroutines :
              Goto(g, "done") /\ pc[g] \in {"wait", "start", "held", "on"}
  BY DEF ListServices, RegisterTTL, UpdateTTL, ObtainSession, LostSession,
         ObtainLeadership, LostLeadership, HTTPReturns, StopGoroutine
<1>3. run = "wait"
  BY <1>2, NotStartedPlaces
  DEF PlaceInv, PlaceTypes, BeforeRun, AfterWait, RegisterSteps, Ended, Goroutines
<1>4. PlaceInv'
  BY <1>2, <1>3
  DEF PlaceInv, PlaceTypes, Places, Goto, BeforeRun, AfterWait, RegisterSteps, Goroutines
<1>5. HeldInv'
  <2>1. CASE ListServices \/ RegisterTTL \/ UpdateTTL \/ HTTPReturns
    BY <1>3, <2>1 DEF HeldInv, MayHold, PlaceInv, ListServices, RegisterTTL, UpdateTTL,
                      HTTPReturns, Goto, Goroutines
  <2>2. CASE ObtainSession \/ LostSession
    BY <1>3, <2>2 DEF HeldInv, MayHold, PlaceInv, ObtainSession, LostSession, Goto, Goroutines
  <2>3. CASE ObtainLeadership \/ LostLeadership
    BY <1>3, <2>3 DEF HeldInv, MayHold, PlaceInv, ObtainLeadership, LostLeadership, Goto,
                      Goroutines
  <2>4. ASSUME NEW g \in Goroutines, StopGoroutine(g) PROVE HeldInv'
    BY <1>3, <2>4 DEF HeldInv, MayHold, PlaceInv, StopGoroutine, Release, Unlock, SetCheck, Goto,
                      Goroutines
  <2> QED BY <2>1, <2>2, <2>3, <2>4
<1> QED BY <1>1, <1>4, <1>5

-----------------------------------------------------------------------------

\* Where each goroutine of Agent.Run can be, and what of the service, the session
\* and the leader key it may still hold there, in every state of every run.
THEOREM LifecycleInvariant == Spec => []LifecycleInv
<1>1. ASSUME LifecycleInv, [Next]_vars PROVE LifecycleInv'
  <2>1. BudgetTypes'
    BY <1>1, BudgetsKept DEF LifecycleInv
  <2>2. CASE UNCHANGED vars
    BY <1>1, <2>1, <2>2
    DEF LifecycleInv, ValueTypes, PlaceInv, PlaceTypes, HeldInv, MayHold, vars, config,
        registered, locks
  <2>3. CASE Next
    <3>1. (ValueTypes /\ PlaceInv /\ HeldInv)'
      BY <1>1, <2>3, OutsideKeepsInv, RegisteringKeepsInv, GoroutineKeepsInv
      DEF Next, Main, RunRegister, Alive, Leader, Goroutines
    <3> QED BY <2>1, <3>1 DEF LifecycleInv
  <2> QED BY <1>1, <2>2, <2>3
<1> QED BY LifecycleInit, <1>1, PTL DEF Spec

\* The state of an instance stays well typed: no goroutine is ever where only
\* another one can be, whatever is lost and in whatever order.
THEOREM LifecycleTypeCorrect == Spec => []TypeOK
<1>1. LifecycleInv => TypeOK
  BY DEF LifecycleInv, ValueTypes, BudgetTypes, PlaceInv, PlaceTypes, TypeOK
<1> QED BY LifecycleInvariant, <1>1, PTL

\* Of a process whose Run has returned there is a service or a lock only where the
\* request that gives it back returned an error, although the re-registration, lost
\* locks and the shutdown cross each other (Run, from wg.Wait to ServiceDeregister,
\* and the deferred Unlocks).
THEOREM LifecycleCleanExit == Spec => []CleanExit
<1>1. LifecycleInv => CleanExit
  BY DEF LifecycleInv, HeldInv, MayHold, PlaceInv, AfterWait, CleanExit, Goroutines
<1> QED BY LifecycleInvariant, <1>1, PTL
=============================================================================
