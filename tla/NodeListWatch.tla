--------------------------- MODULE NodeListWatch ---------------------------
(***************************************************************************)
(* watchNodeList of agent.go and the goroutines it feeds: the list of      *)
(* nodes the leader wrote for this instance goes through one channel to    *)
(* watchHealthChecks, which fetches the checks of these nodes and hands    *)
(* them to UpdateChecks (module CheckSync), and through another one to     *)
(* checkNodeTracking and updateCoords. All of them end at the shutdown, or *)
(* should: Run waits for watchNodeList.                                    *)
(*                                                                         *)
(* Abstractions. A channel or a KV entry that may be missing is a set with *)
(* at most one element; of the lists that go to updateCoords only their    *)
(* number is kept. The answer to getHealthChecks and UpdateChecks with it  *)
(* are one step: nothing else reads or writes the maps.                    *)
(***************************************************************************)
EXTENDS CheckSync

CONSTANTS
  Nodes,         \* the external nodes
  Lists,         \* bound: the lists the leader writes for this instance
  NodeOf,        \* [Checks -> Nodes]
  DefsOf,        \* [Checks -> SUBSET Definitions]: what each check is ever defined as
  Garbled,       \* an entry that is no list: json.Unmarshal refuses it
  Namespaced,    \* checks outside the default namespace (Consul Enterprise)
  MaxChanges,    \* bound: changes of the catalog and of the list, and the shutdown
  MaxFaults      \* bound: requests to Consul that fail

ASSUME NodesAssumption ==
  /\ Lists \subseteq SUBSET Nodes /\ Nodes \in Lists
  /\ NodeOf \in [Checks -> Nodes] /\ DefsOf \in [Checks -> SUBSET Definitions]
  /\ Namespaced \subseteq Checks
ASSUME GarbledAssumption == Garbled \notin Lists
ASSUME BoundsAssumption == MaxChanges \in Nat /\ MaxFaults \in Nat

VARIABLES
  catalog,    \* Consul: the definition of each check
  list,       \* Consul: the entry agents/<id>, a set of nodes or garbled, if there is one
  unread,     \* whether the entry changed after watchNodeList's WaitIndex
  watch,      \* watchNodeList: where it is
  firstRun,   \* its local variable
  nodeList,   \* the list it has read
  healthCh,   \* healthNodeCh, which takes one list
  coordCh,    \* the lists in coordNodeCh, which takes one, and in checkNodeTracking,
              \* which holds another until updateCoords takes it
  coords,     \* updateCoords: before its first list, in its loop, or over
  health,     \* watchHealthChecks: where it is
  ourNodes,   \* its local variable
  detected,   \* namespaceWildcardDetected
  shutdown,   \* shutdownCh is closed
  changes, faults

consulVars == <<catalog, list, changes>>
watchVars  == <<unread, watch, firstRun, nodeList>>
coordVars  == <<coordCh, coords>>
healthVars == <<health, ourNodes, detected>>
vars == <<consulVars, watchVars, coordVars, healthVars, syncVars, healthCh,
          shutdown, faults>>

\* watchHealthChecks is over at once when SetupTLSConfig refuses the files of the
\* configuration.
StartFailed == "done"

Init ==
  /\ catalog \in {d \in [Checks -> Definitions \cup {None}] :
                    \A c \in Checks : d[c] \in DefsOf[c]}
  /\ list \in {{}, {Nodes}} /\ unread = TRUE
  /\ watch = "get" /\ firstRun = TRUE /\ nodeList = {}
  /\ healthCh = {} /\ coordCh = 0
  /\ coords = "first"
  /\ health \in {"select", StartFailed} /\ ourNodes = {} /\ detected = FALSE
  /\ shutdown = FALSE
  /\ SyncInit
  /\ changes = 0 /\ faults = 0

-----------------------------------------------------------------------------
(***************************************************************************)
(* The environment                                                         *)
(***************************************************************************)

Change == changes < MaxChanges /\ changes' = changes + 1
Fault  == faults < MaxFaults /\ faults' = faults + 1

\* A check is registered, changed or deregistered, while somebody reads the
\* catalog.
ChangeCheck(c) ==
  /\ Change
  /\ ~shutdown /\ health # "done"
  /\ \E d \in (DefsOf[c] \cup {None}) \ {catalog[c]} : catalog' = [catalog EXCEPT ![c] = d]
  /\ UNCHANGED <<list, watchVars, coordVars, healthVars, syncVars, healthCh,
                 shutdown, faults>>

\* The leader writes another list, or deletes it, while somebody reads it; what is
\* no list at all is written by another hand.
ChangeList ==
  /\ Change
  /\ ~shutdown
  /\ list' \in {{}, {Garbled}} \cup {{s} : s \in Lists}
  /\ list' # list
  /\ unread' = TRUE
  /\ UNCHANGED <<catalog, watch, firstRun, nodeList, coordVars, healthVars, syncVars,
                 healthCh, shutdown, faults>>

\* Shutdown: the first SIGINT or SIGTERM closes shutdownCh.
Shutdown ==
  /\ Change
  /\ ~shutdown
  /\ shutdown' = TRUE
  /\ UNCHANGED <<catalog, list, watchVars, coordVars, healthVars, syncVars, healthCh, faults>>

-----------------------------------------------------------------------------
(***************************************************************************)
(* watchNodeList                                                           *)
(***************************************************************************)

\* Faulty variants: a loop that goes on without the select; an error that leaves
\* WaitIndex at an entry that was not sent; a send that does not wait.
LoopWithoutSelect == watch = "get" /\ ~firstRun /\ UNCHANGED vars

NodesSkipped ==
  /\ watch = "nodes"
  /\ \/ watch' = "sendHealth" /\ UNCHANGED faults
     \/ watch' = "get" /\ Fault
  /\ UNCHANGED <<consulVars, unread, firstRun, nodeList, coordVars, healthVars, syncVars,
                 healthCh, shutdown>>

SendWithoutRoom ==
  /\ watch = "sendCoord"
  /\ coordCh' = coordCh + 1
  /\ watch' = "get" /\ nodeList' = {}
  /\ UNCHANGED <<consulVars, unread, firstRun, coords, healthVars, syncVars, healthCh,
                 shutdown, faults>>

\* The select at the top of the loop, which is skipped before the first list.
SelectReturns ==
  /\ watch = "get"
  /\ ~firstRun /\ shutdown
  /\ watch' = "done"
  /\ UNCHANGED <<consulVars, unread, firstRun, nodeList, coordVars, healthVars, syncVars,
                 healthCh, shutdown, faults>>

\* The KV entry is read, and is there or not. One that is no list is skipped; its
\* index is not remembered, and it is read again. A request that fails is repeated;
\* after the shutdown, which cancels its context, it always fails.
GetList ==
  /\ watch = "get" /\ ~shutdown
  /\ unread
  /\ \/ /\ list = {}
        /\ unread' = FALSE
        /\ UNCHANGED <<watch, firstRun, nodeList>>
     \/ /\ list = {Garbled}
        /\ firstRun' = FALSE
        /\ UNCHANGED <<unread, watch, nodeList>>
     \/ /\ nodeList' \in list \ {Garbled}
        /\ watch' = "nodes" /\ firstRun' = FALSE
        /\ unread' = FALSE
  /\ UNCHANGED <<consulVars, coordVars, healthVars, syncVars, healthCh, shutdown,
                 faults>>

\* The blocking query returns the entry it has returned before, because its wait
\* time is over, and both lists are sent again.
GetListAgain ==
  /\ watch = "get" /\ ~shutdown
  /\ ~unread
  /\ nodeList' \in list \ {Garbled}
  /\ watch' = "nodes"
  /\ UNCHANGED <<consulVars, unread, firstRun, coordVars, healthVars, syncVars, healthCh,
                 shutdown, faults>>

\* The catalog's nodes are read. After an error WaitIndex stays where it was.
GetNodes ==
  /\ watch = "nodes"
  /\ \/ watch' = "sendHealth" /\ UNCHANGED <<unread, faults>>
     \/ watch' = "get" /\ unread' = TRUE /\ Fault
  /\ UNCHANGED <<consulVars, firstRun, nodeList, coordVars, healthVars, syncVars,
                 healthCh, shutdown>>

\* Both lists are sent, and each waits until its channel has room.
SendHealth ==
  /\ watch = "sendHealth"
  /\ healthCh = {}
  /\ healthCh' = {nodeList}
  /\ watch' = "sendCoord"
  /\ UNCHANGED <<consulVars, unread, firstRun, nodeList, coordVars, healthVars, syncVars,
                 shutdown, faults>>

SendCoord ==
  /\ watch = "sendCoord"
  /\ coordCh < 2
  /\ coordCh' = coordCh + 1
  /\ watch' = "get" /\ nodeList' = {}
  /\ UNCHANGED <<consulVars, unread, firstRun, coords, healthVars, syncVars, healthCh,
                 shutdown, faults>>

WatchNodeList == SelectReturns \/ GetList \/ GetNodes \/ SendHealth \/ SendCoord

-----------------------------------------------------------------------------
(***************************************************************************)
(* updateCoords, as a receiver                                             *)
(***************************************************************************)

\* It takes a list, at its first receive and then at most once every tick.
TakeNodes ==
  /\ coords # "done"
  /\ coordCh > 0
  /\ coordCh' = coordCh - 1 /\ coords' = "loop"
  /\ UNCHANGED <<consulVars, watchVars, healthVars, syncVars, healthCh, shutdown,
                 faults>>

StopCoords ==
  /\ coords = "loop" /\ shutdown
  /\ coords' = "done"
  /\ UNCHANGED <<consulVars, watchVars, coordCh, healthVars, syncVars, healthCh,
                 shutdown, faults>>

-----------------------------------------------------------------------------
(***************************************************************************)
(* watchHealthChecks                                                       *)
(***************************************************************************)

\* Where a pass of the loop goes on, with these nodes.
AfterSelect(nodes) == IF nodes = {} THEN "select" ELSE "query"

SelectList ==
  /\ health = "select"
  /\ healthCh # {}
  /\ ourNodes' \in healthCh
  /\ healthCh' = {}
  /\ health' = AfterSelect(ourNodes')
  /\ UNCHANGED <<consulVars, watchVars, coordVars, detected, syncVars, shutdown,
                 faults>>

SelectTimer ==
  /\ health = "select" /\ ~shutdown
  /\ ourNodes # {}
  /\ health' = AfterSelect(ourNodes)
  /\ UNCHANGED <<consulVars, watchVars, coordVars, ourNodes, detected, syncVars, healthCh,
                 shutdown, faults>>

\* The shutdown: the deferred Stop of the check runner stops the checkers.
SelectShutdown ==
  /\ health = "select" /\ shutdown
  /\ health' = "done"
  /\ StopAll
  /\ UNCHANGED <<consulVars, watchVars, coordVars, ourNodes, detected, healthCh,
                 shutdown, faults>>

\* The checks of our nodes that a query returns, of all namespaces or of the
\* default one only.
OurChecks(all) ==
  [c \in Checks |-> IF NodeOf[c] \in ourNodes /\ (all \/ c \notin Namespaced)
                    THEN catalog[c] ELSE None]

\* getNamespaceWildcard: detected before, or now, or not (after three attempts).
DetectEdition ==
  \/ detected' = TRUE /\ UNCHANGED faults
  \/ ~detected /\ detected' = FALSE /\ Fault

\* getHealthChecks answers, and UpdateChecks gets what it found unless that is
\* nothing.
GetChecks ==
  /\ health = "query" /\ ~shutdown
  /\ DetectEdition
  /\ LET found == OurChecks(detected')
     IN  IF \E c \in Checks : found[c] # None THEN UpdateChecks(found)
                                              ELSE UNCHANGED syncVars
  /\ health' = "select"
  /\ UNCHANGED <<consulVars, watchVars, coordVars, ourNodes, healthCh, shutdown>>

\* It fails, or the shutdown cancels it.
GetChecksFails ==
  /\ health = "query"
  /\ (shutdown /\ UNCHANGED faults) \/ Fault
  /\ health' = "select"
  /\ UNCHANGED <<consulVars, watchVars, coordVars, ourNodes, detected, syncVars, healthCh,
                 shutdown>>

WatchHealthChecks ==
  SelectList \/ SelectTimer \/ SelectShutdown \/ GetChecks \/ GetChecksFails

-----------------------------------------------------------------------------

Next ==
  \/ \E c \in Checks : ChangeCheck(c)
  \/ ChangeList \/ Shutdown
  \/ WatchNodeList \/ GetListAgain
  \/ TakeNodes \/ StopCoords
  \/ WatchHealthChecks

\* Goroutines that can go on do; a select that finds a list in its channel time
\* and again takes it at some time, whatever else is ready. Nothing relies on the
\* wait time of a blocking query.
Fairness ==
  /\ WF_vars(WatchNodeList)
  /\ WF_vars(TakeNodes) /\ WF_vars(StopCoords)
  /\ WF_vars(WatchHealthChecks) /\ SF_vars(SelectList)

Spec == Init /\ [][Next]_vars /\ Fairness

-----------------------------------------------------------------------------
(***************************************************************************)
(* Properties                                                              *)
(***************************************************************************)

\* The types of the state; no channel holds more lists than it has room for.
TypeOK ==
  /\ SyncTypeOK
  /\ catalog \in [Checks -> Definitions \cup {None}]
  /\ list \in {{}, {Garbled}} \cup {{s} : s \in Lists}
  /\ healthCh \in {{}} \cup {{s} : s \in Lists}
  /\ nodeList \subseteq Nodes /\ ourNodes \subseteq Nodes
  /\ watch \in {"get", "nodes", "sendHealth", "sendCoord", "done"}
  /\ coordCh \in 0..2 /\ coords \in {"first", "loop", "done"}
  /\ health \in {"select", "query", "done"}
  /\ {unread, firstRun, detected, shutdown} \subseteq BOOLEAN
  /\ changes \in 0..MaxChanges /\ faults \in 0..MaxFaults

\* A check that is never defined with two targets.
SingleTarget(c) == \A d \in DefsOf[c] : \A s, t \in d.types : s = t

SingleTargets == {c \in Checks : SingleTarget(c)}

\* Until the runner is stopped the four maps agree about every check whose
\* definitions have one target or none, whatever such definitions it went through,
\* types that change and definitions that are not valid for a while included: if it
\* is known one checker runs, with its definition, if not none does, and none has
\* dropped out of its map (UpdateChecks, stopExistingChecks). What Runs says of
\* headers is what headersAlmostEqual guarantees and no more.
OneCheckerEach ==
  health # "done" => \A c \in Checks : SingleTarget(c) => OneChecker(c)

\* The checks that are this instance's by the list in the KV store.
Mine(nodes) == {c \in Checks : catalog[c] # None /\ NodeOf[c] \in nodes}

\* In the end an instance runs the checks of its nodes and no others: of each check
\* that never has two targets one checker runs, of the type and with the target,
\* parameters and interval of its present definition and with no header that was
\* taken away (except User-Agent and Accept), whatever lists came in between, in
\* whatever namespace it is, and although a list waits behind a query, lists are not
\* sent after an error and the edition may not be detected at first. An instance
\* that is left without checks keeps the old ones.
EventuallyInSync ==
  <>[](\A nodes \in list \ {Garbled} :
         ~shutdown /\ health # "done" /\ Mine(nodes) # {} =>
           \A c \in SingleTargets :
             IF c \in Mine(nodes) /\ Type(catalog[c]) # "none"
             THEN /\ Running(c) = {Type(catalog[c])}
                  /\ Runs(checkers[c][Type(catalog[c])], catalog[c])
             ELSE Running(c) = {})

\* After the shutdown no checker of a check that never has two targets runs for
\* long, and none is started again.
CheckersStop ==
  shutdown ~> [](\A c \in SingleTargets : c \notin leaked /\ Running(c) = {})

\* watchNodeList ends after a shutdown that finds it with its first list read and
\* room for a list in both channels.
ReturnsWhenThereIsRoom ==
  shutdown /\ ~firstRun /\ healthCh = {} /\ coordCh < 2 ~> watch = "done"

\* "Wait for shutdown" (Run): after the shutdown watchNodeList, which Run waits
\* for, returns.
WatchNodeListReturns == shutdown ~> watch = "done"
=============================================================================
