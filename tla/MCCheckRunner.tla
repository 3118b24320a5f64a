--------------------------- MODULE MCCheckRunner ---------------------------
(***************************************************************************)
(* CheckRunner on small instances: what checks find, how they share nodes  *)
(* and services, and the modes and bounds each run looks at.               *)
(***************************************************************************)
EXTENDS CheckRunner, TLC

Result(s, o) == [status |-> s, output |-> o]

\* One output per status: every change of a result is a change of status.
TwoResults == {Result("passing", "o1"), Result("critical", "o1")}

\* A check that passes with changing outputs, and fails.
ThreeResults == TwoResults \cup {Result("passing", "o2")}

\* All checks on one node, with different ids; or with the same id, in different
\* namespaces. Each is of a service of its own.
OneNamespace == [nodeNS |-> [c \in Checks |-> "node"], key |-> [c \in Checks |-> c]]
OneKey == [nodeNS |-> [c \in Checks |-> c], key |-> [c \in Checks |-> "node/id"]]

\* Agent mode, which pushes at once and defers outputs; agentless mode without and
\* with a batcher.
Agent     == OneNamespace @@ [agentless |-> FALSE, batching |-> FALSE, deferSync |-> TRUE,
                              results |-> Results, timers |-> TimerFlushes,
                              faulty |-> TRUE, canStop |-> FALSE]
Agentless == [Agent EXCEPT !.agentless = TRUE]
Batching  == [Agentless EXCEPT !.batching = TRUE, !.deferSync = FALSE]

Immediate    == {Agent, Agentless}
OnlyPushing  == {[Agent EXCEPT !.deferSync = FALSE]}
OnlyBatching == {Batching}
TwoPlaces    == {Batching, OneKey @@ Batching}

\* Batches overlap while the runner runs, deferred outputs among them; or a runner
\* may be stopped while a batch of the timer is on its way.
OverlapOrStop ==
  {[Batching EXCEPT !.deferSync = TRUE, !.faulty = FALSE],
   [Batching EXCEPT !.results = TwoResults, !.canStop = TRUE,
                    !.timers = {CHOOSE t \in TimerFlushes : TRUE}]}

OwnService == [c \in Checks |-> c]
=============================================================================
