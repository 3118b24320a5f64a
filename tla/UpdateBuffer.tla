---------------------------- MODULE UpdateBuffer ----------------------------
(***************************************************************************)
(* What a buffer of health check updates promises to the code that adds to *)
(* it (CheckRunner.handleCheckUpdate): updates of the same check replace   *)
(* one another while they wait, a batch of waiting updates is taken out as *)
(* a whole, every batch is handed to the processing callback once, and     *)
(* nothing that was added last for its check is ever forgotten.            *)
(*                                                                         *)
(* An update is identified by its serial number; 0 stands for "none".      *)
(***************************************************************************)
EXTENDS Naturals

CONSTANTS
  Checks,        \* the checks that updates are about
  MaxUpdates     \* bound: how many updates are added in a behaviour

NoUpdate == 0

Batches == [Checks -> 0..MaxUpdates]

EmptyBatch == [c \in Checks |-> NoUpdate]

VARIABLES
  buffer,      \* the update that waits for each check
  inProcess,   \* the batches taken out and not processed yet
  processed,   \* the updates whose batch was processed
  latest,      \* the last update added for each check
  issued       \* how many updates were added

vars == <<buffer, inProcess, processed, latest, issued>>

Init ==
  /\ buffer = EmptyBatch
  /\ inProcess = {}
  /\ processed = {}
  /\ latest = EmptyBatch
  /\ issued = 0

Issue(c) ==
  /\ issued < MaxUpdates
  /\ issued' = issued + 1
  /\ latest' = [latest EXCEPT ![c] = issued + 1]
  /\ UNCHANGED processed

\* An update is added and waits.
Put(c) ==
  /\ Issue(c)
  /\ buffer' = [buffer EXCEPT ![c] = issued + 1]
  /\ UNCHANGED inProcess

\* An update is added, and with it the buffer is taken out.
PutAndTake(c) ==
  /\ Issue(c)
  /\ inProcess' = inProcess \cup {[buffer EXCEPT ![c] = issued + 1]}
  /\ buffer' = EmptyBatch

Take ==
  /\ buffer # EmptyBatch
  /\ inProcess' = inProcess \cup {buffer}
  /\ buffer' = EmptyBatch
  /\ UNCHANGED <<processed, latest, issued>>

Process(b) ==
  /\ b \in inProcess
  /\ inProcess' = inProcess \ {b}
  /\ processed' = processed \cup ({b[c] : c \in Checks} \ {NoUpdate})
  /\ UNCHANGED <<buffer, latest, issued>>

Next ==
  \/ \E c \in Checks : Put(c) \/ PutAndTake(c)
  \/ Take
  \/ \E b \in inProcess : Process(b)

Fairness ==
  /\ WF_vars(Take)
  /\ WF_vars(\E b \in inProcess : Process(b))

Spec == Init /\ [][Next]_vars /\ Fairness
=============================================================================
