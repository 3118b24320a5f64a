------------------------ MODULE NodeListWatchProofs ------------------------
(***************************************************************************)
(* Proofs about NodeListWatch and CheckSync, for any checks, definitions,  *)
(* nodes, lists and budgets. That there is one checker for a check is      *)
(* proved for the checks that are never defined with two targets, next to  *)
(* whatever other checks there are: with two targets in one definition     *)
(* stopExistingChecks leaves a stopped checker in its map, and it does not *)
(* hold.                                                                   *)
(***************************************************************************)
EXTENDS NodeListWatch, TLAPS

\* The entries of a check with definition d: a running checker under its type and
\* nothing elsewhere.
Entries(m, d) ==
  \A t \in Types :
    IF t = Type(d) THEN /\ m[t] \in Checker
                        /\ m[t].on /\ Runs(m[t], d)
                        /\ t # "HTTP" => m[t].headers = {}
                   ELSE m[t] = None

MapTypes ==
  /\ checks \in [Checks -> Definitions \cup {None}]
  /\ checkers \in [Checks -> [Types -> Checker \cup {None}]]
  /\ leaked \subseteq Checks

\* The four maps agree about a check.
Synced(c) ==
  /\ c \notin leaked
  /\ checks[c] # None => Type(checks[c]) \in Types
  /\ Entries(checkers[c], checks[c])

\* Nothing of it runs.
AllStopped(c) == c \notin leaked /\ Running(c) = {}

\* The rest of the state. What is sent is a list the leader wrote.
WatchTypes ==
  /\ catalog \in [Checks -> Definitions \cup {None}]
  /\ \A c \in Checks : catalog[c] \in DefsOf[c] \cup {None}
  /\ list \in {{}, {Garbled}} \cup {{s} : s \in Lists}
  /\ healthCh \in {{}} \cup {{s} : s \in Lists}
  /\ nodeList \subseteq Nodes /\ ourNodes \subseteq Nodes
  /\ watch \in {"get", "nodes", "sendHealth", "sendCoord", "done"}
  /\ coords \in {"first", "loop", "done"}
  /\ health \in {"select", "query", "done"}
  /\ {unread, firstRun, detected, shutdown} \subseteq BOOLEAN
  /\ watch \in {"nodes", "sendHealth"} => nodeList \in Lists

CountTypes ==
  coordCh \in 0..2 /\ changes \in 0..MaxChanges /\ faults \in 0..MaxFaults

\* The checkers run until watchHealthChecks ends, and none does from then on.
SyncOrStopped(c) == IF health = "done" THEN AllStopped(c) ELSE Synced(c)

WatchInv ==
  /\ MapTypes /\ WatchTypes /\ CountTypes
  /\ \A c \in Checks : SingleTarget(c) => SyncOrStopped(c)

-----------------------------------------------------------------------------
(***************************************************************************)
(* Definitions and checkers                                                *)
(***************************************************************************)

\* An absent check is not mistaken for a definition ...
LEMMA NoneIsNoDefinition == None \notin Definitions
  BY DefinitionsAssumption DEF None, Types

\* ... has no type ...
LEMMA TypeOfNone == Type(None) = "none"
  BY DEF Type, None

\* ... and a definition has one of its own types, if it has any.
LEMMA TypeOfDefinition ==
  ASSUME NEW d \in Definitions
  PROVE  /\ Type(d) \in Types \cup {"none"}
         /\ Type(d) # "none" => Type(d) \in d.types
         /\ (\A s, t \in d.types : s = t) /\ Type(d) # "none" => d.types = {Type(d)}
<1>1. d.types \subseteq Types
  BY DefinitionsAssumption
<1>2. Type(d) \in Types \cup {"none"} /\ (Type(d) # "none" => Type(d) \in d.types)
  BY DEF Type, Types
<1> QED BY <1>1, <1>2

\* Default and minimum leave an interval.
LEMMA IntervalType == ASSUME NEW d \in Definitions PROVE Interval(d) \in Nat
  BY DefinitionsAssumption, IntervalAssumption DEF Interval

\* An absent entry of a map is not mistaken for a checker.
LEMMA NoneIsNoChecker == None \notin Checker
  BY DEF None, Checker

\* The checker UpdateChecks starts has the settings of the definition.
LEMMA NewCheckerType ==
  ASSUME NEW d \in Definitions
  PROVE  /\ NewChecker(d) \in Checker
         /\ NewChecker(d).on /\ Runs(NewChecker(d), d)
         /\ Type(d) # "HTTP" => NewChecker(d).headers = {}
  BY IntervalType DEF NewChecker, Checker, Runs

\* Stopping a checker leaves it in its map.
LEMMA StoppedType ==
  ASSUME NEW k \in Checker \cup {None}
  PROVE  /\ Stopped(k) \in Checker \cup {None}
         /\ Stopped(k) # None => ~Stopped(k).on
  BY NoneIsNoChecker DEF Stopped, Checker

\* What becomes of the entries of a check that was found has the types of the map,
\* however many targets its definition has.
LEMMA FoundType ==
  ASSUME MapTypes, NEW c \in Checks, NEW d \in Definitions, Type(d) # "none"
  PROVE  Found(c, d) \in [Types -> Checker \cup {None}]
<1> DEFINE M == [Types -> Checker \cup {None}]
<1>1. checkers[c] \in M /\ Type(d) \in Types
  BY TypeOfDefinition DEF MapTypes
<1>2. StopExisting(checkers[c], d) \in M
  <2>1. \A t \in Types :
          [checkers[c] EXCEPT ![t] = IF t \in d.types THEN Stopped(@) ELSE None] \in M
    BY <1>1, StoppedType
  <2> QED BY <2>1 DEF StopExisting, Types
<1>3. \A m \in M : [m EXCEPT ![Type(d)] = NewChecker(d)] \in M
  BY <1>1, NewCheckerType
<1> QED BY <1>1, <1>2, <1>3 DEF Found

\* stopExistingChecks finds the running checker of a known check: it is stopped,
\* and nothing is left of it unless the new definition has its type.
LEMMA StopExistingClears ==
  ASSUME NEW m \in [Types -> Checker \cup {None}], NEW u \in Types,
         m[u] # None, \A t \in Types : t # u => m[t] = None,
         NEW d \in Definitions, d.types = {Type(d)}, Type(d) \in Types
  PROVE  /\ \A t \in Types : t # Type(d) => StopExisting(m, d)[t] = None
         /\ ~On(StopExisting(m, d), Type(d))
<1>1. StopExisting(m, d) = [m EXCEPT ![u] = IF u \in d.types THEN Stopped(@) ELSE None]
  <2>1. CASE u = "HTTP"
    BY <2>1 DEF StopExisting
  <2>2. CASE u = "TCP"
    BY <2>2 DEF StopExisting, Types
  <2>3. CASE u = "GRPC"
    BY <2>3 DEF StopExisting, Types
  <2> QED BY <2>1, <2>2, <2>3 DEF Types
<1>2. ASSUME NEW t \in Types, t # Type(d) PROVE StopExisting(m, d)[t] = None
  <2>1. t = u => u \notin d.types
    BY <1>2
  <2> QED BY <1>1, <2>1
<1>3. ~On(StopExisting(m, d), Type(d))
  BY <1>1, StoppedType DEF On
<1> QED BY <1>2, <1>3

\* With a definition of one type, a check that was found has one running checker
\* afterwards, and none is overwritten while it runs.
LEMMA FoundKeepsEntries ==
  ASSUME MapTypes, NEW c \in Checks, Synced(c),
         NEW d \in Definitions, \A s, t \in d.types : s = t, Type(d) # "none"
  PROVE  Entries(Found(c, d), d) /\ ~Overwrites(c, d)
<1> DEFINE m == checkers[c]
           k == NewChecker(d)
<1>1. /\ m \in [Types -> Checker \cup {None}] /\ Type(d) \in Types
      /\ d.types = {Type(d)}
  BY TypeOfDefinition DEF MapTypes
<1>2. Entries(m, checks[c])
  BY DEF Synced
<1>3. \A n \in [Types -> Checker \cup {None}] :
        (\A t \in Types : t # Type(d) => n[t] = None)
          => Entries([n EXCEPT ![Type(d)] = k], d)
  BY <1>1, NewCheckerType DEF Entries
<1>4. CASE checks[c] = None
  <2>1. \A t \in Types : m[t] = None
    BY <1>2, <1>4, TypeOfNone DEF Entries, Types
  <2>2. Found(c, d) = [m EXCEPT ![Type(d)] = k] /\ ~Overwrites(c, d)
    BY <1>1, <1>4, <2>1 DEF Found, Overwrites, On
  <2> QED BY <1>1, <1>3, <2>1, <2>2
<1>5. CASE checks[c] # None /\ UpToDate(c, d)
  <2>1. Type(checks[c]) = Type(d)
    BY <1>1, <1>2, <1>5 DEF UpToDate, Entries
  <2>2. Runs(m[Type(d)], d)
    BY <1>1, <1>2, <1>5, <2>1 DEF UpToDate, Entries, Runs, HeadersAlmostEqual
  <2>3. Found(c, d) = m /\ ~Overwrites(c, d)
    BY <1>5 DEF Found, Overwrites
  <2> QED BY <1>2, <2>1, <2>2, <2>3 DEF Entries
<1>6. CASE checks[c] # None /\ ~UpToDate(c, d)
  <2> DEFINE u == Type(checks[c])
             n == StopExisting(m, d)
  <2>1. u \in Types /\ m[u] # None /\ \A t \in Types : t # u => m[t] = None
    BY <1>2, <1>6, NoneIsNoChecker DEF Synced, Entries
  <2>2. ~Inconsistent(c)
    BY <2>1 DEF Inconsistent
  <2>3. /\ \A t \in Types : t # Type(d) => n[t] = None
        /\ ~On(n, Type(d))
    BY <1>1, <2>1, StopExistingClears
  <2>4. n \in [Types -> Checker \cup {None}]
    <3>1. n = [m EXCEPT ![u] = IF u \in d.types THEN Stopped(m[u]) ELSE None]
      BY <2>1 DEF StopExisting, Types
    <3> QED BY <1>1, <2>1, <3>1, StoppedType
  <2>5. Found(c, d) = [n EXCEPT ![Type(d)] = k]
    BY <1>6, <2>2 DEF Found
  <2>6. ~Overwrites(c, d)
    BY <1>6, <2>3 DEF Overwrites
  <2> QED BY <1>3, <2>3, <2>4, <2>5, <2>6
<1> QED BY <1>4, <1>5, <1>6

\* UpdateChecks keeps the maps well typed and, for a check whose definition has one
\* type, in step.
LEMMA UpdateChecksKeepsMaps ==
  ASSUME MapTypes, NEW fetched \in [Checks -> Definitions \cup {None}],
         UpdateChecks(fetched)
  PROVE  /\ MapTypes'
         /\ \A c \in Checks : 
              /\ Synced(c)
              /\ fetched[c] # None => \A s, t \in fetched[c].types : s = t
              => Synced(c)'
<1> DEFINE found == {c \in Checks : fetched[c] # None /\ Type(fetched[c]) # "none"}
<1>1. /\ checks' = [c \in Checks |-> IF c \in found THEN fetched[c] ELSE None]
      /\ checkers' = [c \in Checks |-> IF c \in found THEN Found(c, fetched[c])
                                                      ELSE NotFound(c)]
      /\ leaked' = leaked \cup {c \in found : Overwrites(c, fetched[c])}
  BY DEF UpdateChecks
<1>2. \A c \in found : fetched[c] \in Definitions /\ Type(fetched[c]) # "none"
  OBVIOUS
<1>3. \A c \in Checks : NotFound(c) \in [Types -> Checker \cup {None}]
  BY DEF NotFound, Removed, MapTypes
<1>4. \A c \in found : Found(c, fetched[c]) \in [Types -> Checker \cup {None}]
  BY <1>2, FoundType
<1>5. MapTypes'
  BY <1>1, <1>2, <1>3, <1>4 DEF MapTypes
<1>6. ASSUME NEW c \in Checks, Synced(c),
             fetched[c] # None => \A s, t \in fetched[c].types : s = t
      PROVE  Synced(c)'
  <2>1. CASE c \in found
    <3>1. Entries(Found(c, fetched[c]), fetched[c]) /\ ~Overwrites(c, fetched[c])
      BY <1>2, <1>6, <2>1, FoundKeepsEntries
    <3>2. checks'[c] = fetched[c] /\ checkers'[c] = Found(c, fetched[c])
      BY <1>1, <2>1
    <3>3. c \notin leaked'
      BY <1>1, <1>6, <3>1 DEF Synced
    <3>4. Type(fetched[c]) \in Types
      BY <1>2, <2>1, TypeOfDefinition
    <3> HIDE DEF found
    <3> QED BY <3>1, <3>2, <3>3, <3>4 DEF Synced
  <2>2. CASE c \notin found
    <3>1. checks'[c] = None /\ checkers'[c] = NotFound(c) /\ c \notin leaked'
      BY <1>1, <1>6, <2>2 DEF Synced
    <3>2. Entries(NotFound(c), None)
      BY <1>6, TypeOfNone DEF Entries, NotFound, Removed, Synced, Types
    <3> QED BY <3>1, <3>2 DEF Synced
  <2> QED BY <2>1, <2>2
<1> QED BY <1>5, <1>6

\* StopAll stops everything that is in a map.
LEMMA StopAllStops ==
  ASSUME MapTypes, StopAll
  PROVE  MapTypes' /\ \A c \in Checks : Synced(c) => AllStopped(c)'
<1>1. \A c \in Checks : \A t \in Types :
        /\ checkers'[c][t] \in Checker \cup {None}
        /\ checkers'[c][t] # None => ~checkers'[c][t].on
  BY StoppedType DEF MapTypes, StopAll
<1>2. MapTypes'
  BY <1>1 DEF MapTypes, StopAll
<1>3. \A c \in Checks : Synced(c) => AllStopped(c)'
  BY <1>1 DEF StopAll, Synced, AllStopped, Running, On
<1> QED BY <1>2, <1>3

-----------------------------------------------------------------------------
(***************************************************************************)
(* The goroutines                                                          *)
(***************************************************************************)

\* The invariant holds when the watches start.
LEMMA WatchInit == Init => WatchInv
<1> SUFFICES ASSUME Init PROVE WatchInv
  OBVIOUS
<1>1. MapTypes
  BY DEF Init, SyncInit, MapTypes
<1>2. WatchTypes
  BY NodesAssumption DEF Init, WatchTypes, StartFailed
<1>3. CountTypes
  BY BoundsAssumption DEF Init, CountTypes
<1>4. \A c \in Checks : Synced(c)
  BY TypeOfNone DEF Init, SyncInit, Synced, Entries, Types
<1>5. \A c \in Checks : AllStopped(c)
  BY DEF Init, SyncInit, AllStopped, Running, On
<1> QED BY <1>1, <1>2, <1>3, <1>4, <1>5 DEF WatchInv, SyncOrStopped

\* Changes and faults are counted within their bounds.
LEMMA CountsKept == CountTypes /\ [Next]_vars => CountTypes'
<1> SUFFICES ASSUME CountTypes, [Next]_vars PROVE CountTypes'
  OBVIOUS
<1>1. /\ UNCHANGED changes \/ Change
      /\ UNCHANGED faults \/ Fault
      /\ \/ UNCHANGED coordCh
         \/ coordCh < 2 /\ coordCh' = coordCh + 1
         \/ coordCh > 0 /\ coordCh' = coordCh - 1
  BY DEF Next, vars, consulVars, coordVars, ChangeCheck, ChangeList, Shutdown,
         WatchNodeList, SelectReturns, GetList, GetListAgain, GetNodes, SendHealth, SendCoord,
         TakeNodes, StopCoords, WatchHealthChecks, SelectList, SelectTimer,
         SelectShutdown, GetChecks, DetectEdition, GetChecksFails
<1> QED BY <1>1, BoundsAssumption DEF CountTypes, Change, Fault

\* What a query returns are definitions, of each check its own.
LEMMA OurChecksType ==
  ASSUME WatchTypes, NEW all
  PROVE  /\ OurChecks(all) \in [Checks -> Definitions \cup {None}]
         /\ \A c \in Checks : OurChecks(all)[c] \in DefsOf[c] \cup {None}
  BY DEF WatchTypes, OurChecks

\* Steps that do not touch the maps and do not end watchHealthChecks.
LEMMA OthersKeepTypes ==
  ASSUME WatchTypes,
         \/ \E c \in Checks : ChangeCheck(c)
         \/ ChangeList \/ Shutdown \/ WatchNodeList \/ GetListAgain \/ TakeNodes \/ StopCoords
         \/ SelectList \/ SelectTimer \/ GetChecksFails
  PROVE  WatchTypes' /\ UNCHANGED syncVars /\ (health' = "done" <=> health = "done")
<1> USE DEF consulVars, watchVars, coordVars, healthVars
<1>1. ASSUME NEW c \in Checks, ChangeCheck(c) PROVE WatchTypes'
  BY <1>1, NodesAssumption DEF ChangeCheck, WatchTypes
<1>2. CASE ChangeList \/ Shutdown
  BY <1>2 DEF ChangeList, Shutdown, WatchTypes
<1>3. CASE SelectReturns \/ GetNodes \/ SendHealth \/ SendCoord
  BY <1>3 DEF SelectReturns, GetNodes, SendHealth, SendCoord, WatchTypes
<1>4. CASE GetList \/ GetListAgain
  <2>1. \A n \in list \ {Garbled} : n \in Lists /\ n \subseteq Nodes
    BY NodesAssumption DEF WatchTypes
  <2> QED BY <1>4, <2>1 DEF GetList, GetListAgain, WatchTypes
<1>5. CASE TakeNodes \/ StopCoords
  BY <1>5 DEF TakeNodes, StopCoords, WatchTypes
<1>6. CASE SelectList
  <2>1. \A n \in healthCh : n \subseteq Nodes
    BY NodesAssumption DEF WatchTypes
  <2> QED BY <1>6, <2>1 DEF SelectList, AfterSelect, WatchTypes
<1>7. CASE SelectTimer \/ GetChecksFails
  BY <1>7 DEF SelectTimer, GetChecksFails, AfterSelect, WatchTypes
<1>8. WatchTypes'
  BY <1>1, <1>2, <1>3, <1>4, <1>5, <1>6, <1>7 DEF WatchNodeList
<1>9. UNCHANGED syncVars /\ (health' = "done" <=> health = "done")
  BY DEF ChangeCheck, ChangeList, Shutdown, WatchNodeList, SelectReturns, GetList,
         GetListAgain, GetNodes, SendHealth, SendCoord, TakeNodes, StopCoords, SelectList,
         SelectTimer, GetChecksFails, AfterSelect
<1> QED BY <1>8, <1>9

\* The maps are what they were when their variables are.
LEMMA MapsUnchanged ==
  ASSUME UNCHANGED syncVars
  PROVE  /\ MapTypes' <=> MapTypes
         /\ \A c \in Checks : Synced(c)' <=> Synced(c)
         /\ \A c \in Checks : AllStopped(c)' <=> AllStopped(c)
  BY DEF syncVars, MapTypes, Synced, AllStopped, Running

\* The types of the lists, channels and maps, and where each watch can be, hold in
\* every state, whatever definitions the catalog has; and about a check that never
\* has two targets the four maps agree, until watchHealthChecks ends and nothing of
\* it runs.
THEOREM WatchInvariant == Spec => []WatchInv
<1>1. ASSUME WatchInv, [Next]_vars PROVE WatchInv'
  <2> USE <1>1
  <2>1. CountTypes'
    BY CountsKept DEF WatchInv
  <2>2. CASE UNCHANGED vars
    <3>1. WatchTypes' /\ UNCHANGED syncVars /\ UNCHANGED health
      BY <2>2 DEF WatchInv, WatchTypes, vars, consulVars, watchVars, coordVars,
                  healthVars
    <3> QED BY <2>1, <3>1, MapsUnchanged DEF WatchInv, SyncOrStopped
  <2>3. CASE \/ \E c \in Checks : ChangeCheck(c)
             \/ ChangeList \/ Shutdown \/ WatchNodeList \/ GetListAgain \/ TakeNodes \/ StopCoords
             \/ SelectList \/ SelectTimer \/ GetChecksFails
    <3>1. WatchTypes' /\ UNCHANGED syncVars /\ (health' = "done" <=> health = "done")
      BY <2>3, OthersKeepTypes DEF WatchInv
    <3> QED BY <2>1, <3>1, MapsUnchanged DEF WatchInv, SyncOrStopped
  <2>4. CASE SelectShutdown
    <3>1. StopAll /\ health = "select" /\ health' = "done"
      BY <2>4 DEF SelectShutdown
    <3>2. WatchTypes'
      BY <2>4 DEF WatchInv, WatchTypes, SelectShutdown, consulVars, watchVars, coordVars
    <3>3. MapTypes' /\ \A c \in Checks : Synced(c) => AllStopped(c)'
      BY <3>1, StopAllStops DEF WatchInv
    <3> QED BY <2>1, <3>1, <3>2, <3>3 DEF WatchInv, SyncOrStopped
  <2>5. CASE GetChecks
    <3>1. health = "query" /\ health' = "select"
      BY <2>5 DEF GetChecks
    <3>2. WatchTypes'
      BY <2>5 DEF WatchInv, WatchTypes, GetChecks, DetectEdition, consulVars, watchVars,
                  coordVars
    <3>3. UpdateChecks(OurChecks(detected')) \/ UNCHANGED syncVars
      BY <2>5 DEF GetChecks
    <3>4. /\ OurChecks(detected') \in [Checks -> Definitions \cup {None}]
          /\ \A c \in Checks : OurChecks(detected')[c] \in DefsOf[c] \cup {None}
      BY OurChecksType DEF WatchInv
    <3>5. MapTypes' /\ \A c \in Checks : SingleTarget(c) /\ Synced(c) => Synced(c)'
      <4>1. \A c \in Checks : SingleTarget(c) /\ OurChecks(detected')[c] # None
              => \A s, t \in OurChecks(detected')[c].types : s = t
        BY <3>4 DEF SingleTarget
      <4> QED BY <3>3, <3>4, <4>1, UpdateChecksKeepsMaps, MapsUnchanged DEF WatchInv
    <3> QED BY <2>1, <3>1, <3>2, <3>5 DEF WatchInv, SyncOrStopped
  <2> QED BY <2>2, <2>3, <2>4, <2>5 DEF Next, WatchHealthChecks
<1> QED BY WatchInit, <1>1, PTL DEF Spec

\* The state stays well typed: neither channel ever holds more than it has room for
\* (make(chan ..., 1) in Run), and what is in the maps are checkers.
THEOREM WatchTypeCorrect == Spec => []TypeOK
<1>1. WatchInv => TypeOK
  BY DEF WatchInv, WatchTypes, CountTypes, MapTypes, TypeOK, SyncTypeOK
<1> QED BY WatchInvariant, <1>1, PTL

\* While the runner is not stopped, every known check that never has two targets has
\* exactly one running checker, which Runs its definition, an unknown one has none,
\* and none has dropped out of its map, whatever definitions the check went through
\* and whatever other checks there are (UpdateChecks, stopExistingChecks).
THEOREM WatchOneChecker == Spec => []OneCheckerEach
<1>1. ASSUME NEW c \in Checks, Synced(c) PROVE OneChecker(c)
  <2>1. Entries(checkers[c], checks[c])
        /\ (checks[c] # None => Type(checks[c]) \in Types)
        /\ c \notin leaked
    BY <1>1 DEF Synced
  <2>2. CASE checks[c] = None
    BY <2>1, <2>2, TypeOfNone DEF Entries, Running, On, Types, OneChecker
  <2>3. CASE checks[c] # None
    BY <2>1, <2>3, NoneIsNoChecker DEF Entries, Running, On, OneChecker
  <2> QED BY <2>2, <2>3
<1>2. WatchInv => OneCheckerEach
  BY <1>1 DEF WatchInv, SyncOrStopped, OneCheckerEach
<1> QED BY WatchInvariant, <1>2, PTL

\* No checker of a check that never has two targets runs once watchHealthChecks has
\* ended, and none is started again: the safety part of CheckersStop (the deferred
\* Stop of the check runner).
THEOREM WatchStopsCheckers ==
  Spec => [](health = "done" => \A c \in Checks : SingleTarget(c) => AllStopped(c))
<1>1. WatchInv => (health = "done" => \A c \in Checks : SingleTarget(c) => AllStopped(c))
  BY DEF WatchInv, SyncOrStopped
<1> QED BY WatchInvariant, <1>1, PTL
=============================================================================
