----------------------------- MODULE CheckSync -----------------------------
(***************************************************************************)
(* The part of CheckRunner that keeps checkers: UpdateChecks compares the  *)
(* checks of the catalog with the ones it knows, and starts, stops and     *)
(* replaces the goroutines that run them.                                  *)
(*                                                                         *)
(* c.checks says which checks are known; checksHTTP, checksTCP and         *)
(* checksGRPC hold their checkers. The four maps are kept in step by hand, *)
(* and a checker that drops out of its map without a Stop runs for ever:   *)
(* `leaked' remembers those.                                               *)
(*                                                                         *)
(* Abstractions. A definition has the types whose target is not empty, its *)
(* headers as a set of records of a name and a value, its interval and its *)
(* DeregisterCriticalServiceAfter; every other field (target, method, TLS, *)
(* timeout), which UpdateChecks compares for equality, is in `params'. The *)
(* headers User-Agent and Accept that Consul's HTTP checker adds to those  *)
(* of its definition are left out: no comparison looks at them. The        *)
(* results, the counters and the critical times of a check are in module   *)
(* CheckRunner.                                                            *)
(***************************************************************************)
EXTENDS Naturals

CONSTANTS
  Checks,           \* the checks, by hashCheck
  Definitions,      \* what a check can be defined as
  DefaultInterval,  \* defaultInterval
  MinimumInterval   \* minimumInterval

Types == {"HTTP", "TCP", "GRPC"}

ASSUME DefinitionsAssumption ==
  \A d \in Definitions : /\ d.types \subseteq Types
                         /\ d.interval \in Nat
ASSUME IntervalAssumption ==
  /\ DefaultInterval \in Nat /\ MinimumInterval \in Nat
  /\ 0 < MinimumInterval /\ MinimumInterval <= DefaultInterval

VARIABLES
  checks,    \* c.checks: the definition each known check has in the catalog
  checkers,  \* checksHTTP, checksTCP and checksGRPC, for each check
  leaked     \* checks with a running checker that is in no map

syncVars == <<checks, checkers, leaked>>

\* No check, and no checker, in a map.
None == [types |-> {"none"}]

SyncInit ==
  /\ checks = [c \in Checks |-> None]
  /\ checkers = [c \in Checks |-> [t \in Types |-> None]]
  /\ leaked = {}

\* The type UpdateChecks runs a definition as, if any.
Type(d) == CASE "HTTP" \in d.types -> "HTTP"
             [] "TCP" \in d.types /\ "HTTP" \notin d.types -> "TCP"
             [] OTHER -> IF "GRPC" \in d.types THEN "GRPC" ELSE "none"

\* The interval with its default and its minimum.
Interval(d) ==
  LET i == IF d.interval = 0 THEN DefaultInterval ELSE d.interval
  IN  IF i < MinimumInterval THEN MinimumInterval ELSE i

\* A checker that has been started.
NewChecker(d) ==
  [params |-> d.params, interval |-> Interval(d), on |-> TRUE,
   headers |-> IF Type(d) = "HTTP" THEN d.headers ELSE {}]

On(m, t)   == m[t] # None /\ m[t].on
Stopped(k) == IF k = None THEN None ELSE [k EXCEPT !.on = FALSE]

\* Faulty variants: a checker that is stopped and always stays in its map; a stop
\* that forgets one of the maps.
StopExistingKeeps(m, d) ==
  CASE m["HTTP"] # None -> [m EXCEPT !["HTTP"] = Stopped(@)]
    [] m["HTTP"] = None /\ m["TCP"] # None -> [m EXCEPT !["TCP"] = Stopped(@)]
    [] OTHER -> [m EXCEPT !["GRPC"] = Stopped(@)]

StopAllButGRPC ==
  /\ checkers' = [c \in Checks |-> [t \in Types |->
                    IF t = "GRPC" THEN checkers[c][t] ELSE Stopped(checkers[c][t])]]
  /\ UNCHANGED <<checks, leaked>>

\* headersAlmostEqual: the headers of the checker are in the definition, with their
\* values; the ones Consul adds by itself are skipped.
Skipped == {"User-Agent", "Accept"}

HeadersAlmostEqual(k, d) == \A h \in k.headers : h.name \in Skipped \/ h \in d.headers

\* Whether an updateCheck function leaves the checker of a known check alone. It
\* does not ask whether the checker runs.
UpToDate(c, d) ==
  LET k == checkers[c][Type(d)]
  IN  /\ k # None
      /\ k.params = d.params
      /\ k.interval = Interval(d)
      /\ Type(d) = "HTTP" => HeadersAlmostEqual(k, d)
      /\ checks[c].dereg = d.dereg

\* stopExistingChecks: the first map that has the check is the one its checker is
\* taken to be in; the entry stays when the definition still has that type.
StopExisting(m, d) ==
  LET stop(t) == [m EXCEPT ![t] = IF t \in d.types THEN Stopped(@) ELSE None]
  IN  CASE m["HTTP"] # None -> stop("HTTP")
        [] m["HTTP"] = None /\ m["TCP"] # None -> stop("TCP")
        [] OTHER -> stop("GRPC")

Inconsistent(c) == \A t \in Types : checkers[c][t] = None

\* The entries of a check that is removed: all three maps are looked at.
Removed(m) == [t \in Types |-> None]

\* A check that was found, with definition d, and one that was not: what becomes
\* of its checkers, the running one included.
Found(c, d) ==
  CASE checks[c] # None /\ UpToDate(c, d) -> checkers[c]
    [] checks[c] # None /\ ~UpToDate(c, d) /\ Inconsistent(c) -> checkers[c]
    [] OTHER ->
         [IF checks[c] = None THEN checkers[c] ELSE StopExisting(checkers[c], d)
            EXCEPT ![Type(d)] = NewChecker(d)]

NotFound(c) == IF checks[c] = None THEN checkers[c] ELSE Removed(checkers[c])

\* Whether the checker Found starts overwrites one that has not been stopped.
Overwrites(c, d) ==
  /\ ~(checks[c] # None /\ (UpToDate(c, d) \/ Inconsistent(c)))
  /\ On(IF checks[c] = None THEN checkers[c] ELSE StopExisting(checkers[c], d), Type(d))

\* UpdateChecks with the checks that were fetched, None where there was no such
\* check; a definition without a type is skipped, and so not found.
UpdateChecks(fetched) ==
  LET found == {c \in Checks : fetched[c] # None /\ Type(fetched[c]) # "none"}
  IN  /\ checks' = [c \in Checks |-> IF c \in found THEN fetched[c] ELSE None]
      /\ checkers' = [c \in Checks |-> IF c \in found THEN Found(c, fetched[c])
                                                      ELSE NotFound(c)]
      /\ leaked' = leaked \cup {c \in found : Overwrites(c, fetched[c])}

\* CheckRunner.Stop, after the batcher: every checker in the maps is stopped.
StopAll ==
  /\ checkers' = [c \in Checks |-> [t \in Types |-> Stopped(checkers[c][t])]]
  /\ UNCHANGED <<checks, leaked>>

-----------------------------------------------------------------------------

Checker ==
  [params : {d.params : d \in Definitions},
   headers : {d.headers : d \in Definitions} \cup {{}},
   interval : Nat, on : BOOLEAN]

\* The types of the maps: an entry is a checker with the settings of some definition.
SyncTypeOK ==
  /\ checks \in [Checks -> Definitions \cup {None}]
  /\ \A c \in Checks : \A t \in Types :
       checkers[c][t] \in Checker \cup {None}
  /\ leaked \subseteq Checks

Running(c) == {t \in Types : On(checkers[c], t)}

\* A checker runs what the definition says, and sends no header the definition does
\* not have, except that a User-Agent or Accept it was once given stays. It may lack
\* headers the definition has.
Runs(k, d) ==
  /\ k.params = d.params /\ k.interval = Interval(d)
  /\ \A h \in k.headers \ d.headers : h.name \in Skipped

\* The maps agree about a check: if it is known it has one running checker, with its
\* definition, and if it is not it has none.
OneChecker(c) ==
  /\ c \notin leaked
  /\ IF checks[c] = None THEN Running(c) = {}
     ELSE /\ Running(c) = {Type(checks[c])}
          /\ Runs(checkers[c][Type(checks[c])], checks[c])
=============================================================================
