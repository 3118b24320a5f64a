-------------------------- MODULE MCNodeListWatch --------------------------
(***************************************************************************)
(* NodeListWatch with a check whose definition changes its type, headers   *)
(* and interval, and one in another namespace and on another node that     *)
(* only comes and goes.                                                    *)
(***************************************************************************)
EXTENDS NodeListWatch, TLC

CONSTANTS c1, c2, n1, n2

Def(types, params, headers, interval, dereg) ==
  [types |-> types, params |-> params, headers |-> headers, interval |-> interval,
   dereg |-> dereg]

H(name, value) == [name |-> name, value |-> value]

\* One type each; the last one has none. Between the HTTP ones a header comes and
\* goes, and so does one that is skipped.
Changing == {
  Def({"HTTP"}, "a", {}, 0, 0),
  Def({"HTTP"}, "a", {H("X", 1)}, 3, 0),
  Def({"HTTP"}, "a", {H("X", 1), H("Accept", 1)}, 3, 0),
  Def({"TCP"}, "b", {}, 1, 0),
  Def({"GRPC"}, "c", {}, 3, 1),
  Def({}, "a", {}, 3, 0) }
Plain == {Def({"TCP"}, "c", {}, 3, 0)}

AllDefs == Changing \cup Plain
DefsPerCheck == (c1 :> Changing @@ c2 :> Plain)

Placement == (c1 :> n1 @@ c2 :> n2)
=============================================================================
