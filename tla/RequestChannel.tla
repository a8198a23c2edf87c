--------------------------- MODULE RequestChannel ---------------------------
(***************************************************************************)
(* What uvloop promises its clients, without handles, wake-ups, flags or   *)
(* threads: a request is accepted or refused when it is submitted; at most *)
(* Capacity requests are in flight; accepted requests are served one at a  *)
(* time, each at most once; a refused request is never served.             *)
(***************************************************************************)
EXTENDS Integers, FiniteSets

CONSTANTS Requests, Capacity

VARIABLES
  waiting,  \* accepted requests that have not been served
  serving,  \* the request being served, as a set of at most one element
  served,   \* requests that have been served
  refused   \* requests that were turned down

vars == <<waiting, serving, served, refused>>

Fresh == Requests \ (waiting \cup serving \cup served \cup refused)

Init ==
  /\ waiting = {}
  /\ serving = {}
  /\ served = {}
  /\ refused = {}

Accept(r) ==
  /\ r \in Fresh
  /\ Cardinality(waiting \cup serving) < Capacity
  /\ waiting' = waiting \cup {r}
  /\ UNCHANGED <<serving, served, refused>>

Refuse(r) ==
  /\ r \in Fresh
  /\ refused' = refused \cup {r}
  /\ UNCHANGED <<waiting, serving, served>>

Begin(r) ==
  /\ r \in waiting
  /\ serving = {}
  /\ waiting' = waiting \ {r}
  /\ serving' = {r}
  /\ UNCHANGED <<served, refused>>

End(r) ==
  /\ r \in serving
  /\ serving' = {}
  /\ served' = served \cup {r}
  /\ UNCHANGED <<waiting, refused>>

Next == \E r \in Requests : Accept(r) \/ Refuse(r) \/ Begin(r) \/ End(r)

Spec == Init /\ [][Next]_vars
=============================================================================
