--------------------------- MODULE SensorCatalogue ---------------------------
(***************************************************************************)
(* What the sensor tables promise to the clients of the registry: a sensor *)
(* is registered once under an identifier of its own, may be linked to     *)
(* services while it is registered, and is retired together with all its   *)
(* links; an identifier never comes back.                                  *)
(***************************************************************************)
CONSTANTS SensorIds, References

VARIABLES
  registered,  \* sensors of the catalogue
  retired,     \* sensors that were taken out of it
  linked       \* pairs of a sensor and a service reference

vars == <<registered, retired, linked>>

Init ==
  /\ registered = {}
  /\ retired = {}
  /\ linked = {}

\* A sensor enters with an identifier that was never in use.
Register(id) ==
  /\ id \notin registered \union retired
  /\ registered' = registered \union {id}
  /\ UNCHANGED <<retired, linked>>

\* A registered sensor is found at one more service.
LinkTo(id, ref) ==
  /\ id \in registered
  /\ linked' = linked \union {<<id, ref>>}
  /\ UNCHANGED <<registered, retired>>

\* A sensor leaves, and its links leave in the same step.
Retire(id) ==
  /\ id \in registered
  /\ registered' = registered \ {id}
  /\ retired' = retired \union {id}
  /\ linked' = {x \in linked : x[1] # id}

Next ==
  \E id \in SensorIds :
    \/ Register(id)
    \/ Retire(id)
    \/ \E ref \in References : LinkTo(id, ref)

Spec == Init /\ [][Next]_vars

=============================================================================
