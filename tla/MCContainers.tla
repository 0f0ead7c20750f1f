---------------------------- MODULE MCContainers ----------------------------
(* Containers and services for TLC: a behaviour is about one of them, the   *)
(* state of the others keeps one initial value.                             *)
EXTENDS CircularBuffer, SpscRing, WorkQueue, ServiceLocator, SlotMap, ObjectPool,
        RateLimiter, StringPool, FeatureManager, FastHashMap, IdGenerator

VARIABLE part

Parts == {"buffer", "observed", "ring", "work", "services", "slots", "pool", "limiter",
          "strings", "features", "scopes", "hash", "ids"}

(* A step of the chosen part leaves the others alone. *)
OthersStay ==
  /\ UNCHANGED part
  /\ IF part \in {"buffer", "observed"} THEN TRUE ELSE UNCHANGED vars
  /\ IF part = "ring" THEN TRUE ELSE UNCHANGED ringVars
  /\ IF part = "work" THEN TRUE ELSE UNCHANGED wqVars
  /\ IF part = "services" THEN TRUE ELSE UNCHANGED servicesVars
  /\ IF part = "slots" THEN TRUE ELSE UNCHANGED slotMapVars
  /\ IF part = "pool" THEN TRUE ELSE UNCHANGED poolVars
  /\ IF part = "limiter" THEN TRUE ELSE UNCHANGED limiterVars
  /\ IF part = "strings" THEN TRUE ELSE UNCHANGED stringsVars
  /\ IF part \in {"features", "scopes"} THEN TRUE ELSE UNCHANGED featuresVars
  /\ IF part = "hash" THEN TRUE ELSE UNCHANGED hashVars
  /\ IF part = "ids" THEN TRUE ELSE UNCHANGED idVars

PartsInit ==
  /\ part \in Parts
  /\ Init /\ RingInit /\ SlotMapInit /\ PoolInit /\ StringsInit /\ FeaturesInit
  /\ WqInit
  /\ part # "work" => routing = "random" /\ token = [t \in Workers |-> 0]
  /\ ServicesInit /\ (part # "services" => overwrite)
  /\ LimiterInit /\ (part # "limiter" => limiter = "token")
  /\ HashInit
  /\ part # "hash" => deletion = "shift" /\ \A k \in HashKeys : \A h \in Hashes : hash_key[k] <= h
  /\ IdInit
  /\ part # "ids" => /\ idPolicies.allocation = "sequential" /\ idPolicies.recycling = "none"
                     /\ ~idPolicies.sentinel

(* Bound: beside an observer, who looks at the indices alone, all elements  *)
(* are the same value, none throws when it is put, and front() is not       *)
(* called; without one they are any values.                                 *)
ElementsAlike ==
  /\ item'[Producer] \in {NoValue, CHOOSE v \in Values : TRUE}
  /\ ~PushThrows
  /\ peek' = NoValue

(* Bound: beside a scope there is one relationship at a time; without one   *)
(* there are MaxEdges.                                                      *)
FewRelationships == edges' <= 1
NoScopes == scope' = NoScope

PartsNext ==
  \/ part = "buffer" /\ (Push \/ Pop \/ Clear) /\ OthersStay
  \/ part = "observed" /\ Next /\ ElementsAlike /\ OthersStay
  \/ part = "ring" /\ RingNext /\ OthersStay
  \/ part = "work" /\ WqNext /\ OthersStay
  \/ part = "services" /\ ServicesNext /\ OthersStay
  \/ part = "slots" /\ SlotMapNext /\ OthersStay
  \/ part = "pool" /\ PoolNext /\ OthersStay
  \/ part = "limiter" /\ LimiterNext /\ OthersStay
  \/ part = "strings" /\ StringsNext /\ OthersStay
  \/ part = "features" /\ FeaturesNext /\ NoScopes /\ OthersStay
  \/ part = "scopes" /\ FeaturesNext /\ FewRelationships /\ OthersStay
  \/ part = "hash" /\ HashNext /\ OthersStay
  \/ part = "ids" /\ IdNext /\ OthersStay

PartsSpec == PartsInit /\ [][PartsNext]_<<part, vars, ringVars, wqVars, servicesVars,
                             slotMapVars, poolVars, limiterVars, stringsVars, featuresVars,
                             hashVars, idVars>>

(* Every part keeps its types: no index, position, counter or list leaves   *)
(* its range, whatever wraps, throws or is called again from inside.        *)
ContainersTypeOK ==
  /\ RingTypeOK /\ WqTypeOK /\ ServicesTypeOK /\ SlotMapTypeOK /\ PoolTypeOK
  /\ LimiterTypeOK /\ StringsTypeOK /\ FeaturesTypeOK /\ HashTypeOK /\ IdTypeOK
=============================================================================
