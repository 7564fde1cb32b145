--------------------------------- MODULE MCFleet -------------------------------
(***************************************************************************)
(* Either the mock connector connects, or browsers use the API.  The       *)
(* configuration is reloaded in both, but not under the largest fleet.     *)
(***************************************************************************)
EXTENDS Fleet

CONSTANTS d1, c1, c2, b1, S, T

VARIABLE study

Config(s, ttl) == [secret |-> [l \in Listeners |-> s], ttl |-> ttl]

\* One and a half seconds, one second, and the default.
MCConfigs == {Config(S, 3), Config(NoSecret, 2), Config(T, 0)}

MCFleets ==
  {[devices |-> {d1}, perDevice |-> 1, controllers |-> {c1}],
   [devices |-> {d1}, perDevice |-> 1, controllers |-> {c1, c2}],
   [devices |-> {d1}, perDevice |-> 2, controllers |-> {c1, c2}],
   [devices |-> {}, perDevice |-> 0, controllers |-> {c1, c2}]}

vars == <<study, fleetVars, authVars>>

MCInit ==
  /\ AuthInit
  /\ FleetInit
  /\ study \in {"fleet", "browsers"}
  /\ study = "browsers" => fleet.devices = {}
  /\ study = "fleet" => InForce # NoSecret
  /\ fleet.perDevice = 2 => InForce = S

MCNext ==
  /\ \/ /\ study = "fleet" /\ FleetNext
        /\ (fleet.perDevice = 2 => reloads' = 0)
        /\ reload'.to.secret["http"] # NoSecret
     \/ study = "browsers" /\ AuthNext /\ UNCHANGED fleetVars
  /\ UNCHANGED study

MCSpec == MCInit /\ [][MCNext]_vars /\ FleetFairness
================================================================================
