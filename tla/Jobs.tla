--------------------------------- MODULE Jobs ---------------------------------
(***************************************************************************)
(* The job manager (libs/jobs/jobs.go).  Every operation runs with its     *)
(* lock held; the goroutine of a job takes the lock only to store its      *)
(* result.  Api composes it with its callers.                              *)
(***************************************************************************)
EXTENDS Naturals, FiniteSets

CONSTANTS
  JobIDs,            \* job definitions that may be found in the jobs directory
  MaxInstances       \* bound: job instances

VARIABLES
  jobsByID,          \* the keys of Manager.jobsByID
  jobInstanceID,     \* Manager.jobInstanceID
  jobInstancesByID,  \* Manager.jobInstancesByID: the status of each instance
  goroutines,        \* the instances whose goroutine has not finished
  cleared            \* history: the instances cleared while they run

jVars == <<jobsByID, jobInstanceID, jobInstancesByID, goroutines, cleared>>

ASSUME JobsAssumption == MaxInstances \in Nat

IDs == 1..MaxInstances
Statuses == {"started", "succeeded", "failed"}

\* The instances in the map.
Listed == DOMAIN jobInstancesByID

\* The map with id's entry set, or without some entries.
Put(id, status) ==
  [i \in Listed \cup {id} |-> IF i = id THEN status ELSE jobInstancesByID[i]]
Without(ids) == [i \in Listed \ ids |-> jobInstancesByID[i]]

-----------------------------------------------------------------------------
(* The operations. *)

\* Wrong: numbers an instance by the entries in the map.
NextIDByCount == Cardinality(Listed) + 1

NextID == jobInstanceID + 1

AddFailedJobInstance ==
  /\ jobInstanceID' = NextID
  /\ jobInstancesByID' = Put(NextID, "failed")
  /\ UNCHANGED <<jobsByID, goroutines, cleared>>

\* Wrong: keeps the instance of a job that was not found, as it is.
RunJobKeepingAlways(job) ==
  /\ jobInstanceID' = NextID
  /\ jobInstancesByID' = Put(NextID, "started")
  /\ goroutines' = IF job \in jobsByID THEN goroutines \cup {NextID} ELSE goroutines
  /\ UNCHANGED <<jobsByID, cleared>>

\* The job may be gone since it was looked up: its instance is returned, not kept.
RunJob(job) ==
  /\ jobInstanceID' = NextID
  /\ IF job \in jobsByID
     THEN /\ jobInstancesByID' = Put(NextID, "started")
          /\ goroutines' = goroutines \cup {NextID}
     ELSE UNCHANGED <<jobInstancesByID, goroutines>>
  /\ UNCHANGED <<jobsByID, cleared>>

\* The goroutine's deferred function, also after a panic.
Complete(id, status) ==
  /\ id \in goroutines
  /\ goroutines' = goroutines \ {id}
  /\ jobInstancesByID' = Put(id, status)
  /\ cleared' = cleared \ {id}
  /\ UNCHANGED <<jobsByID, jobInstanceID>>

Completed == {id \in Listed : jobInstancesByID[id] # "started"}

ClearJobInstances ==
  /\ jobInstancesByID' = Without(Completed)
  /\ UNCHANGED <<jobsByID, jobInstanceID, goroutines, cleared>>

ClearJobInstance(id) ==
  /\ id \in Listed
  /\ jobInstancesByID' = Without({id})
  /\ cleared' = cleared \cup ({id} \cap goroutines)
  /\ UNCHANGED <<jobsByID, jobInstanceID, goroutines>>

\* What load finds replaces the definitions; when it fails, they stay.
Reload ==
  /\ jobsByID' \in SUBSET JobIDs
  /\ UNCHANGED <<jobInstanceID, jobInstancesByID, goroutines, cleared>>

JInit ==
  /\ jobsByID \in SUBSET JobIDs
  /\ jobInstanceID = 0
  /\ jobInstancesByID = [id \in {} |-> "started"]
  /\ goroutines = {}
  /\ cleared = {}

-----------------------------------------------------------------------------
(* Properties. *)

\* The types; every instance listed was numbered by the manager.
JTypeOK ==
  /\ jobsByID \subseteq JobIDs
  /\ jobInstanceID \in 0..MaxInstances
  /\ Listed \subseteq 1..jobInstanceID
  /\ \A id \in Listed : jobInstancesByID[id] \in Statuses
  /\ goroutines \subseteq 1..jobInstanceID
  /\ cleared \subseteq goroutines

\* An instance is listed as started exactly while its job runs, unless it was
\* cleared by its own id: one without a goroutine would never complete, and
\* ClearJobInstances would keep it for ever.
StartedWhileRunning ==
  /\ JTypeOK
  /\ \A id \in Listed : jobInstancesByID[id] = "started" => id \in goroutines
  /\ \A id \in goroutines \ cleared : id \in Listed /\ jobInstancesByID[id] = "started"

\* The outcome of an instance, once stored, is not replaced: no later instance
\* takes its id, and no goroutine stores twice.
OutcomeIsFinal ==
  [][\A id \in Completed : id \in Listed' => jobInstancesByID'[id] = jobInstancesByID[id]]_jVars
=============================================================================
