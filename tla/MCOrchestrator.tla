--------------------------- MODULE MCOrchestrator ---------------------------
(* One TLC instance for the three parts of the orchestrator.  They share no  *)
(* state, so each behaviour exercises one of them, chosen at the start.      *)
EXTENDS OrchestratorCaches, WorkerFleets, BatchExecutor

VARIABLE subject   \* the part at work; never changes

MCInit ==
    /\ subject \in {"caches", "fleets", "batch"}
    /\ CacheInit /\ FleetInit /\ BatchInit
    /\ subject # "caches" => kind = "results"
    /\ subject # "batch" => inputs = 0

MCNext ==
    /\ UNCHANGED subject
    /\ \/ subject = "caches" /\ CacheNext /\ UNCHANGED <<fleetVars, batchVars>>
       \/ subject = "fleets" /\ FleetNext /\ UNCHANGED <<cacheVars, batchVars>>
       \/ subject = "batch" /\ BatchNext /\ UNCHANGED <<cacheVars, fleetVars>>

(* No fair action is enabled in a part that was not started.  *)
MCSpec ==
    /\ MCInit /\ [][MCNext]_<<subject, cacheVars, fleetVars, batchVars>>
    /\ CacheFairness /\ FleetFairness /\ BatchFairness

-----------------------------------------------------------------------------
(* Every variable of the three parts keeps to its type.                       *)
TypesOK == CacheTypeOK /\ FleetTypeOK /\ BatchTypeOK

(* Every call of the orchestrator returns: no loop is kept going and no lock  *)
(* or channel held up by the others.                                          *)
CallsReturn == CacheCallsReturn /\ FleetCallsReturn /\ BatchReturns
=============================================================================
