------------------------------ MODULE MCClient ------------------------------
(* One TLC instance for four parts of the clients that share no state: each  *)
(* behaviour exercises one of them, chosen at the start.                     *)
EXTENDS SnapshotLineage, Singleflight, MsgpackWorker, LspShutdown

VARIABLE subject   \* the part at work; never changes

MCInit ==
    /\ subject \in {"lineage", "singleflight", "msgpack", "shutdown"}
    /\ LineageInit /\ FlightInit /\ MsgpackInit /\ ShutdownInit
    /\ subject # "msgpack" => timed
    /\ subject # "shutdown" => graceful = {}

MCNext ==
    /\ UNCHANGED subject
    /\ \/ subject = "lineage" /\ LineageNext /\ UNCHANGED <<flightVars, msgpackVars, shutdownVars>>
       \/ subject = "singleflight" /\ FlightNext /\ UNCHANGED <<lineageVars, msgpackVars, shutdownVars>>
       \/ subject = "msgpack" /\ MsgpackNext /\ UNCHANGED <<lineageVars, flightVars, shutdownVars>>
       \/ subject = "shutdown" /\ ShutdownNext /\ UNCHANGED <<lineageVars, flightVars, msgpackVars>>

(* No fair action is enabled in a part that was not started.  *)
MCSpec ==
    /\ MCInit /\ [][MCNext]_<<subject, lineageVars, flightVars, msgpackVars, shutdownVars>>
    /\ LineageFairness /\ FlightFairness /\ MsgpackFairness /\ ShutdownFairness

-----------------------------------------------------------------------------
(* Every variable of the four parts keeps to its type.                        *)
TypesOK == LineageTypeOK /\ FlightTypeOK /\ MsgpackTypeOK /\ ShutdownTypeOK

(* Nobody who calls into a client waits for ever, and no child outlives it:   *)
(* every update gets the gate, whoever joins a flight hears of it, requests   *)
(* and closes of the worker end although its child may hang, and every clone  *)
(* that closes the LSP client returns.                                         *)
CallersReturn ==
    /\ UpdatesReturn
    /\ JoinersReturn
    /\ WorkerRests
    /\ ShutdownRests
=============================================================================
