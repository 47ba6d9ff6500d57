---------------------------- MODULE MCOpsManager ----------------------------
(***************************************************************************)
(* An instance of OpsManager with two of the seeded services and two of    *)
(* the seeded schedulers.  The list keeps four events, so that the seeds   *)
(* and then events of switches are cut from it.                            *)
(***************************************************************************)
EXTENDS OpsManager

CONSTANTS clawbotServer, exampleApp, heartbeat, reconcile, v

Statuses == [s \in {clawbotServer, exampleApp} |->
                IF s = exampleApp THEN "degraded" ELSE "healthy"]

Failed == {exampleApp}

Seeds ==
    [s \in {heartbeat, reconcile} |->
        IF s = heartbeat
          THEN [enabled |-> TRUE, due |-> TRUE, result |-> "warning", failed |-> FALSE]
          ELSE [enabled |-> FALSE, due |-> FALSE, result |-> "paused", failed |-> TRUE]]

ThreeEvents ==
    <<[id |-> 3, source |-> exampleApp, type |-> "service.degraded"],
      [id |-> 2, source |-> heartbeat, type |-> "scheduler.completed"],
      [id |-> 1, source |-> clawbotServer, type |-> "service.started"]>>

OneViewer == {v}
=============================================================================
