--------------------------- MODULE MCRemoteHarvest ---------------------------
(***************************************************************************)
(* Two threads, and two servers: one without sensors, which is down or     *)
(* silent now and then, and one whose harvest need not end.                *)
(***************************************************************************)
EXTENDS RemoteHarvest, TLC

CONSTANTS bare, rich

MCAnswers == (bare :> {"noSensors", "failure", "silence"})
               @@ (rich :> Kinds \ {"noSensors"})
=============================================================================
