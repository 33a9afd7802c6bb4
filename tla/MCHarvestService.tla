-------------------------- MODULE MCHarvestService --------------------------
(***************************************************************************)
(* A small instance of HarvestService: two services, one of which offers   *)
(* two sensors.                                                            *)
(***************************************************************************)
EXTENDS HarvestService, TLC

CONSTANTS weather, gauges, p, q

MCOffers == (weather :> <<p, q>>) @@ (gauges :> <<p>>)
=============================================================================
