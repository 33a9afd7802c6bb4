-------------------------- MODULE MCCatalogHarvest --------------------------
(***************************************************************************)
(* Small instances of CatalogHarvest.                                      *)
(***************************************************************************)
EXTENDS CatalogHarvest, TLC

CONSTANTS ioos, other, buoy, station

\* One catalogue with a live and an ended platform, one with the live one.
MCCatalogs == (ioos :> <<buoy, station>>) @@ (other :> <<buoy>>)
OneLive == (ioos :> <<buoy>>) @@ (other :> <<buoy>>)

RequestSymmetry == Permutations(Requests)
=============================================================================
