----------------------- MODULE MCPhenomenonDictionary -----------------------
(***************************************************************************)
(* Small instances of PhenomenonDictionary: a packaged document, or none.   *)
(***************************************************************************)
EXTENDS PhenomenonDictionary

CONSTANTS rain, wind

MCPackages == {<<rain>>, Nothing}
ShippedDictionary == {<<rain, wind>>}
=============================================================================
