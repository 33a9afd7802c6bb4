------------------------ MODULE MCCatalogConnections ------------------------
(***************************************************************************)
(* Two threads on a catalogue that is checked and one that is not.         *)
(***************************************************************************)
EXTENDS CatalogConnections, TLC

CONSTANTS checked, trusted, slot1, slot2, old, doc, hourly, daily

\* Nothing yet; one slot only; the slots of an earlier version.
MCContents == (checked :> {{}, {slot1, doc}, {slot1, old}}) @@ (trusted :> {{}})

MCAsks == {<<checked, daily>>} \union {<<trusted, i>> : i \in {hourly, daily, NoPush}}

Symmetry == Permutations(Threads)
=============================================================================
