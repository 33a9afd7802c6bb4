---------------------------- MODULE MCSensorExtent ----------------------------
(***************************************************************************)
(* A small instance of SensorExtent.                                       *)
(***************************************************************************)
EXTENDS SensorExtent

CONSTANTS d1, d2

MCCoordinates == {-2, 0, 2}

\* Every envelope once with each kind of period; "now" at either end.
MCDocuments ==
  [envelope : Envelope, begin : {d1}, end : {d2}]
    \union [envelope : {[lower |-> <<-2, 0>>, upper |-> <<2, 2>>]}, begin : Positions, end : Positions]

=============================================================================
