-------------------------- MODULE MCSensorRegistry --------------------------
(***************************************************************************)
(* Small instances of SensorRegistry: the bodies that clients send.        *)
(***************************************************************************)
EXTENDS SensorRegistry

CONSTANTS a, b, c, d, sos, x, y

TwoReferences == <<<<sos, x>>, <<sos, y>>>>

New(rs) == [kind |-> "newSensor", id |-> None, refs |-> rs]
On(kind, id, rs) == [kind |-> kind, id |-> id, refs |-> rs]

\* InsertSensorInfo of references for a known identifier, then of a sensor with
\* a reference; of a nonconforming sensor, then of references.  DeleteSensorInfo
\* of two sensors, of a reference, of a sensor named by a reference.  The
\* elements without references; updates.
MCInputs ==
  {<<On("newReferences", a, <<<<sos, y>>>>), New(<<<<sos, x>>>>)>>,
   <<On("invalidSensor", None, <<>>), On("newReferences", a, TwoReferences)>>,
   <<On("deleteSensor", a, <<>>), On("deleteSensor", b, <<>>)>>,
   <<On("deleteReferences", a, <<<<sos, x>>>>)>>,
   <<On("deleteSensor", None, <<>>)>>,
   <<On("deleteReferences", a, <<>>), On("updateSensor", None, <<>>),
     On("newReferences", b, <<>>)>>,
   <<On("updateSensor", a, <<>>)>>}

InsertOne == {<<New(<<>>)>>}
=============================================================================
