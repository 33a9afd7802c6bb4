----------------------------- MODULE SensorExtent -----------------------------
(***************************************************************************)
(* Where and when a harvested sensor observes: from the envelope and the   *)
(* validTime of its document, through SensorMLDecoder, into the columns of *)
(* table sensor, and back into the result of a search.                     *)
(*                                                                         *)
(* Pool threads decode at the same time, each with objects of its own but  *)
(* all with the one static SimpleDateFormat of IndeterminateTime, which is *)
(* not synchronised: threads inside parse() together may get any date or   *)
(* an exception.  Documents were validated: they have one member with one  *)
(* envelope and a validTime.  Coordinates are counted in half units, so    *)
(* that Double.MIN_VALUE, the least positive double, has a place between 0 *)
(* and the least positive coordinate.  The comparison with the rows of     *)
(* table sensor is HarvestService's.                                       *)
(***************************************************************************)
EXTENDS Integers, FiniteSets, FiniteSetsExt

CONSTANTS
  Threads,      \* pool threads, each with one sensor document
  Coordinates,  \* coordinates of envelopes, in half units
  MaxValue,     \* Double.MAX_VALUE
  Dates,        \* the dates of documents, and those that disturbed parsing yields
  Documents,    \* the documents harvested
  None

MinValue == 1   \* Double.MIN_VALUE

ASSUME CoordinatesAssumption ==
  /\ Coordinates \subseteq {2 * k : k \in -100 .. 100}
  /\ MaxValue \in Nat /\ \A c \in Coordinates : c < MaxValue

\* TimeIndeterminateValueType: the two that the decoder knows.
Indeterminate == {"now", "unknown"}
Positions == Dates \union Indeterminate

\* Lower and upper corner, as (x, y).
Envelope ==
  {e \in [lower : Coordinates \X Coordinates, upper : Coordinates \X Coordinates] :
     e.lower[1] <= e.upper[1] /\ e.lower[2] <= e.upper[2]}
Document == [envelope : Envelope, begin : Positions, end : Positions]

ASSUME DocumentsAssumption == Documents \subseteq Document
ASSUME NoneAssumption == None \notin Dates \union Indeterminate

VARIABLES
  document,   \* what the thread decodes
  decoding,
  box,        \* the SirBoundingBox of the sensor
  start, end, \* its TimePeriod
  row,        \* the row of the sensor, None if there is none
  result,     \* bounding box of the sensor in the last search
  disturbed   \* history: threads that were not alone in parse()

extentVars == <<document, decoding, box, start, end, row, result, disturbed>>

Values == Coordinates \union {MinValue, MaxValue}
Box == [east : Values, south : Values, west : Values, north : Values]
Parsing == {"parseBegin", "parseEnd"}

ExtentTypeOK ==
  /\ document \in [Threads -> Documents]
  /\ decoding \in [Threads -> {"box", "begin", "end", "insert", "stored", "failed"} \union Parsing]
  /\ box \in [Threads -> Box]
  /\ start \in [Threads -> Positions \union {None}]
  /\ end \in [Threads -> Positions \union {None}]
  /\ row \in [Threads -> [box : Box, from : Dates \union {"-infinity"},
                          to : Dates \union {"infinity"}] \union {None}]
  /\ result \in [Threads -> Box \union {None}]
  /\ disturbed \subseteq Threads

\* new SirBoundingBox(MAX_VALUE, MAX_VALUE, MIN_VALUE, MIN_VALUE)
EmptyBox == [east |-> MaxValue, south |-> MaxValue, west |-> MinValue, north |-> MinValue]

ExtentInit ==
  /\ document \in [Threads -> Documents]
  /\ decoding = [t \in Threads |-> "box"]
  /\ box = [t \in Threads |-> EmptyBox]
  /\ start = [t \in Threads |-> None]
  /\ end = [t \in Threads |-> None]
  /\ row = [t \in Threads |-> None]
  /\ result = [t \in Threads |-> None]
  /\ disturbed = {}

-----------------------------------------------------------------------------
GoOn(t, label) == decoding' = [decoding EXCEPT ![t] = label]

\* getBoundingBox(SystemType): the corners of the observedBBOX; x grows to "west".
BoxOf(e) == [east |-> e.lower[1], south |-> e.lower[2], west |-> e.upper[1], north |-> e.upper[2]]

Union(a, b) ==
  [east |-> Min({a.east, b.east}), south |-> Min({a.south, b.south}),
   west |-> Max({a.west, b.west}), north |-> Max({a.north, b.north})]

\* The box of the one member, united with one that is not quite empty.
DecodeBox(t) ==
  /\ decoding[t] = "box"
  /\ box' = [box EXCEPT ![t] = Union(EmptyBox, BoxOf(document[t].envelope))]
  /\ GoOn(t, "begin")
  /\ UNCHANGED <<document, start, end, row, result, disturbed>>

\* new IndeterminateTime(String) enters sdf.parse().
EnterParse(t) ==
  /\ \/ decoding[t] = "begin" /\ GoOn(t, "parseBegin")
     \/ decoding[t] = "end" /\ GoOn(t, "parseEnd")
  /\ LET others == {q \in Threads \ {t} : decoding[q] \in Parsing}
     IN disturbed' = IF others = {} THEN disturbed ELSE disturbed \union others \union {t}
  /\ UNCHANGED <<document, box, start, end, row, result>>

\* What parse() and, after a ParseException, the name of an indeterminate
\* position come to; a text that is no date never gets one.
Parsed(t, text) ==
  {text} \union (IF t \in disturbed /\ text \in Dates THEN Dates ELSE {})

\* Mutant of LeaveParse: begin and end of the valid time exchanged.
LeaveParseExchanged(t) ==
  /\ \/ /\ decoding[t] = "parseBegin"
        /\ \E p \in Parsed(t, document[t].end) : start' = [start EXCEPT ![t] = p]
        /\ GoOn(t, "end")
        /\ UNCHANGED end
     \/ /\ decoding[t] = "parseEnd"
        /\ \E p \in Parsed(t, document[t].begin) : end' = [end EXCEPT ![t] = p]
        /\ GoOn(t, "insert")
        /\ UNCHANGED start
  /\ UNCHANGED <<document, box, row, result, disturbed>>

\* Disturbed parsing may also raise, or take a date for no date, whose name is
\* then no indeterminate position: nothing catches these RuntimeExceptions here.
LeaveParse(t) ==
  /\ \/ /\ decoding[t] = "parseBegin"
        /\ \E p \in Parsed(t, document[t].begin) : start' = [start EXCEPT ![t] = p]
        /\ GoOn(t, "end")
        /\ UNCHANGED end
     \/ /\ decoding[t] = "parseEnd"
        /\ \E p \in Parsed(t, document[t].end) : end' = [end EXCEPT ![t] = p]
        /\ GoOn(t, "insert")
        /\ UNCHANGED start
     \/ /\ decoding[t] \in Parsing /\ t \in disturbed
        /\ GoOn(t, "failed")
        /\ UNCHANGED <<start, end>>
  /\ UNCHANGED <<document, box, row, result, disturbed>>

\* SqlTools.getStartDate and getEndDate; "now" has no date, and the text null
\* that takes its place is no timestamp.
DateText(position, limit) == IF position = "unknown" THEN limit ELSE position

\* Mutant of Insert: an indeterminate position is a NULL of the database.
InsertNull(t) ==
  /\ decoding[t] = "insert"
  /\ row' = [row EXCEPT ![t] = [box |-> box[t],
                                from |-> DateText(start[t], "-infinity"),
                                to |-> DateText(end[t], "infinity")]]
  /\ GoOn(t, "stored")
  /\ UNCHANGED <<document, box, start, end, result, disturbed>>

\* The INSERT of insertSensorCommand().
Insert(t) ==
  /\ decoding[t] = "insert"
  /\ IF "now" \in {start[t], end[t]}
     THEN GoOn(t, "failed") /\ UNCHANGED row
     ELSE /\ row' = [row EXCEPT ![t] = [box |-> box[t],
                                        from |-> DateText(start[t], "-infinity"),
                                        to |-> DateText(end[t], "infinity")]]
          /\ GoOn(t, "stored")
  /\ UNCHANGED <<document, box, start, end, result, disturbed>>

\* The corners of the stored polygon, as (x, y).
Corners(b) == {<<b.west, b.north>>, <<b.east, b.north>>, <<b.east, b.south>>, <<b.west, b.south>>}

\* Mutant of BoxOfGeometry: x and y exchanged.
BoxOfLatLon(points) ==
  [east |-> Min({p[2] : p \in points}), south |-> Min({p[1] : p \in points}),
   west |-> Max({MinValue} \union {p[2] : p \in points}),
   north |-> Max({MinValue} \union {p[1] : p \in points})]

\* new SirBoundingBox(Geometry)
BoxOfGeometry(points) ==
  [east |-> Min({p[1] : p \in points}), south |-> Min({p[2] : p \in points}),
   west |-> Max({MinValue} \union {p[1] : p \in points}),
   north |-> Max({MinValue} \union {p[2] : p \in points})]

\* A search with bounding boxes finds the sensor.
Search(t) ==
  /\ decoding[t] = "stored"
  /\ result' = [result EXCEPT ![t] = BoxOfGeometry(Corners(row[t].box))]
  /\ UNCHANGED <<document, decoding, box, start, end, row, disturbed>>

\* Every harvest of this behaviour is over.
AllDecoded ==
  /\ \A t \in Threads : decoding[t] \in {"stored", "failed"}
  /\ UNCHANGED extentVars

ExtentNext ==
  \/ AllDecoded
  \/ \E t \in Threads :
       DecodeBox(t) \/ EnterParse(t) \/ LeaveParse(t) \/ Insert(t) \/ Search(t)

ExtentSpec == ExtentInit /\ [][ExtentNext]_extentVars

-----------------------------------------------------------------------------
(* Properties *)

Described(t) == BoxOf(document[t].envelope)
NorthEastern(b) == b.west > 0 /\ b.north > 0
Covers(a, b) ==
  a.east <= b.east /\ a.south <= b.south /\ a.west >= b.west /\ a.north >= b.north

\* A search result shows the box its document describes, though the numbers
\* pass through two extremal searches and a polygon, where that box reaches
\* beyond the equator and the meridian; elsewhere it still covers it.
FoundWhereDescribed ==
  \A t \in Threads : result[t] # None =>
    /\ NorthEastern(Described(t)) => result[t] = Described(t)
    /\ Covers(result[t], Described(t))

\* A thread that was alone in the date format stored the period of its own
\* document, however many others parsed before, after or between its dates.
StoredWhenDescribed ==
  \A t \in Threads : decoding[t] = "stored" /\ t \notin disturbed =>
    /\ row[t].from = DateText(document[t].begin, "-infinity")
    /\ row[t].to = DateText(document[t].end, "infinity")

-----------------------------------------------------------------------------
(* The inductive invariant *)

\* The decoder fills the sensor before it is stored, and nothing changes it later.
Decoded ==
  \A t \in Threads :
    /\ decoding[t] # "box" => box[t] = Union(EmptyBox, Described(t))
    /\ decoding[t] \in {"end", "parseEnd", "insert", "stored"} => start[t] \in Positions
    /\ decoding[t] \in {"insert", "stored"} => end[t] \in Positions

\* What parsing alone yields is what the document says.
OwnPeriod ==
  \A t \in Threads \ disturbed :
    /\ decoding[t] \in {"end", "parseEnd", "insert", "stored"} => start[t] = document[t].begin
    /\ decoding[t] \in {"insert", "stored"} => end[t] = document[t].end

\* A row holds the sensor, and a search what the row holds.
Stored ==
  \A t \in Threads :
    /\ decoding[t] = "stored" =>
         row[t] = [box |-> box[t], from |-> DateText(start[t], "-infinity"),
                   to |-> DateText(end[t], "infinity")]
    /\ result[t] # None => decoding[t] = "stored" /\ result[t] = BoxOfGeometry(Corners(box[t]))

\* Wherever the threads are: types, what each has decoded, and what it has stored.
ExtentInductive == ExtentTypeOK /\ Decoded /\ OwnPeriod /\ Stored

=============================================================================
