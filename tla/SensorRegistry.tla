---------------------------- MODULE SensorRegistry ----------------------------
(***************************************************************************)
(* InsertSensorInfo, DeleteSensorInfo and UpdateSensorDescription: what    *)
(* the three listeners of the SIR service do to the two stores that hold   *)
(* sensor metadata, the PostgreSQL database and the Solr index.  The rows  *)
(* they meet in the database come from harvests (HarvestService): the      *)
(* statement with which InsertSensorInfo stores a sensor is never accepted.*)
(*                                                                         *)
(* Every servlet thread runs one listener call, and the connections are    *)
(* in autocommit mode: each statement commits alone and the statements of  *)
(* concurrent requests interleave.  There is one action per statement,     *)
(* two for an INSERT ... WHERE NOT EXISTS (the subquery's snapshot, then   *)
(* the insert and its constraint checks).                                  *)
(*                                                                         *)
(* Abstracted: the content of a sensor document (a sensor is its           *)
(* identifier; the SERIAL sensor_id_sir is written for one identifier once *)
(* and is not told apart from it) and the connection pool (ConnectionPool  *)
(* models it: here any statement may fail for want of a connection).       *)
(***************************************************************************)
EXTENDS Naturals, Sequences, FiniteSets

CONSTANTS
  Requests,    \* listener calls, each made by a servlet thread
  SensorIds,   \* identifiers IdentifierGenerator.generate() can return
  Harvested,   \* bound: the identifiers of sensors that harvests find
  Services,    \* (service_url, service_type) pairs
  Specs,       \* service specific sensor identifiers
  Inputs,      \* the bodies clients send: sequences of Info
  None,        \* no identifier
  Faults       \* TRUE if the stores, their connections and the container may fail

\* A SirServiceReference: the service and the identifier the sensor has there.
References == Services \X Specs

\* One SirInfoToBeInserted, SirInfoToBeDeleted or SirDescriptionToBeUpdated.
\* id = None: the sensor is identified by a service reference, which the
\* decoder does not accept for new references.
Info ==
  {i \in [kind : {"newSensor", "invalidSensor", "newReferences",
                  "deleteSensor", "deleteReferences", "updateSensor"},
          id : SensorIds \union {None},
          refs : Seq(References)] :
     i.kind = "newReferences" => i.id \in SensorIds}

ASSUME NoneAssumption == None \notin SensorIds
ASSUME HarvestedAssumption == Harvested \subseteq SensorIds
ASSUME InputAssumption == Inputs \subseteq Seq(Info)
ASSUME FaultsAssumption == Faults \in BOOLEAN

VARIABLES
  (* The stores. *)
  sensor,         \* identifiers with a row in table sensor
  service,        \* rows of table service
  sensorService,  \* how many rows of table sensor_service link id and reference
  solrAdded,      \* documents added to Solr and not yet committed
  solrIndex,      \* documents a Solr search finds
  (* The listener calls. *)
  pc,             \* what the thread of a request does next
  todo,           \* the infos it has not finished, the current one first
  cur,            \* sensor.getInternalSensorID() of the current info
  refs,           \* service references of the current info still to be added
  found,          \* getDatabaseSensorId() found a row
  absent,         \* the NOT EXISTS subquery of the running INSERT is true
  reply,          \* the response object being filled
  (* History, read by the properties only. *)
  issued,         \* identifiers generated so far
  removed,        \* identifiers whose row was deleted
  unindexed       \* identifiers whose insertion into Solr returned null

tables == <<sensor, service, sensorService>>
solr == <<solrAdded, solrIndex>>
locals == <<cur, refs, found, absent>>
history == <<issued, removed, unindexed>>
vars == <<tables, solr, pc, todo, locals, reply, history>>

InsertingSensor == {"solrAdd", "solrCommit", "insertSensor"}
AddingReference == {"lookup", "service", "serviceEnd", "link", "linkEnd"}
Working == InsertingSensor \union AddingReference
             \union {"next", "delete"}
Answering == {"response", "exception"}
Answered == {"exceptionReport", "emptyBody"}

\* SirInsertSensorInfoResponse and SirDeleteSensorInfoResponse: the service
\* references counted as inserted, the sensors reported as deleted.
Reply == [refs : SUBSET (SensorIds \X References), deleted : SUBSET SensorIds]
EmptyReply == [refs |-> {}, deleted |-> {}]

TypeOK ==
  /\ sensor \subseteq SensorIds
  /\ service \subseteq Services
  /\ sensorService \in [SensorIds \X References -> Nat]
  /\ solrAdded \subseteq SensorIds
  /\ solrIndex \subseteq SensorIds
  /\ pc \in [Requests -> {"idle", "lost"} \union Working \union Answering \union Answered]
  /\ todo \in [Requests -> Seq(Info)]
  /\ cur \in [Requests -> SensorIds \union {None}]
  /\ refs \in [Requests -> Seq(References)]
  /\ found \in [Requests -> BOOLEAN]
  /\ absent \in [Requests -> BOOLEAN]
  /\ reply \in [Requests -> Reply]
  /\ issued \subseteq SensorIds
  /\ removed \subseteq SensorIds
  /\ unindexed \subseteq SensorIds

Init ==
  /\ sensor = {}
  /\ service = {}
  /\ sensorService = [x \in SensorIds \X References |-> 0]
  /\ solrAdded = {}
  /\ solrIndex = {}
  /\ pc = [r \in Requests |-> "idle"]
  /\ todo = [r \in Requests |-> <<>>]
  /\ cur = [r \in Requests |-> None]
  /\ refs = [r \in Requests |-> <<>>]
  /\ found = [r \in Requests |-> FALSE]
  /\ absent = [r \in Requests |-> FALSE]
  /\ reply = [r \in Requests |-> EmptyReply]
  /\ issued = {}
  /\ removed = {}
  /\ unindexed = {}

-----------------------------------------------------------------------------
(* Control of a listener call. *)

Goto(r, label) == pc' = [pc EXCEPT ![r] = label]

\* The info is done: the for loop of receiveRequest() takes the next one.
NextInfo(r) ==
  /\ Goto(r, "next")
  /\ todo' = [todo EXCEPT ![r] = Tail(@)]

\* An exception leaves the loop and becomes the ExceptionResponse: an
\* OwsExceptionReport in the listener, a RuntimeException in SIR.doPost.
Throw(r) ==
  /\ Goto(r, "exception")
  /\ UNCHANGED todo

\* A connection that breaks after the statement committed.
Breaks(r) == Faults /\ Throw(r)

\* A client sends a request and its listener's receiveRequest() starts.
Receive(r) ==
  /\ pc[r] = "idle"
  /\ \E input \in Inputs : todo' = [todo EXCEPT ![r] = input]
  /\ Goto(r, "next")
  /\ UNCHANGED <<tables, solr, locals, reply, history>>

\* Mutant of Generate: an identifier in use is generated again.
GenerateUsed(r) ==
  \E id \in SensorIds :
    /\ issued' = issued \union {id}
    /\ cur' = [cur EXCEPT ![r] = id]
    /\ UNCHANGED <<removed, unindexed>>

\* identifierGenerator.generate(): ten random alphanumeric characters, taken
\* to differ from every identifier generated before.
Generate(r) ==
  \E id \in SensorIds \ issued :
    /\ issued' = issued \union {id}
    /\ cur' = [cur EXCEPT ![r] = id]
    /\ UNCHANGED <<removed, unindexed>>

\* A sensor whose document conforms to the profile goes to Solr first.
StartNewSensor(r) ==
  /\ Head(todo[r]).kind = "newSensor"
  /\ Generate(r)
  /\ Goto(r, "solrAdd")
  /\ UNCHANGED <<todo, refs>>

\* A sensor whose document does not conform is logged and skipped.
SkipInvalidSensor(r) ==
  /\ Head(todo[r]).kind = "invalidSensor"
  /\ Generate(r)
  /\ NextInfo(r)
  /\ UNCHANGED refs

\* References for a known identifier.  The decoder leaves the collection null when
\* there are none, and the NullPointerException becomes an ExceptionResponse.
StartReferences(r) ==
  /\ Head(todo[r]).kind = "newReferences"
  /\ cur' = [cur EXCEPT ![r] = Head(todo[r]).id]
  /\ refs' = [refs EXCEPT ![r] = Head(todo[r]).refs]
  /\ IF Head(todo[r]).refs = <<>> THEN Throw(r) ELSE Goto(r, "lookup") /\ UNCHANGED todo
  /\ UNCHANGED history

\* A service reference does not identify a sensor here: the query that
\* resolves it names a column that table sensor_service does not have.
StartDelete(r) ==
  /\ Head(todo[r]).kind = "deleteSensor"
  /\ cur' = [cur EXCEPT ![r] = Head(todo[r]).id]
  /\ IF Head(todo[r]).id = None THEN Throw(r) ELSE Goto(r, "delete") /\ UNCHANGED todo
  /\ UNCHANGED <<refs, history>>

\* deleteReference() compares the integer sensor_id_sir with the textual
\* identifier and returns a column that is not there: the first one raises.
DeleteReferences(r) ==
  /\ Head(todo[r]).kind = "deleteReferences"
  /\ IF Head(todo[r]).refs = <<>> THEN NextInfo(r) ELSE Throw(r)
  /\ UNCHANGED <<cur, refs, history>>

\* updateSensor() writes the time period as a new sensor's, which is refused,
\* and does not quote the identifier, which would be taken for a column.
UpdateSensor(r) ==
  /\ Head(todo[r]).kind = "updateSensor"
  /\ Throw(r)
  /\ UNCHANGED <<cur, refs, history>>

TakeInfo(r) ==
  /\ pc[r] = "next"
  /\ todo[r] # <<>>
  /\ \/ StartNewSensor(r)
     \/ SkipInvalidSensor(r)
     \/ StartReferences(r)
     \/ StartDelete(r)
     \/ DeleteReferences(r)
     \/ UpdateSensor(r)
  /\ UNCHANGED <<tables, solr, found, absent, reply>>

Respond(r) ==
  /\ pc[r] = "next"
  /\ todo[r] = <<>>
  /\ Goto(r, "response")
  /\ UNCHANGED <<tables, solr, todo, locals, reply, history>>

\* SIR.doResponse streams the answer.  Serialising a response document asks the
\* static SirConfigurator.getInstance(), which nothing ever sets, for a flag:
\* the NullPointerException is logged, the status is 200 and the body empty.
WriteAnswer(r) ==
  /\ pc[r] \in Answering
  /\ \/ pc[r] = "exception" /\ Goto(r, "exceptionReport")
     \/ (pc[r] = "response" \/ Faults) /\ Goto(r, "emptyBody")
  /\ UNCHANGED <<tables, solr, todo, locals, reply, history>>

-----------------------------------------------------------------------------
(***************************************************************************)
(* SOLRInsertSensorInfoDAO.insertSensor: add, then commit.  A call that    *)
(* raises SolrServerException or IOException may still have taken effect;  *)
(* the DAO returns null, which the listener logs before it goes on.  A     *)
(* document Solr rejects raises a SolrException, a RuntimeException that   *)
(* only SIR.doPost catches, where it becomes an ExceptionResponse.         *)
(***************************************************************************)
SolrReturnsNull(r) ==
  /\ Faults
  /\ Goto(r, "insertSensor")
  /\ unindexed' = unindexed \union {cur[r]}

SolrRejects(r) ==
  /\ Faults
  /\ Goto(r, "exception")
  /\ UNCHANGED <<solr, unindexed>>

SolrAdd(r) ==
  /\ pc[r] = "solrAdd"
  /\ \/ /\ solrAdded' = solrAdded \union {cur[r]}
        /\ Goto(r, "solrCommit")
        /\ UNCHANGED <<solrIndex, unindexed>>
     \/ /\ solrAdded' \in {solrAdded, solrAdded \union {cur[r]}}
        /\ SolrReturnsNull(r)
        /\ UNCHANGED solrIndex
     \/ SolrRejects(r)
  /\ UNCHANGED <<tables, todo, locals, reply, issued, removed>>

\* Mutant of PublishAdded: the DAO adds the document and never commits.
PublishNothing == UNCHANGED solr

\* A commit publishes every document added so far, by whichever request.
PublishAdded ==
  /\ solrIndex' = solrIndex \union solrAdded
  /\ solrAdded' = {}

SolrCommit(r) ==
  /\ pc[r] = "solrCommit"
  /\ \/ /\ PublishAdded
        /\ Goto(r, "insertSensor")
        /\ UNCHANGED unindexed
     \/ /\ PublishAdded \/ UNCHANGED solr
        /\ SolrReturnsNull(r)
     \/ SolrRejects(r)
  /\ UNCHANGED <<tables, todo, locals, reply, issued, removed>>

-----------------------------------------------------------------------------
(***************************************************************************)
(* PGSQLInsertSensorInfoDAO.                                               *)
(***************************************************************************)

\* No connection within maxWait, or the server refuses the statement.
StatementFails(r) ==
  /\ Faults
  /\ pc[r] \in AddingReference \union {"delete"}
  /\ Throw(r)
  /\ UNCHANGED <<tables, solr, locals, reply, history>>

\* insertSensor(): the text of the statement holds IndeterminateTime.toString()
\* where the column is a timestamptz: PostgreSQL refuses it for every sensor.
InsertSensor(r) ==
  /\ pc[r] = "insertSensor"
  /\ Throw(r)
  /\ UNCHANGED <<tables, solr, locals, reply, history>>

\* addNewReference: getDatabaseSensorId() on a connection of its own.
LookupSensor(r) ==
  /\ pc[r] = "lookup"
  /\ found' = [found EXCEPT ![r] = cur[r] \in sensor]
  /\ Goto(r, "service")
  /\ UNCHANGED <<tables, solr, todo, cur, refs, absent, reply, history>>

ServiceOf(r) == Head(refs[r])[1]
Link(r) == <<cur[r], Head(refs[r])>>

\* addServiceCommand: the subquery finds no row for the service.
BeginInsertService(r) ==
  /\ pc[r] = "service"
  /\ absent' = [absent EXCEPT ![r] = ServiceOf(r) \notin service]
  /\ Goto(r, "serviceEnd")
  /\ UNCHANGED <<tables, solr, todo, cur, refs, found, reply, history>>

\* The row goes in unless another request's row came first (uc_service).
EndInsertService(r) ==
  /\ pc[r] = "serviceEnd"
  /\ \/ /\ absent[r] => ServiceOf(r) \notin service
        /\ service' = IF absent[r] THEN service \union {ServiceOf(r)} ELSE service
        /\ \/ Goto(r, "link") /\ UNCHANGED todo
           \/ Breaks(r)
     \/ /\ absent[r] /\ ServiceOf(r) \in service
        /\ Throw(r)
        /\ UNCHANGED service
  /\ UNCHANGED <<sensor, sensorService, solr, locals, reply, history>>

\* Mutant of BeginInsertLink: the subquery looks for any link of the sensor.
BeginInsertFirstLink(r) ==
  /\ pc[r] = "link"
  /\ found[r]
  /\ absent' = [absent EXCEPT ![r] = \A ref \in References : sensorService[cur[r], ref] = 0]
  /\ Goto(r, "linkEnd")
  /\ UNCHANGED <<tables, solr, todo, cur, refs, found, reply, history>>

\* addReferenceCommand: a sensor that was not found is the text 'null', which
\* is no integer; otherwise the subquery looks for the link.
BeginInsertLink(r) ==
  /\ pc[r] = "link"
  /\ \/ /\ found[r]
        /\ absent' = [absent EXCEPT ![r] = sensorService[Link(r)] = 0]
        /\ Goto(r, "linkEnd")
        /\ UNCHANGED todo
     \/ /\ ~found[r]
        /\ Throw(r)
        /\ UNCHANGED absent
  /\ UNCHANGED <<tables, solr, cur, refs, found, reply, history>>

\* Take the next service reference of the info, or the next info.
NextReference(r) ==
  IF refs'[r] = <<>> THEN NextInfo(r) ELSE Goto(r, "lookup") /\ UNCHANGED todo

\* Mutant of ReferenceInserted: the loop does not move on.
RepeatReference(r) ==
  /\ reply' = [reply EXCEPT ![r].refs = @ \union {Link(r)}]
  /\ UNCHANGED refs
  /\ NextReference(r)

\* The response counts the reference whether or not a row went in.
ReferenceInserted(r) ==
  /\ reply' = [reply EXCEPT ![r].refs = @ \union {Link(r)}]
  /\ refs' = [refs EXCEPT ![r] = Tail(@)]
  /\ NextReference(r)

\* Mutant of EndInsertLink: sensor_service without the foreign key.
InsertLinkUnchecked(r) ==
  /\ pc[r] = "linkEnd"
  /\ sensorService' = IF absent[r] THEN [sensorService EXCEPT ![Link(r)] = @ + 1]
                                   ELSE sensorService
  /\ ReferenceInserted(r)
  /\ UNCHANGED <<sensor, service, solr, cur, found, absent, history>>

\* The foreign key refuses the row of a sensor that was deleted meanwhile;
\* no constraint refuses a link that another request inserted meanwhile.
EndInsertLink(r) ==
  /\ pc[r] = "linkEnd"
  /\ \/ /\ absent[r] => cur[r] \in sensor
        /\ sensorService' = IF absent[r] THEN [sensorService EXCEPT ![Link(r)] = @ + 1]
                                         ELSE sensorService
        /\ \/ ReferenceInserted(r)
           \/ Breaks(r) /\ UNCHANGED <<refs, reply>>
     \/ /\ absent[r] /\ cur[r] \notin sensor
        /\ Throw(r)
        /\ UNCHANGED <<sensorService, refs, reply>>
  /\ UNCHANGED <<sensor, service, solr, cur, found, absent, history>>

\* Mutant of DeleteSensor: sensor_service without ON DELETE CASCADE.
DeleteWithoutCascade(r) ==
  /\ pc[r] = "delete"
  /\ sensor' = sensor \ {cur[r]}
  /\ removed' = removed \union ({cur[r]} \intersect sensor)
  /\ reply' = [reply EXCEPT ![r].deleted = @ \union ({cur[r]} \intersect sensor)]
  /\ NextInfo(r)
  /\ UNCHANGED <<service, sensorService, solr, locals, issued, unindexed>>

\* Mutant of DeleteSensor: a sensor without a row is reported as deleted too.
ReportAlwaysDeleted(r) ==
  /\ pc[r] = "delete"
  /\ sensor' = sensor \ {cur[r]}
  /\ sensorService' = [x \in DOMAIN sensorService |->
                         IF x[1] = cur[r] THEN 0 ELSE sensorService[x]]
  /\ removed' = removed \union ({cur[r]} \intersect sensor)
  /\ reply' = [reply EXCEPT ![r].deleted = @ \union {cur[r]}]
  /\ NextInfo(r)
  /\ UNCHANGED <<service, solr, locals, issued, unindexed>>

\* deleteSensor: ON DELETE CASCADE takes the links along; Solr is not told.
\* A sensor that has no row is passed over in silence.
DeleteSensor(r) ==
  /\ pc[r] = "delete"
  /\ sensor' = sensor \ {cur[r]}
  /\ sensorService' = [x \in DOMAIN sensorService |->
                         IF x[1] = cur[r] THEN 0 ELSE sensorService[x]]
  /\ removed' = removed \union ({cur[r]} \intersect sensor)
  /\ \/ /\ reply' = [reply EXCEPT ![r].deleted = @ \union ({cur[r]} \intersect sensor)]
        /\ NextInfo(r)
     \/ /\ Breaks(r)
        /\ UNCHANGED reply
  /\ UNCHANGED <<service, solr, locals, issued, unindexed>>

-----------------------------------------------------------------------------
(***************************************************************************)
(* Harvests, on other threads of the same service: what of HarvestService  *)
(* these listeners can see.                                                *)
(***************************************************************************)

\* addService(): a service without a row gets one.
HarvestService(s) ==
  /\ service' = service \union {s}
  /\ UNCHANGED <<sensor, sensorService, solr, pc, todo, locals, reply, history>>

\* insertSensor(): a sensor gets a row under a generated identifier.  The link
\* to its service never goes in, and nothing goes to Solr.
HarvestSensor(id) ==
  /\ id \notin issued
  /\ issued' = issued \union {id}
  /\ sensor' = sensor \union {id}
  /\ UNCHANGED <<service, sensorService, solr, pc, todo, locals, reply, removed, unindexed>>

-----------------------------------------------------------------------------
\* The servlet container dies; the two stores do not.
Crash ==
  /\ Faults
  /\ \E r \in Requests : pc[r] \in Working \union Answering
  /\ pc' = [r \in Requests |->
              IF pc[r] \in Working \union Answering THEN "lost" ELSE pc[r]]
  /\ UNCHANGED <<tables, solr, todo, locals, reply, history>>

\* Every request of this behaviour is over.
Terminated ==
  /\ \A r \in Requests : pc[r] \in Answered \union {"lost"}
  /\ UNCHANGED vars

Step(r) ==
  \/ TakeInfo(r) \/ Respond(r)
  \/ SolrAdd(r) \/ SolrCommit(r)
  \/ InsertSensor(r)
  \/ LookupSensor(r)
  \/ BeginInsertService(r) \/ EndInsertService(r)
  \/ BeginInsertLink(r) \/ EndInsertLink(r)
  \/ DeleteSensor(r)
  \/ StatementFails(r)
  \/ WriteAnswer(r)

Next ==
  \/ \E r \in Requests : Receive(r) \/ Step(r)
  \/ \E s \in Services : HarvestService(s)
  \/ \E id \in Harvested : HarvestSensor(id)
  \/ Crash
  \/ Terminated

\* A servlet thread is scheduled again and every statement it waits for ends.
Fairness == \A r \in Requests : WF_vars(Step(r))

Spec == Init /\ [][Next]_vars
FairSpec == Spec /\ Fairness

-----------------------------------------------------------------------------
(* Properties *)

\* A row of sensor_service always belongs to a sensor that has a row: a link
\* being inserted with an identifier looked up before, and the deletion of the
\* sensor, never leave a link to nothing behind.
LinksPointToSensors ==
  \A x \in SensorIds \X References : sensorService[x] > 0 => x[1] \in sensor

\* A sensor that DeleteSensorInfo reports as deleted had a row and is gone for
\* good, whatever is harvested, referred to and deleted in between.
ReportedDeletionsLast ==
  \A r \in Requests : reply[r].deleted \subseteq removed \ sensor

\* A service reference the response counts is linked to the sensor, by this
\* request's row or by the row another request had inserted, until the sensor
\* itself is deleted.
ReportedReferencesStored ==
  \A r \in Requests : \A x \in reply[r].refs :
    sensorService[x] > 0 \/ x[1] \in removed

\* Solr comes first: when the listener turns to the database, a Solr search
\* finds the document unless the DAO had returned null for it, no matter which
\* request's commit published it.
IndexedBeforeOffered ==
  \A r \in Requests : pc[r] = "insertSensor" => cur[r] \in solrIndex \union unindexed

\* The invariants above as one inductive invariant.  An identifier is
\* generated once: it means one sensor in both stores and in the one request
\* that is inserting it.  And a request remembers, in pc, cur and absent, only
\* what the stores still know or what was deleted since.
GeneratedOnce ==
  /\ sensor \union removed \union solrAdded \union solrIndex \subseteq issued
  /\ sensor \intersect removed = {}
  /\ (solrAdded \union solrIndex) \intersect (sensor \union removed) = {}
  /\ \A r \in Requests : pc[r] \in InsertingSensor =>
       /\ cur[r] \in issued
       /\ cur[r] \notin sensor \union removed
       /\ \A q \in Requests \ {r} : pc[q] \in InsertingSensor => cur[q] # cur[r]

RemembersWell(r) ==
  /\ pc[r] \in Working \ {"next"} => todo[r] # <<>> /\ cur[r] \in SensorIds
  /\ pc[r] \in AddingReference => refs[r] # <<>>
  /\ pc[r] = "solrCommit" => cur[r] \in solrAdded \union solrIndex
  /\ pc[r] \in AddingReference \ {"lookup"} /\ found[r] => cur[r] \in sensor \union removed
  /\ pc[r] = "linkEnd" /\ ~absent[r] => sensorService[Link(r)] > 0 \/ cur[r] \in removed

Inductive ==
  /\ TypeOK
  /\ GeneratedOnce
  /\ \A r \in Requests : RemembersWell(r)
  /\ LinksPointToSensors
  /\ ReportedDeletionsLast
  /\ ReportedReferencesStored
  /\ IndexedBeforeOffered

\* Every request that was received is answered, or lost in a crash.
EveryRequestAnswered ==
  \A r \in Requests : pc[r] \in Working ~> pc[r] \in Answered \union {"lost"}

\* To its clients the database is a catalogue in which registering, linking
\* and removing a sensor are single steps.
Catalogue == INSTANCE SensorCatalogue WITH
  registered <- sensor,
  retired <- removed,
  linked <- {x \in SensorIds \X References : sensorService[x] > 0}

RefinesCatalogue == Catalogue!Spec

-----------------------------------------------------------------------------
(* What the repository's texts and tests say and the code does not do. *)

\* "one sensor was inserted" (InsertSensorInfoNewSensorIT): a conforming sensor
\* description is answered with a response.
NewSensorIsInserted ==
  \A r \in Requests :
    ~(pc[r] = "exception" /\ Head(todo[r]).kind = "newSensor")

=============================================================================
