--------------------------- MODULE CatalogHarvest ---------------------------
(***************************************************************************)
(* Harvesting an IOOS catalogue: an XML file with a list of platforms,     *)
(* parsed event by event (FileHarvester.call, IOOSHarvester).  At the end  *)
(* of each platform its SensorML is fetched, a conforming document is      *)
(* built of it and of what the catalogue says, and stored.  Listener and   *)
(* thread pool are those of HarvestService: the one IOOS harvester holds   *)
(* one request and one set of collections for all of its tasks.            *)
(*                                                                         *)
(* Unlike there, collections are looked up in the harvester each time      *)
(* something failed, anything unexpected in a platform ends the harvest,   *)
(* and nothing limits the time for opening the catalogue or fetching a     *)
(* description.  A platform's document is known by the platform and the    *)
(* end of its valid time: bounding box, period and text stand for it in    *)
(* the database.  A new row's first further statement raises, as in        *)
(* HarvestService.                                                         *)
(***************************************************************************)
EXTENDS Naturals, Sequences, FiniteSets

CONSTANTS
  Requests,   \* HarvestService requests for IOOS catalogues
  Urls,       \* URLs of catalogues
  Platforms,
  Catalogs,   \* the platforms listed at a URL
  Live,       \* platforms that still observe: msse_end_time is 0
  PoolSize,   \* THREAD_POOL_SIZE
  MaxDay,     \* bound on the days that pass
  Ended,      \* the end of the period of a platform that is not live
  NoRequest   \* what the harvester holds before its first request

ASSUME CatalogsAssumption == Catalogs \in [Urls -> Seq(Platforms)] /\ Live \subseteq Platforms
ASSUME PoolAssumption == PoolSize \in Nat \ {0} /\ MaxDay \in Nat /\ Ended \notin 0 .. MaxDay
ASSUME RequestsAssumption == IsFiniteSet(Requests) /\ NoRequest \notin Requests

VARIABLES
  day,
  (* The harvester and the thread pool. *)
  request,    \* the field request
  current,    \* the collections it holds
  collected,  \* the contents of all collections
  queue,      \* submitted tasks no pool thread has taken
  (* One servlet thread and its task per request. *)
  pc,
  url,        \* URL in the request
  source,     \* URL of the catalogue that the task reads
  asOf,       \* day of that catalogue
  todo,       \* platforms it has not processed, the one at work first
  into,       \* the collection of inserted sensors for the one at work
  absent,     \* the NOT EXISTS subquery of its running INSERT is true
  response,
  written,    \* the collections as the response was serialised
  (* The database. *)
  services,   \* platforms whose service has a row
  rows,       \* rows of table sensor
  (* History. *)
  overlapped  \* requests that did not have the harvester for themselves

harvester == <<request, current, collected>>
task == <<source, asOf, todo, into, absent>>
db == <<services, rows>>
vars == <<day, harvester, queue, pc, url, task, response, written, db, overlapped>>

Running == {"name", "open", "platform", "service", "insert", "insertEnd", "reset", "silent"}
Over == {"done", "answered", "emptyBody"}

Days == 0 .. MaxDay
Ends == Days \union {Ended}
Row == [by : Requests, platform : Platforms, end : Ends]
Collections == [inserted : SUBSET (Requests \X Platforms \X Ends), failed : SUBSET Platforms]
Empty == [inserted |-> {}, failed |-> {}]
CollectionIds == 0 .. Cardinality(Requests)
Response == [exception : BOOLEAN, serviceUrl : Urls \union {NoRequest},
             collections : CollectionIds, inserted : Nat, failed : Nat]

TypeOK ==
  /\ day \in Days
  /\ request \in Requests \union {NoRequest}
  /\ current \in CollectionIds
  /\ collected \in [CollectionIds -> Collections]
  /\ queue \in Seq(Requests)
  /\ pc \in [Requests -> {"idle", "submit", "queued"} \union Running \union Over]
  /\ url \in [Requests -> Urls \union {NoRequest}]
  /\ source \in [Requests -> Urls \union {NoRequest}]
  /\ asOf \in [Requests -> Days]
  /\ todo \in [Requests -> Seq(Platforms)]
  /\ into \in [Requests -> CollectionIds]
  /\ absent \in [Requests -> BOOLEAN]
  /\ response \in [Requests -> Response]
  /\ written \in [Requests -> Collections]
  /\ services \subseteq Platforms
  /\ rows \subseteq Row
  /\ overlapped \subseteq Requests

Init ==
  /\ day = 0
  /\ request = NoRequest
  /\ current = 0
  /\ collected = [c \in CollectionIds |-> Empty]
  /\ queue = <<>>
  /\ pc = [r \in Requests |-> "idle"]
  /\ url = [r \in Requests |-> NoRequest]
  /\ source = [r \in Requests |-> NoRequest]
  /\ asOf = [r \in Requests |-> 0]
  /\ todo = [r \in Requests |-> <<>>]
  /\ into = [r \in Requests |-> 0]
  /\ absent = [r \in Requests |-> FALSE]
  /\ response = [r \in Requests |-> [exception |-> FALSE, serviceUrl |-> NoRequest,
                                     collections |-> 0, inserted |-> 0, failed |-> 0]]
  /\ written = [r \in Requests |-> Empty]
  /\ services = {}
  /\ rows = {}
  /\ overlapped = {}

-----------------------------------------------------------------------------
(* The world outside *)

\* A day passes: live platforms have observed anew when the catalogue is read next.
NextDay ==
  /\ day < MaxDay
  /\ day' = day + 1
  /\ UNCHANGED <<harvester, queue, pc, url, task, response, written, db, overlapped>>

-----------------------------------------------------------------------------
(* HarvestServiceListener.harvestIOOSCatalog *)

Goto(r, label) == pc' = [pc EXCEPT ![r] = label]

\* The harvester is put to use between setRequest() and the end of reset().
InUse(r) == pc[r] \in {"submit", "queued"} \union Running
Rivals(r) == {q \in Requests \ {r} : InUse(q)}

\* Tasks that may add to a collection at any moment.
StillFilling == {q \in Requests : pc[q] \in {"platform", "service", "insert", "insertEnd"}}

SetRequest(r) ==
  /\ pc[r] = "idle"
  /\ \E u \in Urls : url' = [url EXCEPT ![r] = u]
  /\ request' = r
  /\ overlapped' = IF Rivals(r) = {} THEN overlapped ELSE overlapped \union Rivals(r) \union {r}
  /\ Goto(r, "submit")
  /\ UNCHANGED <<day, current, collected, queue, task, response, written, db>>

Submit(r) ==
  /\ pc[r] = "submit"
  /\ queue' = Append(queue, r)
  /\ Goto(r, "queued")
  /\ UNCHANGED <<day, harvester, url, task, response, written, db, overlapped>>

\* Mutant of StartTask: a task that failed keeps its thread.
StartOnSurvivor(r) ==
  /\ queue # <<>> /\ Head(queue) = r
  /\ Cardinality({q \in Requests :
                    \/ pc[q] \in Running
                    \/ pc[q] \in Over /\ response[q].exception}) < PoolSize
  /\ queue' = Tail(queue)
  /\ Goto(r, "name")
  /\ UNCHANGED <<day, harvester, url, task, response, written, db, overlapped>>

\* A thread of the fixed pool takes the task submitted first.
StartTask(r) ==
  /\ queue # <<>> /\ Head(queue) = r
  /\ Cardinality({q \in Requests : pc[q] \in Running}) < PoolSize
  /\ queue' = Tail(queue)
  /\ Goto(r, "name")
  /\ UNCHANGED <<day, harvester, url, task, response, written, db, overlapped>>

\* future.get() returned; the response, which refers to the collections, is
\* serialised.  A task that adds to them meanwhile breaks the iteration.
Answer(r) ==
  /\ pc[r] = "done"
  /\ \/ /\ written' = [written EXCEPT ![r] = IF response[r].exception THEN Empty
                                          ELSE collected[response[r].collections]]
        /\ Goto(r, "answered")
     \/ /\ ~response[r].exception /\ StillFilling # {}
        /\ Goto(r, "emptyBody")
        /\ UNCHANGED written
  /\ UNCHANGED <<day, harvester, queue, url, task, response, db, overlapped>>

-----------------------------------------------------------------------------
(* FileHarvester.call *)

\* this.request.getServiceUrl(), whichever request that is by now.
RequestedUrl == url[request]

Throw(r) ==
  /\ response' = [response EXCEPT ![r].exception = TRUE]
  /\ Goto(r, "reset")

NameService(r) ==
  /\ pc[r] = "name"
  /\ response' = [response EXCEPT ![r].serviceUrl = RequestedUrl]
  /\ Goto(r, "open")
  /\ UNCHANGED <<day, harvester, queue, url, task, written, db, overlapped>>

\* fileURL.openStream(); a server that accepts and says nothing keeps the thread.
OpenCatalog(r) ==
  /\ pc[r] = "open"
  /\ source' = [source EXCEPT ![r] = RequestedUrl]
  /\ asOf' = [asOf EXCEPT ![r] = day]
  /\ \/ /\ todo' = [todo EXCEPT ![r] = Catalogs[RequestedUrl]]
        /\ Goto(r, "platform")
        /\ UNCHANGED response
     \/ Throw(r) /\ UNCHANGED todo
     \/ Goto(r, "silent") /\ UNCHANGED <<todo, response>>
  /\ UNCHANGED <<day, harvester, queue, url, into, absent, written, db, overlapped>>

\* The end of the document: the response gets the collections the harvester
\* holds now; the loop over the failed sensors breaks when another task adds.
FillResponse(r) ==
  /\ pc[r] = "platform"
  /\ todo[r] = <<>>
  /\ \/ /\ response' = [response EXCEPT ![r] =
                          [@ EXCEPT !.collections = current,
                                    !.inserted = Cardinality(collected[current].inserted),
                                    !.failed = Cardinality(collected[current].failed)]]
        /\ Goto(r, "reset")
     \/ StillFilling \ {r} # {} /\ Throw(r)
  /\ UNCHANGED <<day, harvester, queue, url, task, written, db, overlapped>>

\* Mutant of Reset: what an exception left is not thrown away.
ResetUnlessFailed(r) ==
  /\ pc[r] = "reset"
  /\ current' = IF response[r].exception THEN current ELSE current + 1
  /\ Goto(r, "done")
  /\ UNCHANGED <<day, request, collected, queue, url, task, response, written, db, overlapped>>

\* Mutant of Reset: call() resets at the end of its try statement as well.
ResetTwice(r) ==
  /\ pc[r] = "reset"
  /\ current' = current + (IF response[r].exception THEN 1 ELSE 2)
  /\ Goto(r, "done")
  /\ UNCHANGED <<day, request, collected, queue, url, task, response, written, db, overlapped>>

\* reset() after the try statement.
Reset(r) ==
  /\ pc[r] = "reset"
  /\ current' = current + 1
  /\ Goto(r, "done")
  /\ UNCHANGED <<day, request, collected, queue, url, task, response, written, db, overlapped>>

-----------------------------------------------------------------------------
(* IOOSCatalogHandler *)

Platform(r) == Head(todo[r])

\* The document of the platform, built with endTime or else latestTime.
End(r) == IF Platform(r) \in Live THEN asOf[r] ELSE Ended

NextPlatform(r) == todo' = [todo EXCEPT ![r] = Tail(@)] /\ Goto(r, "platform")

\* HashMap and ArrayList are not synchronised: what is added while another
\* task adds may be lost.
Collect(r, c, contents) ==
  \/ collected' = [collected EXCEPT ![c] = contents]
  \/ Rivals(r) # {} /\ UNCHANGED collected

\* IOOSHarvester.this.failedSensors.put()
Fail(r) ==
  Collect(r, current, [collected[current] EXCEPT !.failed = @ \union {Platform(r)}])

\* endElement() fetches the description: it comes; it is missing or malformed;
\* it never comes; or the catalogue or the description is not as expected
\* (numbers, a URL without "procedure=", no identification, malformed XML).
EndPlatform(r) ==
  /\ pc[r] = "platform"
  /\ todo[r] # <<>>
  /\ \/ Goto(r, "service") /\ UNCHANGED <<todo, collected, response>>
     \/ Fail(r) /\ NextPlatform(r) /\ UNCHANGED response
     \/ Goto(r, "silent") /\ UNCHANGED <<todo, collected, response>>
     \/ Throw(r) /\ UNCHANGED <<todo, collected>>
  /\ UNCHANGED <<day, request, current, queue, url, source, asOf, into, absent, written, db,
                 overlapped>>

\* A service that cannot be added is a failure of the sensor, which is then
\* processed nevertheless.
AddService(r) ==
  /\ pc[r] = "service"
  /\ \/ services' = services \union {Platform(r)} /\ UNCHANGED collected
     \/ Fail(r) /\ UNCHANGED services
  /\ into' = [into EXCEPT ![r] = current]
  /\ Goto(r, "insert")
  /\ UNCHANGED <<day, request, current, queue, url, source, asOf, todo, absent, response,
                 written, rows, overlapped>>

\* Mutant of Known: the subquery compares the identifier, which is always new.
KnownByIdentifier(r) == {x \in rows : x.by = r /\ x.platform = Platform(r)}

\* Rows the subquery takes for the sensor.
Known(r) == {x \in rows : x.platform = Platform(r) /\ x.end = End(r)}

\* processSensorMLDocument() up to the subquery of INSERT ... WHERE NOT EXISTS;
\* the document does not conform, or no connection; or the decoder breaks.
BeginInsertSensor(r) ==
  /\ pc[r] = "insert"
  /\ \/ /\ absent' = [absent EXCEPT ![r] = Known(r) = {}]
        /\ Goto(r, "insertEnd")
        /\ UNCHANGED <<todo, collected, response>>
     \/ Fail(r) /\ NextPlatform(r) /\ UNCHANGED <<absent, response>>
     \/ Throw(r) /\ UNCHANGED <<todo, collected, absent>>
  /\ UNCHANGED <<day, request, current, queue, url, source, asOf, into, written, db, overlapped>>

\* A new row stays although the next statement raises and the sensor counts as
\* failed; without a new row the sensor counts as inserted.
EndInsertSensor(r) ==
  /\ pc[r] = "insertEnd"
  /\ LET c == into[r]
         inserted == <<r, Platform(r), End(r)>>
     IN \/ /\ absent[r]
           /\ rows' = rows \union {[by |-> r, platform |-> Platform(r), end |-> End(r)]}
           /\ Fail(r)
        \/ /\ ~absent[r]
           /\ Collect(r, c, [collected[c] EXCEPT !.inserted = @ \union {inserted}])
           /\ UNCHANGED rows
  /\ NextPlatform(r)
  /\ UNCHANGED <<day, request, current, queue, url, source, asOf, into, absent, response,
                 written, services, overlapped>>

-----------------------------------------------------------------------------
\* Every request of this behaviour is over, or waits for a silent server, or
\* for a thread that does.
Stuck == Cardinality({q \in Requests : pc[q] = "silent"}) = PoolSize

Terminated ==
  /\ \A r \in Requests : \/ pc[r] \in {"answered", "emptyBody", "silent"}
                         \/ pc[r] = "queued" /\ Stuck
  /\ UNCHANGED vars

Step(r) ==
  \/ Submit(r) \/ StartTask(r) \/ Answer(r)
  \/ NameService(r) \/ OpenCatalog(r) \/ FillResponse(r) \/ Reset(r)
  \/ EndPlatform(r) \/ AddService(r) \/ BeginInsertSensor(r) \/ EndInsertSensor(r)

Next ==
  \/ \E r \in Requests : SetRequest(r) \/ Step(r)
  \/ NextDay
  \/ Terminated

\* Servlet and pool threads run on; only what is silent never ends.
Fairness == \A r \in Requests : WF_vars(Step(r))

Spec == Init /\ [][Next]_vars
FairSpec == Spec /\ Fairness

-----------------------------------------------------------------------------
(* Properties *)

Responded(r) == pc[r] = "answered" /\ ~response[r].exception
Listed(r) == {Catalogs[url[r]][i] : i \in DOMAIN Catalogs[url[r]]}

\* A request that has the harvester for itself is answered about each platform
\* of its catalogue and no other, whatever harvests broke off before it.
AloneAccountsForAll ==
  \A r \in Requests : Responded(r) /\ r \notin overlapped =>
    /\ response[r].serviceUrl = url[r]
    /\ written[r].failed \union {x[2] : x \in written[r].inserted} = Listed(r)
    /\ \A x \in written[r].inserted : x[1] = r
    /\ response[r].inserted = Cardinality(written[r].inserted)
    /\ response[r].failed = Cardinality(written[r].failed)

\* Harvesting again and again, one harvest at a time, adds at most one row a
\* day for a live platform, and none for one that has ended; a harvest that
\* broke off after some rows is no exception.
OneRowADay ==
  \A x \in rows : x.by \notin overlapped =>
    \A y \in rows : y.platform = x.platform /\ y.end = x.end => y = x

\* A harvest ends, unless its own server is silent or all pool threads wait
\* for silent servers.
EndsUnlessSilent ==
  \A r \in Requests :
    pc[r] = "submit" ~> (pc[r] \in {"answered", "emptyBody", "silent"} \/ Stuck)

-----------------------------------------------------------------------------
(* The inductive invariant behind the safety properties *)

\* Places at a platform, of which the last two hold on to the collection of
\* inserted sensors, and in the list of platforms.
Inserting == {"insert", "insertEnd"}
AtPlatform == {"service"} \union Inserting
Looping == {"platform"} \union AtPlatform

Elements(s) == {s[i] : i \in DOMAIN s}

\* A task is in the queue once, and only while its request waits for it.
QueueOfWaiting ==
  /\ \A i \in 1 .. Len(queue) : pc[queue[i]] = "queued"
  /\ \A i, j \in 1 .. Len(queue) : queue[i] = queue[j] => i = j

RequestsOver == {r \in Requests : pc[r] \in Over}

\* Collections are numbered by the harvests that are over, and none is referred
\* to before reset() has made it.
CollectionsNumbered ==
  /\ current <= Cardinality(RequestsOver)
  /\ \A r \in Requests : into[r] <= current /\ response[r].collections <= current
  /\ \A c \in CollectionIds :
       IsFiniteSet(collected[c].inserted) /\ IsFiniteSet(collected[c].failed)

\* What the place of a request says of its URL and its list.
Placed ==
  /\ request # NoRequest => pc[request] # "idle"
  /\ \A r \in Requests :
       /\ pc[r] # "idle" => url[r] \in Urls /\ request # NoRequest
       /\ pc[r] \in AtPlatform => todo[r] # <<>>

\* Of two requests that use the harvester at the same time both are known to
\* overlap; the other ones find their own request in it.
OverlapsKnown ==
  /\ \A r, q \in Requests : r # q /\ InUse(r) /\ InUse(q) => r \in overlapped
  /\ \A r \in Requests \ overlapped : InUse(r) => request = r

\* What is in the collections at hand was put there by a task that will reset
\* them, or that a silent server holds; those to come are empty.
CollectionsClean ==
  /\ \A c \in CollectionIds : c > current => collected[c] = Empty
  /\ collected[current] # Empty =>
       \E q \in Requests : pc[q] \in Looping \union {"reset", "silent"}

\* The collections c hold the harvest of r, which with the platforms left is all.
Accounts(r, c, left) ==
  /\ \A x \in collected[c].inserted : x[1] = r
  /\ collected[c].failed \union {x[2] : x \in collected[c].inserted} \union Elements(left)
       = Listed(r)

\* How far a request that has the harvester for itself has come.
HarvestAt(r) ==
  /\ pc[r] \in {"open"} \union Looping => response[r].serviceUrl = url[r]
  /\ pc[r] \in Looping => Accounts(r, current, todo[r])
  /\ pc[r] \in Inserting => into[r] = current

OwnHarvest == \A r \in Requests \ overlapped : HarvestAt(r)

\* The response of such a request agrees with the collections it refers to, which
\* no other harvest touches.
Reports(r, c) ==
  /\ response[r].serviceUrl = url[r]
  /\ Accounts(r, c, <<>>)
  /\ response[r].inserted = Cardinality(collected[c].inserted)
  /\ response[r].failed = Cardinality(collected[c].failed)

StillInserting(c) == {q \in Requests : pc[q] \in Inserting /\ into[q] = c}

ReportAt(r) ==
  /\ pc[r] \in {"reset"} \union Over => Reports(r, response[r].collections)
  /\ pc[r] \in Over =>
       /\ response[r].collections < current
       /\ StillInserting(response[r].collections) = {}
  /\ pc[r] = "answered" => written[r] = collected[response[r].collections]

OwnReport == \A r \in Requests \ overlapped : ~response[r].exception => ReportAt(r)

\* A row that is there although the subquery did not see it is of a harvest
\* that overlapped.
AbsentUnlessOverlapped ==
  /\ \A x \in rows : pc[x.by] # "idle"
  /\ \A q \in Requests : pc[q] = "insertEnd" /\ absent[q] =>
       \A x \in Known(q) : {q, x.by} \subseteq overlapped

Inductive ==
  /\ TypeOK
  /\ QueueOfWaiting
  /\ CollectionsNumbered
  /\ Placed
  /\ OverlapsKnown
  /\ CollectionsClean
  /\ OwnHarvest
  /\ OwnReport
  /\ AbsentUnlessOverlapped
  /\ OneRowADay

=============================================================================
