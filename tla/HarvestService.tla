--------------------------- MODULE HarvestService ---------------------------
(***************************************************************************)
(* The HarvestService operation.  The listener keeps one harvester per     *)
(* service type for all requests: a servlet thread puts its request into   *)
(* the harvester, submits the harvester to a fixed thread pool and waits   *)
(* for the result, while the harvester, run by as many pool threads as     *)
(* there are requests, reads the request it holds and fills the            *)
(* collections it holds.                                                   *)
(*                                                                         *)
(* The SPS harvester never gets a client, so that each of its runs ends in *)
(* a NullPointerException; it only takes a pool thread for a moment.  The  *)
(* three collections that reset() replaces together (inserted, updated and *)
(* failed sensors) are one object here, known by its number; the updated   *)
(* ones are left out, nothing is ever added to them: the DAO returns the   *)
(* sensor with its identifier also when it inserted nothing.               *)
(*                                                                         *)
(* Statements of the DAO commit one by one (autocommit).  A sensor's row   *)
(* is followed by its phenomena and its link to the service; each of these *)
(* raises an SQLException (the phenomenon's number is read from the outer  *)
(* ResultSet, which the same Statement has closed; the link's subquery     *)
(* names a column that sensor_service does not have), after which the row  *)
(* stays.                                                                  *)
(***************************************************************************)
EXTENDS Naturals, Sequences, FiniteSets

CONSTANTS
  Requests,    \* HarvestService requests, each with a servlet thread
  Urls,        \* service URLs that clients name
  Procedures,  \* service specific sensor identifiers
  Offers,      \* the procedures in the capabilities of the service at a URL
  PoolSize,    \* THREAD_POOL_SIZE
  NoRequest    \* what a harvester holds before its first request

ASSUME OffersAssumption == Offers \in [Urls -> Seq(Procedures)]
ASSUME PoolAssumption == PoolSize \in Nat \ {0} /\ NoRequest \notin Requests
ASSUME RequestsAssumption == IsFiniteSet(Requests)

Harvesters == {"SOS", "SPS"}

VARIABLES
  (* The harvesters and their thread pool. *)
  request,     \* the field request of each harvester
  current,     \* the collections the SOS harvester holds
  collected,   \* the contents of all collections
  queue,       \* submitted tasks no pool thread has taken
  occupied,    \* pool threads that harvests of IOOS catalogues hold for good
  (* One servlet thread and its task per request. *)
  pc,
  type,        \* service type of the request
  url,         \* service URL of the request
  uri,         \* the URI the task harvests
  todo,        \* procedures it has not processed, the one at work first
  into,        \* the collections it fills for the procedure at work
  absent,      \* the NOT EXISTS subquery of its running INSERT is true
  response,    \* the response object it fills
  written,     \* the collections as the response was serialised
  (* The database. *)
  service,     \* rows of table service
  rows,        \* rows of table sensor: the harvest that generated the
               \* identifier, and the document's service and procedure
  (* History. *)
  overlapped   \* requests that did not have the harvester for themselves

harvester == <<request, current, collected>>
pool == <<queue, occupied>>
task == <<uri, todo, into, absent>>
db == <<service, rows>>
vars == <<harvester, pool, pc, type, url, task, response, written, db, overlapped>>

Running == {"url", "uri", "capabilities", "service", "next", "describe",
            "insert", "insertEnd", "reset"}
Over == {"done", "answered", "emptyBody"}

Collections == [inserted : SUBSET (Requests \X Procedures), failed : SUBSET Procedures]
Empty == [inserted |-> {}, failed |-> {}]
CollectionIds == 0 .. Cardinality(Requests)

\* SirHarvestServiceResponse, or an ExceptionResponse in its place.
Response == [exception : BOOLEAN, serviceUrl : Urls \union {NoRequest}, found : Nat,
             collections : CollectionIds, inserted : Nat, failed : Nat]

TypeOK ==
  /\ request \in [Harvesters -> Requests \union {NoRequest}]
  /\ current \in CollectionIds
  /\ collected \in [CollectionIds -> Collections]
  /\ queue \in Seq(Requests)
  /\ occupied \in 0 .. PoolSize
  /\ pc \in [Requests -> {"idle", "submit", "queued"} \union Running \union Over]
  /\ type \in [Requests -> Harvesters \union {"other"}]
  /\ url \in [Requests -> Urls \union {NoRequest}]
  /\ uri \in [Requests -> Urls \union {NoRequest}]
  /\ todo \in [Requests -> Seq(Procedures)]
  /\ into \in [Requests -> CollectionIds]
  /\ absent \in [Requests -> BOOLEAN]
  /\ response \in [Requests -> Response]
  /\ written \in [Requests -> Collections]
  /\ service \subseteq Urls
  /\ rows \subseteq Requests \X Urls \X Procedures
  /\ overlapped \subseteq Requests

Init ==
  /\ request = [h \in Harvesters |-> NoRequest]
  /\ current = 0
  /\ collected = [c \in CollectionIds |-> Empty]
  /\ queue = <<>>
  /\ occupied = 0
  /\ pc = [r \in Requests |-> "idle"]
  /\ type = [r \in Requests |-> "other"]
  /\ url = [r \in Requests |-> NoRequest]
  /\ uri = [r \in Requests |-> NoRequest]
  /\ todo = [r \in Requests |-> <<>>]
  /\ into = [r \in Requests |-> 0]
  /\ absent = [r \in Requests |-> FALSE]
  /\ response = [r \in Requests |->
                   [exception |-> FALSE, serviceUrl |-> NoRequest, found |-> 0,
                    collections |-> 0, inserted |-> 0, failed |-> 0]]
  /\ written = [r \in Requests |-> Empty]
  /\ service = {}
  /\ rows = {}
  /\ overlapped = {}

-----------------------------------------------------------------------------
(* HarvestServiceListener *)

Goto(r, label) == pc' = [pc EXCEPT ![r] = label]

\* The harvester of r is put to use between setRequest() and the end of reset().
InUse(r) == pc[r] \in {"submit", "queued"} \union Running
Rivals(r, h) == {q \in Requests \ {r} : InUse(q) /\ type[q] = h}

\* Tasks in processProcedure() with the collections c.
StillFilling(c) ==
  {q \in Requests : pc[q] \in {"describe", "insert", "insertEnd"} /\ into[q] = c}

\* receiveRequest() puts the request into the harvester of its service type.
SetRequest(r) ==
  /\ pc[r] = "idle"
  /\ \E u \in Urls, h \in Harvesters :
       /\ url' = [url EXCEPT ![r] = u]
       /\ type' = [type EXCEPT ![r] = h]
       /\ request' = [request EXCEPT ![h] = r]
       /\ overlapped' = IF Rivals(r, h) = {} THEN overlapped
                                            ELSE overlapped \union Rivals(r, h) \union {r}
  /\ Goto(r, "submit")
  /\ UNCHANGED <<current, collected, pool, task, response, written, db>>

\* No harvester for the service type: an ExceptionResponse at once.
RejectType(r) ==
  /\ pc[r] = "idle"
  /\ response' = [response EXCEPT ![r].exception = TRUE]
  /\ Goto(r, "done")
  /\ UNCHANGED <<harvester, pool, type, url, task, written, db, overlapped>>

\* Mutant of Submit: a queue of bounded length, and a policy that discards.
SubmitOrDiscard(r) ==
  /\ pc[r] = "submit"
  /\ queue' = IF queue = <<>> THEN <<r>> ELSE queue
  /\ Goto(r, "queued")
  /\ UNCHANGED <<harvester, occupied, type, url, task, response, written, db, overlapped>>

Submit(r) ==
  /\ pc[r] = "submit"
  /\ queue' = Append(queue, r)
  /\ Goto(r, "queued")
  /\ UNCHANGED <<harvester, occupied, type, url, task, response, written, db, overlapped>>

ThreadFree == Cardinality({q \in Requests : pc[q] \in Running}) + occupied < PoolSize

\* The harvest of an IOOS catalogue, a task of the same pool, connects to a
\* server that does not answer, without a timeout.  (One that ends has only been
\* a delay.)
CatalogFallsSilent ==
  /\ ThreadFree
  /\ occupied' = occupied + 1
  /\ UNCHANGED <<harvester, queue, pc, type, url, task, response, written, db, overlapped>>

\* Mutant of StartTask: the task stays in the queue.
StartWithoutTaking(r) ==
  /\ queue # <<>> /\ Head(queue) = r
  /\ ThreadFree
  /\ Goto(r, "url")
  /\ UNCHANGED <<harvester, pool, type, url, task, response, written, db, overlapped>>

\* A free thread of the fixed pool takes the task submitted first.
StartTask(r) ==
  /\ queue # <<>> /\ Head(queue) = r
  /\ ThreadFree
  /\ queue' = Tail(queue)
  /\ Goto(r, "url")
  /\ UNCHANGED <<harvester, occupied, type, url, task, response, written, db, overlapped>>

\* future.get() returned; the response is serialised and sent.  A thread that
\* still adds to the collections while they are iterated breaks the iteration,
\* which leaves the body empty.
Answer(r) ==
  /\ pc[r] = "done"
  /\ \/ /\ written' = [written EXCEPT ![r] = IF response[r].exception THEN Empty
                                          ELSE collected[response[r].collections]]
        /\ Goto(r, "answered")
     \/ /\ ~response[r].exception /\ StillFilling(response[r].collections) # {}
        /\ Goto(r, "emptyBody")
        /\ UNCHANGED written
  /\ UNCHANGED <<harvester, pool, type, url, task, response, db, overlapped>>

-----------------------------------------------------------------------------
(* SOSServiceHarvester.call, and the little that SPSServiceHarvester.call does *)

\* this.request.getServiceUrl(), whichever request that is by now.
RequestedUrl == url[request["SOS"]]

\* The catch block of call(): reset() follows.
Throw(r) ==
  /\ response' = [response EXCEPT ![r].exception = TRUE]
  /\ Goto(r, "reset")

NameService(r) ==
  /\ pc[r] = "url"
  /\ type[r] = "SOS"
  /\ response' = [response EXCEPT ![r].serviceUrl = RequestedUrl]
  /\ Goto(r, "uri")
  /\ UNCHANGED <<harvester, pool, type, url, task, written, db, overlapped>>

\* SPSServiceHarvester.call asks a client that nothing has set for capabilities.
FailSps(r) ==
  /\ pc[r] = "url"
  /\ type[r] = "SPS"
  /\ Throw(r)
  /\ UNCHANGED <<harvester, pool, type, url, task, written, db, overlapped>>

ResolveUri(r) ==
  /\ pc[r] = "uri"
  /\ uri' = [uri EXCEPT ![r] = RequestedUrl]
  /\ Goto(r, "capabilities")
  /\ UNCHANGED <<harvester, pool, type, url, todo, into, absent, response, written,
                 db, overlapped>>

\* The remote service answers with its capabilities, with another document, for
\* which call() returns without reset(), or not at all.
RequestCapabilities(r) ==
  /\ pc[r] = "capabilities"
  /\ \/ Goto(r, "service") /\ UNCHANGED response
     \/ /\ response' = [response EXCEPT ![r].exception = TRUE]
        /\ Goto(r, "done")
     \/ Throw(r)
  /\ UNCHANGED <<harvester, pool, type, url, task, written, db, overlapped>>

\* The service is added under the URL of the request the harvester holds now;
\* then the capabilities may turn out not to describe DescribeSensor.
AddService(r) ==
  /\ pc[r] = "service"
  /\ \/ /\ service' = service \union {RequestedUrl}
        /\ \/ /\ todo' = [todo EXCEPT ![r] = Offers[uri[r]]]
              /\ Goto(r, "next")
              /\ UNCHANGED response
           \/ Throw(r) /\ UNCHANGED todo
     \/ Throw(r) /\ UNCHANGED <<service, todo>>
  /\ UNCHANGED <<harvester, pool, type, url, uri, into, absent, written, rows, overlapped>>

\* processProcedure() is called with the collections the harvester holds now.
TakeProcedure(r) ==
  /\ pc[r] = "next"
  /\ todo[r] # <<>>
  /\ into' = [into EXCEPT ![r] = current]
  /\ response' = [response EXCEPT ![r].found = @ + 1]
  /\ Goto(r, "describe")
  /\ UNCHANGED <<harvester, pool, type, url, uri, todo, absent, written, db, overlapped>>

\* HashMap and ArrayList are not synchronised: what is added while another
\* thread adds may be lost.
Collect(r, contents) ==
  /\ \/ collected' = [collected EXCEPT ![into[r]] = contents]
     \/ Rivals(r, "SOS") # {} /\ UNCHANGED collected
  /\ todo' = [todo EXCEPT ![r] = Tail(@)]
  /\ Goto(r, "next")

CollectFailed(r) ==
  Collect(r, [collected[into[r]] EXCEPT !.failed = @ \union {Head(todo[r])}])

CollectInserted(r) ==
  Collect(r, [collected[into[r]] EXCEPT !.inserted = @ \union {<<r, Head(todo[r])>>}])

\* The sensor document: conforming; missing, malformed or nonconforming; or one
\* the decoder breaks on with a RuntimeException.
DescribeSensor(r) ==
  /\ pc[r] = "describe"
  /\ \/ Goto(r, "insert") /\ UNCHANGED <<todo, collected, response>>
     \/ CollectFailed(r) /\ UNCHANGED response
     \/ Throw(r) /\ UNCHANGED <<todo, collected>>
  /\ UNCHANGED <<request, current, pool, type, url, uri, into, absent, written, db, overlapped>>

\* Mutant of Known: the subquery compares the identifier, which is always new.
KnownByIdentifier(r) == {x \in rows : x[1] = r /\ x[3] = Head(todo[r])}

\* Rows the subquery takes for the sensor: bounding box, time period and text
\* stand for the document.
Known(r) == {x \in rows : x[2] = uri[r] /\ x[3] = Head(todo[r])}

\* INSERT INTO sensor ... WHERE NOT EXISTS: the subquery, or no connection.
BeginInsertSensor(r) ==
  /\ pc[r] = "insert"
  /\ \/ /\ absent' = [absent EXCEPT ![r] = Known(r) = {}]
        /\ Goto(r, "insertEnd")
        /\ UNCHANGED <<todo, collected>>
     \/ CollectFailed(r) /\ UNCHANGED absent
  /\ UNCHANGED <<request, current, pool, type, url, uri, into, response, written, db, overlapped>>

\* A new row stays although the next statement raises and the sensor counts as
\* failed; without a new row the sensor counts as inserted.
EndInsertSensor(r) ==
  /\ pc[r] = "insertEnd"
  /\ \/ /\ absent[r]
        /\ rows' = rows \union {<<r, uri[r], Head(todo[r])>>}
        /\ CollectFailed(r)
     \/ /\ ~absent[r]
        /\ CollectInserted(r)
        /\ UNCHANGED rows
  /\ UNCHANGED <<request, current, pool, type, url, uri, into, absent, response, written,
                 service, overlapped>>

\* The response refers to the collections the harvester holds now; the loop
\* over the failed sensors breaks when another thread adds to them.
FillResponse(r) ==
  /\ pc[r] = "next"
  /\ todo[r] = <<>>
  /\ \/ /\ response' = [response EXCEPT ![r] =
                          [@ EXCEPT !.collections = current,
                                    !.inserted = Cardinality(collected[current].inserted),
                                    !.failed = Cardinality(collected[current].failed)]]
        /\ Goto(r, "reset")
     \/ StillFilling(current) # {} /\ Throw(r)
  /\ UNCHANGED <<harvester, pool, type, url, task, written, db, overlapped>>

\* Mutant of Reset: the harvester does not call reset() after a harvest.
ResetForgotten(r) ==
  /\ pc[r] = "reset"
  /\ Goto(r, "done")
  /\ UNCHANGED <<harvester, pool, type, url, task, response, written, db, overlapped>>

\* reset() at the end of call().
Reset(r) ==
  /\ pc[r] = "reset"
  /\ current' = IF type[r] = "SOS" THEN current + 1 ELSE current
  /\ Goto(r, "done")
  /\ UNCHANGED <<request, collected, pool, type, url, task, response, written, db, overlapped>>

-----------------------------------------------------------------------------
\* The task waits for a thread of a pool that silent servers hold altogether.
Stranded(r) == pc[r] = "queued" /\ occupied = PoolSize

\* Every request of this behaviour is over, or stranded.
Terminated ==
  /\ \A r \in Requests : pc[r] \in {"answered", "emptyBody"} \/ Stranded(r)
  /\ UNCHANGED vars

Step(r) ==
  \/ Submit(r) \/ StartTask(r) \/ Answer(r)
  \/ NameService(r) \/ FailSps(r) \/ ResolveUri(r)
  \/ RequestCapabilities(r) \/ AddService(r)
  \/ TakeProcedure(r) \/ DescribeSensor(r)
  \/ BeginInsertSensor(r) \/ EndInsertSensor(r)
  \/ FillResponse(r) \/ Reset(r)

Next ==
  \/ \E r \in Requests : SetRequest(r) \/ RejectType(r) \/ Step(r)
  \/ CatalogFallsSilent
  \/ Terminated

\* Servlet threads run on, and so do pool threads that no silent server holds: a
\* remote service or the HTTP client's timeout ends every exchange of Step.
Fairness == \A r \in Requests : WF_vars(Step(r))

Spec == Init /\ [][Next]_vars
FairSpec == Spec /\ Fairness

-----------------------------------------------------------------------------
(* Properties *)

Responded(r) == pc[r] = "answered" /\ ~response[r].exception

Offered(r) == {Offers[url[r]][i] : i \in DOMAIN Offers[url[r]]}
Processed(r) == {x[2] : x \in written[r].inserted}

\* A request that has the harvester for itself is answered with exactly its own
\* harvest, whatever harvests, failed ones too, ran before it: the early return
\* that skips reset() leaves nothing behind.
AloneReportsOwnHarvest ==
  \A r \in Requests : Responded(r) /\ r \notin overlapped =>
    /\ response[r].serviceUrl = url[r]
    /\ response[r].found = Len(Offers[url[r]])
    /\ written[r].failed \union Processed(r) = Offered(r)
    /\ \A x \in written[r].inserted : x[1] = r
    /\ response[r].inserted = Cardinality(written[r].inserted)
    /\ response[r].failed = Cardinality(written[r].failed)

\* What a harvest stores while it has the harvester for itself is the only row
\* of its document, for good, and its service has a row: a later harvest of the
\* service, and however many harvests share the harvester, find the row.
AloneStoresOnce ==
  \A x \in rows : x[1] \notin overlapped =>
    /\ x[2] = url[x[1]] /\ x[2] \in service
    /\ \A y \in rows : y[2] = x[2] /\ y[3] = x[3] => y = x

\* A task that queues behind a busy pool gets its turn and its request an answer,
\* while one thread is left; only silent catalogue servers that hold all threads
\* leave a request waiting, and only one whose task has not begun.
EveryHarvestAnswered ==
  \A r \in Requests :
    pc[r] = "submit" ~> pc[r] \in {"answered", "emptyBody"} \/ Stranded(r)

-----------------------------------------------------------------------------
(* The inductive invariant behind the safety properties *)

\* Places of a task in processProcedure(), in the loop around it, and between
\* the lines that read the field request and the loop.
Filling == {"describe", "insert", "insertEnd"}
Looping == {"next"} \union Filling
Located == {"capabilities", "service"} \union Looping
Before == {"idle", "submit", "queued", "url", "uri", "capabilities", "service"}

Elements(s) == {s[i] : i \in DOMAIN s}

\* A task is in the queue once, and only while its request waits for it.
QueueOfWaiting ==
  /\ \A i \in 1 .. Len(queue) : pc[queue[i]] = "queued"
  /\ \A i, j \in 1 .. Len(queue) : queue[i] = queue[j] => i = j

RequestsOver == {r \in Requests : pc[r] \in Over}

\* Collections are numbered by the harvests that are over, and none is referred
\* to before reset() has made it.
CollectionsNumbered ==
  /\ current <= Cardinality(RequestsOver)
  /\ \A r \in Requests : into[r] <= current /\ response[r].collections <= current
  /\ \A c \in CollectionIds :
       IsFiniteSet(collected[c].inserted) /\ IsFiniteSet(collected[c].failed)

\* What the place of a request says of its type, its URLs and its list.
PlacedAt(r) ==
  /\ pc[r] = "idle" => type[r] = "other"
  /\ type[r] # "other" => url[r] \in Urls
  /\ type[r] = "SOS" => request["SOS"] # NoRequest
  /\ InUse(r) => type[r] \in Harvesters
  /\ pc[r] \in Running \ {"url", "reset"} => type[r] = "SOS"
  /\ pc[r] \in {"reset"} \union Over /\ ~response[r].exception => type[r] = "SOS"
  /\ pc[r] \in Located => uri[r] \in Urls
  /\ pc[r] \in Filling => todo[r] # <<>>
  /\ pc[r] \in Before => response[r].found = 0

Placed ==
  /\ \A h \in Harvesters : request[h] # NoRequest => type[request[h]] = h
  /\ \A r \in Requests : PlacedAt(r)

\* Of two requests that use one harvester at the same time both are known to
\* overlap; the other ones find their own request in it.
OverlapsKnown ==
  /\ \A r, q \in Requests :
       r # q /\ InUse(r) /\ InUse(q) /\ type[r] = type[q] => r \in overlapped
  /\ \A r \in Requests \ overlapped :
       InUse(r) /\ type[r] = "SOS" => request["SOS"] = r

\* What is in the collections at hand was put there by a task that will reset
\* them; those to come are empty.
CollectionsClean ==
  /\ \A c \in CollectionIds : c > current => collected[c] = Empty
  /\ collected[current] # Empty =>
       \E q \in Requests : type[q] = "SOS" /\ pc[q] \in Looping \union {"reset"}

\* The collections c hold harvests of r, which with the procedures left are all.
Accounts(r, c, left) ==
  /\ \A x \in collected[c].inserted : x[1] = r
  /\ collected[c].failed \union {x[2] : x \in collected[c].inserted} \union Elements(left)
       = Offered(r)

\* How far a request that has the harvester for itself has come.
HarvestAt(r) ==
  /\ pc[r] \in Running \ {"url", "reset"} => response[r].serviceUrl = url[r]
  /\ pc[r] \in Located => uri[r] = url[r]
  /\ pc[r] \in Looping =>
       /\ url[r] \in service
       /\ Accounts(r, current, todo[r])
       /\ response[r].found + Len(todo[r])
            = Len(Offers[url[r]]) + (IF pc[r] = "next" THEN 0 ELSE 1)
  /\ pc[r] \in Filling => into[r] = current

OwnHarvest == \A r \in Requests \ overlapped : HarvestAt(r)

\* The response of such a request agrees with the collections it refers to, which
\* no other harvest touches.
Reports(r, c) ==
  /\ response[r].serviceUrl = url[r]
  /\ response[r].found = Len(Offers[url[r]])
  /\ Accounts(r, c, <<>>)
  /\ response[r].inserted = Cardinality(collected[c].inserted)
  /\ response[r].failed = Cardinality(collected[c].failed)

ReportAt(r) ==
  /\ pc[r] \in {"reset"} \union Over => Reports(r, response[r].collections)
  /\ pc[r] \in Over =>
       /\ response[r].collections < current
       /\ StillFilling(response[r].collections) = {}
  /\ pc[r] = "answered" => written[r] = collected[response[r].collections]

OwnReport == \A r \in Requests \ overlapped : ~response[r].exception => ReportAt(r)

\* A row that is there although the subquery did not see it is of a harvest
\* that overlapped.
AbsentUnlessOverlapped ==
  /\ \A x \in rows : pc[x[1]] # "idle"
  /\ \A q \in Requests : pc[q] = "insertEnd" /\ absent[q] =>
       \A x \in Known(q) : {q, x[1]} \subseteq overlapped

Inductive ==
  /\ TypeOK
  /\ QueueOfWaiting
  /\ CollectionsNumbered
  /\ Placed
  /\ OverlapsKnown
  /\ CollectionsClean
  /\ OwnHarvest
  /\ OwnReport
  /\ AbsentUnlessOverlapped
  /\ AloneStoresOnce

=============================================================================
