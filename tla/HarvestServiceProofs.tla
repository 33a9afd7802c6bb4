------------------------ MODULE HarvestServiceProofs ------------------------
(***************************************************************************)
(* For any number of requests, services and pool threads: a harvest that   *)
(* has the harvester for itself reports and stores its own sensors, once.  *)
(* The last part is about SensorExtent, where and when the sensors that    *)
(* its pool threads harvest are found.                                     *)
(***************************************************************************)
EXTENDS HarvestService, SensorExtent, FiniteSetTheorems, SequenceTheorems, TLAPS

Places == {"idle", "submit", "queued"} \union Running \union Over

-----------------------------------------------------------------------------
(* Operators of the model *)

\* A list that is not empty consists of its head and the rest.
LEMMA ElementsOfTail ==
  ASSUME NEW S, NEW s \in Seq(S), s # <<>>
  PROVE  /\ Head(s) \in S /\ Tail(s) \in Seq(S)
         /\ Len(Tail(s)) = Len(s) - 1 /\ Len(s) \in Nat \ {0}
         /\ Elements(s) = {Head(s)} \union Elements(Tail(s))
<1>1. /\ Head(s) \in S /\ Tail(s) \in Seq(S)
      /\ Len(Tail(s)) = Len(s) - 1 /\ Len(s) \in Nat \ {0}
      /\ \A i \in 1 .. Len(Tail(s)) : Tail(s)[i] = s[i + 1]
  BY HeadTailProperties, EmptySeq, LenProperties
<1>2. DOMAIN s = 1 .. Len(s) /\ DOMAIN Tail(s) = 1 .. Len(Tail(s)) /\ Head(s) = s[1]
  BY <1>1, LenProperties
<1>3. ASSUME NEW x \in Elements(s) PROVE x \in {Head(s)} \union Elements(Tail(s))
  <2>1. PICK i \in 1 .. Len(s) : x = s[i]
    BY <1>2, <1>3 DEF Elements
  <2>2. CASE i = 1
    BY <2>1, <2>2, <1>2
  <2>3. CASE i # 1
    <3>1. i - 1 \in 1 .. Len(Tail(s)) /\ Tail(s)[i - 1] = s[i]
      BY <1>1, <2>3
    <3> QED BY <3>1, <1>2, <2>1 DEF Elements
  <2> QED BY <2>2, <2>3
<1>4. ASSUME NEW x \in {Head(s)} \union Elements(Tail(s)) PROVE x \in Elements(s)
  <2>1. CASE x = Head(s)
    BY <1>1, <1>2, <2>1 DEF Elements
  <2>2. CASE x \in Elements(Tail(s))
    <3>1. PICK i \in 1 .. Len(Tail(s)) : x = Tail(s)[i]
      BY <1>2, <2>2 DEF Elements
    <3>2. i + 1 \in 1 .. Len(s) /\ x = s[i + 1]
      BY <1>1, <3>1
    <3> QED BY <3>2, <1>2 DEF Elements
  <2> QED BY <1>4, <2>1, <2>2
<1> QED BY <1>1, <1>3, <1>4

\* The empty list has no elements.
LEMMA ElementsOfNone == Elements(<<>>) = {} /\ Len(<<>>) = 0
BY DEF Elements

\* The URL in the request that the harvester holds belongs to a request, and to
\* the one at work if that is alone.
LEMMA RequestedUrlIs ==
  ASSUME TypeOK, Placed, OverlapsKnown, NEW r \in Requests, type[r] = "SOS"
  PROVE  /\ RequestedUrl \in Urls
         /\ InUse(r) /\ r \notin overlapped => RequestedUrl = url[r]
<1>1. request["SOS"] \in Requests
  BY DEF TypeOK, Placed, PlacedAt, Harvesters
<1>2. type[request["SOS"]] = "SOS"
  BY <1>1, PoolAssumption DEF Placed, PlacedAt, Harvesters
<1> QED BY <1>1, <1>2 DEF Placed, PlacedAt, OverlapsKnown, RequestedUrl

\* A harvest that is alone has no rivals.
LEMMA AloneHasNoRivals ==
  ASSUME OverlapsKnown, NEW r \in Requests \ overlapped, InUse(r),
         NEW q \in Requests \ {r}, type[q] = type[r]
  PROVE  ~InUse(q)
BY DEF OverlapsKnown

-----------------------------------------------------------------------------
(* Which variables a step leaves alone *)

\* All variables but the pool threads that silent servers hold, of which only a
\* type and the guards of the pool speak.
allElse == <<harvester, queue, pc, type, url, task, response, written, db, overlapped>>

LEMMA NextCases ==
  ASSUME [Next]_vars
  PROVE  \/ UNCHANGED allElse
         \/ \E r \in Requests : SetRequest(r) \/ RejectType(r) \/ Step(r)
BY DEF Next, Terminated, CatalogFallsSilent, vars, pool, allElse

\* A step of the request r changes no other request's variables.
Frame(r) ==
  /\ UNCHANGED <<request, type, url, overlapped>>
  /\ \E label \in Places : pc' = [pc EXCEPT ![r] = label]
  /\ \A q \in Requests \ {r} :
       /\ uri'[q] = uri[q] /\ todo'[q] = todo[q] /\ into'[q] = into[q]
       /\ absent'[q] = absent[q] /\ response'[q] = response[q] /\ written'[q] = written[q]

LEMMA StepFrames ==
  ASSUME TypeOK, NEW r \in Requests, Step(r)
  PROVE  Frame(r)
<1> USE DEF Frame, Goto, Places, Running, Over, TypeOK, harvester, task, db
<1>1. CASE Submit(r) \/ StartTask(r) \/ Answer(r)
  BY <1>1 DEF Submit, StartTask, Answer
<1>2. CASE NameService(r) \/ FailSps(r) \/ ResolveUri(r)
  BY <1>2 DEF NameService, FailSps, ResolveUri, Throw
<1>3. CASE RequestCapabilities(r) \/ AddService(r)
  BY <1>3 DEF RequestCapabilities, AddService, Throw
<1>4. CASE TakeProcedure(r) \/ FillResponse(r) \/ Reset(r)
  BY <1>4 DEF TakeProcedure, FillResponse, Reset, Throw
<1>5. CASE DescribeSensor(r) \/ BeginInsertSensor(r) \/ EndInsertSensor(r)
  BY <1>5 DEF DescribeSensor, BeginInsertSensor, EndInsertSensor, Throw, CollectFailed,
              CollectInserted, Collect
<1> QED BY <1>1, <1>2, <1>3, <1>4, <1>5 DEF Step

-----------------------------------------------------------------------------
(* Types *)

\* Before the last harvest is over there is room for one more reset().
LEMMA RoomForReset ==
  ASSUME NEW r \in Requests, pc[r] \notin Over
  PROVE  /\ Cardinality(Requests) \in Nat /\ Cardinality(RequestsOver) \in Nat
         /\ Cardinality(RequestsOver) + 1 <= Cardinality(Requests)
         /\ Cardinality(RequestsOver \union {r}) = Cardinality(RequestsOver) + 1
<1>1. IsFiniteSet(RequestsOver) /\ IsFiniteSet(RequestsOver \union {r})
  BY RequestsAssumption, FS_Subset, FS_AddElement DEF RequestsOver
<1>2. Cardinality(RequestsOver \union {r}) = Cardinality(RequestsOver) + 1
  BY <1>1, FS_AddElement DEF RequestsOver
<1>3. Cardinality(RequestsOver \union {r}) <= Cardinality(Requests)
  BY RequestsAssumption, FS_Subset DEF RequestsOver
<1> QED BY <1>1, <1>2, <1>3, RequestsAssumption, FS_CardinalityType

\* Adding to the collections of a task keeps their type.
LEMMA CollectType ==
  ASSUME TypeOK, NEW r \in Requests, NEW contents \in Collections, todo[r] # <<>>,
         Collect(r, contents)
  PROVE  /\ collected' \in [CollectionIds -> Collections]
         /\ todo' \in [Requests -> Seq(Procedures)]
         /\ pc' \in [Requests -> Places]
<1>1. Tail(todo[r]) \in Seq(Procedures)
  BY ElementsOfTail DEF TypeOK
<1>2. collected' \in [CollectionIds -> Collections]
  BY DEF Collect, TypeOK
<1>3. todo' \in [Requests -> Seq(Procedures)]
  BY <1>1 DEF Collect, TypeOK
<1>4. pc' \in [Requests -> Places]
  BY DEF Collect, Goto, TypeOK, Places, Running
<1> QED BY <1>2, <1>3, <1>4

LEMMA CollectFailedType ==
  ASSUME TypeOK, NEW r \in Requests, todo[r] # <<>>, CollectFailed(r)
  PROVE  /\ collected' \in [CollectionIds -> Collections]
         /\ todo' \in [Requests -> Seq(Procedures)]
         /\ pc' \in [Requests -> Places]
<1>1. Head(todo[r]) \in Procedures
  BY ElementsOfTail DEF TypeOK
<1>2. [collected[into[r]] EXCEPT !.failed = @ \union {Head(todo[r])}] \in Collections
  <2>1. collected[into[r]] \in Collections
    BY DEF TypeOK
  <2> QED BY <1>1, <2>1 DEF Collections
<1> QED BY <1>2, CollectType DEF CollectFailed

LEMMA CollectInsertedType ==
  ASSUME TypeOK, NEW r \in Requests, todo[r] # <<>>, CollectInserted(r)
  PROVE  /\ collected' \in [CollectionIds -> Collections]
         /\ todo' \in [Requests -> Seq(Procedures)]
         /\ pc' \in [Requests -> Places]
<1>1. Head(todo[r]) \in Procedures
  BY ElementsOfTail DEF TypeOK
<1>2. collected[into[r]] \in Collections
  BY DEF TypeOK
<1>3. collected[into[r]].inserted \union {<<r, Head(todo[r])>>} \subseteq Requests \X Procedures
  BY <1>1, <1>2 DEF Collections
<1>4. [collected[into[r]] EXCEPT !.inserted = @ \union {<<r, Head(todo[r])>>}] \in Collections
  BY <1>2, <1>3 DEF Collections
<1> QED BY <1>4, CollectType DEF CollectInserted

\* A response stays one when a field changes.
LEMMA ResponseUpdate ==
  ASSUME NEW s \in Response
  PROVE  /\ [s EXCEPT !.exception = TRUE] \in Response
         /\ \A u \in Urls : [s EXCEPT !.serviceUrl = u] \in Response
         /\ \A n \in Nat : [s EXCEPT !.found = n] \in Response
<1>1. [s EXCEPT !.exception = TRUE] \in Response
  BY DEF Response
<1>2. ASSUME NEW u \in Urls PROVE [s EXCEPT !.serviceUrl = u] \in Response
  BY DEF Response
<1>3. ASSUME NEW n \in Nat PROVE [s EXCEPT !.found = n] \in Response
  BY DEF Response
<1> QED BY <1>1, <1>2, <1>3

\* An exception is a response.
LEMMA ThrowType ==
  ASSUME TypeOK, NEW r \in Requests, Throw(r)
  PROVE  response' \in [Requests -> Response] /\ pc' \in [Requests -> Places]
<1>1. [response[r] EXCEPT !.exception = TRUE] \in Response
  <2>1. response[r] \in Response
    BY DEF TypeOK
  <2> QED BY <2>1, ResponseUpdate
<1> QED BY <1>1 DEF Throw, Goto, TypeOK, Places, Running

\* The number of the collections that reset() makes.
LEMMA ResetType ==
  ASSUME current \in CollectionIds, CollectionsNumbered, NEW r \in Requests, pc[r] = "reset"
  PROVE  current + 1 \in CollectionIds
<1>1. pc[r] \notin Over
  BY DEF Over
<1>2. /\ Cardinality(Requests) \in Nat /\ Cardinality(RequestsOver) \in Nat
      /\ Cardinality(RequestsOver) + 1 <= Cardinality(Requests)
  BY <1>1, RoomForReset
<1>3. current <= Cardinality(RequestsOver)
  BY DEF CollectionsNumbered
<1>4. current \in 0 .. Cardinality(Requests)
  BY DEF CollectionIds
<1>5. current + 1 \in 0 .. Cardinality(Requests)
  BY <1>2, <1>3, <1>4
<1> QED BY <1>5 DEF CollectionIds

\* What FillResponse puts into the response.
LEMMA FilledType ==
  ASSUME TypeOK, CollectionsNumbered, NEW r \in Requests
  PROVE  [response[r] EXCEPT !.collections = current,
                             !.inserted = Cardinality(collected[current].inserted),
                             !.failed = Cardinality(collected[current].failed)] \in Response
<1>1. Cardinality(collected[current].inserted) \in Nat /\ Cardinality(collected[current].failed) \in Nat
  BY FS_CardinalityType DEF CollectionsNumbered, TypeOK
<1>2. current \in CollectionIds /\ response[r] \in Response
  BY DEF TypeOK
<1>3. ASSUME NEW s \in Response, NEW c \in CollectionIds, NEW i \in Nat, NEW f \in Nat
      PROVE  [s EXCEPT !.collections = c, !.inserted = i, !.failed = f] \in Response
  BY DEF Response
<1> QED BY <1>1, <1>2, <1>3

\* Steps outside call() keep the types.
LEMMA ListenerType ==
  ASSUME TypeOK, NEW r \in Requests,
         SetRequest(r) \/ RejectType(r) \/ Submit(r) \/ StartTask(r) \/ Answer(r)
  PROVE  TypeOK'
<1> USE DEF TypeOK, Goto, Places, Running, Over, harvester, pool, task, db
<1>1. CASE SetRequest(r)
  BY <1>1 DEF SetRequest, Rivals, Harvesters
<1>2. CASE RejectType(r)
  <2>1. [response[r] EXCEPT !.exception = TRUE] \in Response
    BY ResponseUpdate
  <2> QED BY <1>2, <2>1 DEF RejectType
<1>3. CASE Submit(r)
  <2>1. Append(queue, r) \in Seq(Requests)
    BY AppendProperties
  <2> QED BY <1>3, <2>1 DEF Submit
<1>4. CASE StartTask(r)
  <2>1. Tail(queue) \in Seq(Requests)
    BY <1>4, HeadTailProperties DEF StartTask
  <2> QED BY <1>4, <2>1 DEF StartTask
<1>5. CASE Answer(r)
  <2>1. Empty \in Collections /\ collected[response[r].collections] \in Collections
    BY DEF Empty, Collections, Response
  <2>2. written' \in [Requests -> Collections]
    BY <1>5, <2>1 DEF Answer
  <2>3. pc' \in [Requests -> Places]
    BY <1>5 DEF Answer
  <2> QED BY <1>5, <2>2, <2>3 DEF Answer
<1> QED BY <1>1, <1>2, <1>3, <1>4, <1>5

\* Steps of call() up to the loop keep the types.
LEMMA CapabilitiesType ==
  ASSUME TypeOK, Placed, OverlapsKnown, NEW r \in Requests,
         \/ NameService(r) \/ FailSps(r) \/ ResolveUri(r)
         \/ RequestCapabilities(r) \/ AddService(r)
  PROVE  TypeOK'
<1> USE DEF TypeOK, Goto, Places, Running, Over, harvester, pool, task, db
<1>1. CASE NameService(r)
  <2>1. [response[r] EXCEPT !.serviceUrl = RequestedUrl] \in Response
    <3>1. RequestedUrl \in Urls
      BY <1>1, RequestedUrlIs DEF NameService
    <3> QED BY <3>1, ResponseUpdate
  <2> QED BY <1>1, <2>1 DEF NameService
<1>2. CASE FailSps(r)
  BY <1>2, ThrowType DEF FailSps
<1>3. CASE ResolveUri(r)
  <2>1. RequestedUrl \in Urls
    BY <1>3, RequestedUrlIs DEF ResolveUri, Placed, PlacedAt
  <2> QED BY <1>3, <2>1 DEF ResolveUri
<1>4. CASE RequestCapabilities(r)
  <2>1. [response[r] EXCEPT !.exception = TRUE] \in Response
    BY ResponseUpdate
  <2>2. response' = response \/ response' = [response EXCEPT ![r].exception = TRUE]
    BY <1>4 DEF RequestCapabilities, Throw
  <2>3. response' \in [Requests -> Response]
    BY <2>1, <2>2
  <2>4. pc' \in [Requests -> Places]
    <3>1. Goto(r, "service") \/ Goto(r, "done") \/ Goto(r, "reset")
      BY <1>4 DEF RequestCapabilities, Throw
    <3> QED BY <3>1
  <2> QED BY <1>4, <2>3, <2>4 DEF RequestCapabilities
<1>5. CASE AddService(r)
  <2>1. RequestedUrl \in Urls
    BY <1>5, RequestedUrlIs DEF AddService, Placed, PlacedAt
  <2>2. Offers[uri[r]] \in Seq(Procedures)
    BY <1>5, OffersAssumption DEF AddService, Placed, PlacedAt, Located
  <2>3. response' \in [Requests -> Response] /\ pc' \in [Requests -> Places]
    BY <1>5, ThrowType DEF AddService
  <2>4. service' \subseteq Urls /\ todo' \in [Requests -> Seq(Procedures)]
    BY <1>5, <2>1, <2>2 DEF AddService
  <2> QED BY <1>5, <2>3, <2>4 DEF AddService
<1> QED BY <1>1, <1>2, <1>3, <1>4, <1>5

\* Steps of the loop keep the types.
LEMMA LoopType ==
  ASSUME TypeOK, CollectionsNumbered, Placed, NEW r \in Requests,
         \/ TakeProcedure(r) \/ DescribeSensor(r) \/ BeginInsertSensor(r)
         \/ EndInsertSensor(r) \/ FillResponse(r) \/ Reset(r)
  PROVE  TypeOK'
<1> USE DEF TypeOK, Goto, Places, Running, Over, harvester, pool, task, db
<1>1. CASE TakeProcedure(r)
  <2>1. response[r].found + 1 \in Nat
    BY DEF Response
  <2>2. [response[r] EXCEPT !.found = @ + 1] \in Response
    BY <2>1, ResponseUpdate
  <2> QED BY <1>1, <2>2 DEF TakeProcedure
<1>2. CASE DescribeSensor(r)
  <2>1. todo[r] # <<>>
    BY <1>2 DEF DescribeSensor, Placed, PlacedAt, Filling
  <2> QED BY <1>2, <2>1, ThrowType, CollectFailedType DEF DescribeSensor
<1>3. CASE BeginInsertSensor(r)
  <2>1. todo[r] # <<>>
    BY <1>3 DEF BeginInsertSensor, Placed, PlacedAt, Filling
  <2> QED BY <1>3, <2>1, CollectFailedType DEF BeginInsertSensor
<1>4. CASE EndInsertSensor(r)
  <2>1. todo[r] # <<>> /\ uri[r] \in Urls
    BY <1>4 DEF EndInsertSensor, Placed, PlacedAt, Filling, Looping, Located
  <2>2. Head(todo[r]) \in Procedures
    BY <2>1, ElementsOfTail
  <2>3. rows' \subseteq Requests \X Urls \X Procedures
    BY <1>4, <2>1, <2>2 DEF EndInsertSensor
  <2> QED BY <1>4, <2>1, <2>3, CollectFailedType, CollectInsertedType DEF EndInsertSensor
<1>5. CASE FillResponse(r)
  <2>1. CASE Throw(r)
    BY <1>5, <2>1, ThrowType DEF FillResponse
  <2>2. CASE ~Throw(r)
    <3>1. response' \in [Requests -> Response]
      <4>1. \E x \in Response : response' = [response EXCEPT ![r] = x]
        BY <1>5, <2>2, FilledType DEF FillResponse
      <4> QED BY <4>1
    <3>2. pc' \in [Requests -> Places]
      BY <1>5, <2>2 DEF FillResponse
    <3> QED BY <1>5, <3>1, <3>2 DEF FillResponse
  <2> QED BY <2>1, <2>2
<1>6. CASE Reset(r)
  <2>1. current + 1 \in CollectionIds
    BY <1>6, ResetType DEF Reset
  <2> QED BY <1>6, <2>1 DEF Reset
<1> QED BY <1>1, <1>2, <1>3, <1>4, <1>5, <1>6

\* Every step keeps the types.
LEMMA NextType ==
  ASSUME Inductive, [Next]_vars
  PROVE  TypeOK'
<1> USE DEF Inductive
<1>1. ASSUME UNCHANGED allElse, occupied' \in 0 .. PoolSize PROVE TypeOK'
  BY <1>1 DEF allElse, harvester, task, db, TypeOK
<1>2. CASE UNCHANGED vars
  BY <1>1, <1>2 DEF vars, pool, allElse, TypeOK
<1>3. ASSUME NEW r \in Requests, SetRequest(r) \/ RejectType(r) \/ Step(r) PROVE TypeOK'
  BY <1>3, ListenerType, CapabilitiesType, LoopType DEF Step
<1>4. CASE CatalogFallsSilent
  <2>1. Cardinality({q \in Requests : pc[q] \in Running}) \in Nat
    BY RequestsAssumption, FS_Subset, FS_CardinalityType
  <2>2. occupied + 1 \in 0 .. PoolSize
    BY <1>4, <2>1, PoolAssumption DEF CatalogFallsSilent, ThreadFree, TypeOK
  <2>3. UNCHANGED allElse
    BY <1>4 DEF CatalogFallsSilent, allElse
  <2> QED BY <1>1, <1>4, <2>2, <2>3 DEF CatalogFallsSilent
<1> QED BY <1>2, <1>3, <1>4 DEF Next, Terminated

-----------------------------------------------------------------------------
(* Places *)

\* A task that the pool takes was waiting for it.
LEMMA TakenWasQueued ==
  ASSUME TypeOK, QueueOfWaiting, NEW r \in Requests, StartTask(r)
  PROVE  /\ pc[r] = "queued" /\ Tail(queue) \in Seq(Requests)
         /\ Len(queue) \in Nat \ {0} /\ Len(Tail(queue)) = Len(queue) - 1
         /\ r = queue[1] /\ \A i \in 1 .. Len(Tail(queue)) : Tail(queue)[i] = queue[i + 1]
<1>1. queue \in Seq(Requests) /\ queue # <<>> /\ Head(queue) = r
  BY DEF TypeOK, StartTask
<1>2. /\ Tail(queue) \in Seq(Requests) /\ Len(queue) \in Nat \ {0}
      /\ Len(Tail(queue)) = Len(queue) - 1 /\ r = queue[1]
      /\ \A i \in 1 .. Len(Tail(queue)) : Tail(queue)[i] = queue[i + 1]
  BY <1>1, HeadTailProperties, EmptySeq, LenProperties
<1>3. 1 \in 1 .. Len(queue)
  BY <1>2
<1> QED BY <1>2, <1>3 DEF QueueOfWaiting

\* A request that takes a step uses the harvester, or is done and is answered; it
\* does not come to use it.
LEMMA StepPlaces ==
  ASSUME TypeOK, QueueOfWaiting, NEW r \in Requests, Step(r)
  PROVE  \/ InUse(r) /\ pc'[r] \in {"queued", "done"} \union Running
         \/ pc[r] = "done" /\ pc'[r] \in {"answered", "emptyBody"}
<1> USE DEF Goto, InUse, Running
<1>0. pc \in [Requests -> Places]
  BY DEF TypeOK, Places
<1>1. CASE Submit(r) \/ Answer(r)
  BY <1>0, <1>1 DEF Submit, Answer
<1>2. CASE StartTask(r)
  BY <1>0, <1>2, TakenWasQueued DEF StartTask
<1>3. CASE NameService(r) \/ FailSps(r) \/ ResolveUri(r)
  BY <1>0, <1>3 DEF NameService, FailSps, ResolveUri, Throw
<1>4. CASE RequestCapabilities(r) \/ AddService(r)
  BY <1>0, <1>4 DEF RequestCapabilities, AddService, Throw
<1>5. CASE TakeProcedure(r) \/ FillResponse(r) \/ Reset(r)
  BY <1>0, <1>5 DEF TakeProcedure, FillResponse, Reset, Throw
<1>6. CASE DescribeSensor(r) \/ BeginInsertSensor(r) \/ EndInsertSensor(r)
  BY <1>0, <1>6 DEF DescribeSensor, BeginInsertSensor, EndInsertSensor, Throw, CollectFailed,
                    CollectInserted, Collect
<1> QED BY <1>1, <1>2, <1>3, <1>4, <1>5, <1>6 DEF Step

\* Only submit() puts a task into the queue, and only the pool takes one out.
LEMMA StepQueues ==
  ASSUME TypeOK, QueueOfWaiting, NEW r \in Requests, Step(r), ~Submit(r), ~StartTask(r)
  PROVE  queue' = queue /\ pc[r] # "queued" /\ pc'[r] # "queued"
<1> USE DEF Goto, pool
<1>0. pc \in [Requests -> Places]
  BY DEF TypeOK, Places
<1>1. CASE Answer(r)
  BY <1>0, <1>1 DEF Answer
<1>3. CASE NameService(r) \/ FailSps(r) \/ ResolveUri(r)
  BY <1>0, <1>3 DEF NameService, FailSps, ResolveUri, Throw
<1>4. CASE RequestCapabilities(r) \/ AddService(r)
  BY <1>0, <1>4 DEF RequestCapabilities, AddService, Throw
<1>5. CASE TakeProcedure(r) \/ FillResponse(r) \/ Reset(r)
  BY <1>0, <1>5 DEF TakeProcedure, FillResponse, Reset, Throw
<1>6. CASE DescribeSensor(r) \/ BeginInsertSensor(r) \/ EndInsertSensor(r)
  BY <1>0, <1>6 DEF DescribeSensor, BeginInsertSensor, EndInsertSensor, Throw, CollectFailed,
                    CollectInserted, Collect
<1> QED BY <1>1, <1>3, <1>4, <1>5, <1>6 DEF Step

\* The queue holds each waiting task at most once.
LEMMA NextQueue ==
  ASSUME TypeOK, QueueOfWaiting, [Next]_vars
  PROVE  QueueOfWaiting'
<1>0. pc \in [Requests -> Places] /\ queue \in Seq(Requests)
  BY DEF TypeOK, Places
<1>1. CASE UNCHANGED <<queue, pc>>
  BY <1>1 DEF QueueOfWaiting
<1>2. ASSUME NEW r \in Requests, queue' = queue, pc[r] # "queued",
             NEW label, pc' = [pc EXCEPT ![r] = label]
      PROVE  QueueOfWaiting'
  <2>1. \A i \in 1 .. Len(queue) : queue[i] # r /\ queue[i] \in Requests
    BY <1>0, <1>2, ElementOfSeq DEF QueueOfWaiting
  <2> QED BY <1>0, <1>2, <2>1 DEF QueueOfWaiting
<1>3. ASSUME NEW r \in Requests, SetRequest(r) \/ RejectType(r) PROVE QueueOfWaiting'
  <2>1. queue' = queue /\ pc[r] # "queued" /\ \E label : pc' = [pc EXCEPT ![r] = label]
    BY <1>3 DEF SetRequest, RejectType, Goto, pool
  <2> QED BY <1>2, <2>1
<1>4. ASSUME NEW r \in Requests, Submit(r) PROVE QueueOfWaiting'
  <2>1. /\ Len(queue) \in Nat /\ Len(queue') = Len(queue) + 1 /\ queue'[Len(queue) + 1] = r
        /\ \A i \in 1 .. Len(queue) : queue'[i] = queue[i] /\ queue[i] \in Requests
    BY <1>0, <1>4, AppendProperties, LenProperties, ElementOfSeq DEF Submit
  <2>2. \A i \in 1 .. Len(queue) : queue[i] # r
    BY <1>4 DEF Submit, QueueOfWaiting
  <2>3. pc' = [pc EXCEPT ![r] = "queued"]
    BY <1>4 DEF Submit, Goto
  <2>4. ASSUME NEW i \in 1 .. Len(queue')
        PROVE  i \in 1 .. Len(queue) \/ i = Len(queue) + 1
    BY <2>1
  <2>5. \A i \in 1 .. Len(queue') : pc'[queue'[i]] = "queued"
    BY <1>0, <2>1, <2>2, <2>3, <2>4 DEF QueueOfWaiting
  <2>6. \A i, j \in 1 .. Len(queue') : queue'[i] = queue'[j] => i = j
    BY <2>1, <2>2, <2>4 DEF QueueOfWaiting
  <2> QED BY <2>5, <2>6 DEF QueueOfWaiting
<1>5. ASSUME NEW r \in Requests, StartTask(r) PROVE QueueOfWaiting'
  <2>1. /\ Len(queue) \in Nat \ {0} /\ Len(queue') = Len(queue) - 1 /\ r = queue[1]
        /\ \A i \in 1 .. Len(queue') : queue'[i] = queue[i + 1] /\ i + 1 \in 2 .. Len(queue)
    BY <1>5, TakenWasQueued DEF StartTask
  <2>2. \A i \in 2 .. Len(queue) : queue[i] # r /\ queue[i] \in Requests
    BY <1>0, <2>1, ElementOfSeq DEF QueueOfWaiting
  <2>3. pc' = [pc EXCEPT ![r] = "url"]
    BY <1>5 DEF StartTask, Goto
  <2>4. \A i \in 1 .. Len(queue') : pc'[queue'[i]] = "queued"
    BY <1>0, <2>1, <2>2, <2>3 DEF QueueOfWaiting
  <2>5. \A i, j \in 1 .. Len(queue') : queue'[i] = queue'[j] => i = j
    BY <2>1 DEF QueueOfWaiting
  <2> QED BY <2>4, <2>5 DEF QueueOfWaiting
<1>6. ASSUME NEW r \in Requests, Step(r), ~Submit(r), ~StartTask(r) PROVE QueueOfWaiting'
  BY <1>2, <1>6, StepFrames, StepQueues DEF Frame
<1> QED BY <1>1, <1>3, <1>4, <1>5, <1>6, NextCases DEF allElse

-----------------------------------------------------------------------------
(* The collections *)

\* What a step may do to the collections and to references to them.
LEMMA StepCollects ==
  ASSUME TypeOK, NEW r \in Requests, Step(r)
  PROVE  /\ current' = current \/ Reset(r)
         /\ into'[r] \in {into[r], current}
         /\ response'[r].collections \in {response[r].collections, current}
         /\ \/ collected' = collected
            \/ /\ pc[r] \in Filling
               /\ \E contents : collected' = [collected EXCEPT ![into[r]] = contents]
               /\ \E x : collected'[into[r]].inserted \in
                              {collected[into[r]].inserted, collected[into[r]].inserted \union {x}}
               /\ \E y : collected'[into[r]].failed \in
                              {collected[into[r]].failed, collected[into[r]].failed \union {y}}
<1> USE DEF harvester, task, db
<1>0. /\ into \in [Requests -> CollectionIds] /\ response \in [Requests -> Response]
      /\ collected \in [CollectionIds -> Collections]
  BY DEF TypeOK
<1>1. CASE Submit(r) \/ StartTask(r) \/ Answer(r)
  BY <1>1 DEF Submit, StartTask, Answer
<1>2. CASE NameService(r) \/ FailSps(r) \/ ResolveUri(r)
  BY <1>0, <1>2 DEF NameService, FailSps, ResolveUri, Throw, Response
<1>3. CASE RequestCapabilities(r) \/ AddService(r)
  BY <1>0, <1>3 DEF RequestCapabilities, AddService, Throw, Response
<1>4. CASE TakeProcedure(r)
  BY <1>0, <1>4 DEF TakeProcedure, Response
<1>5. CASE FillResponse(r)
  <2>1. current' = current /\ into' = into /\ collected' = collected
    BY <1>5 DEF FillResponse
  <2>2. CASE Throw(r)
    BY <1>0, <2>1, <2>2 DEF Throw, Response
  <2>3. CASE ~Throw(r)
    <3>1. PICK i, f : response' = [response EXCEPT ![r] =
                                     [@ EXCEPT !.collections = current, !.inserted = i, !.failed = f]]
      BY <1>5, <2>3 DEF FillResponse
    <3>2. response'[r].collections = current
      BY <1>0, <3>1 DEF Response
    <3> QED BY <2>1, <3>2
  <2> QED BY <2>2, <2>3
<1>6. CASE Reset(r)
  BY <1>0, <1>6 DEF Reset
<1>7. ASSUME pc[r] \in Filling, CollectFailed(r) \/ CollectInserted(r)
      PROVE  \/ collected' = collected
             \/ /\ pc[r] \in Filling
                /\ \E contents : collected' = [collected EXCEPT ![into[r]] = contents]
                /\ \E x : collected'[into[r]].inserted \in
                               {collected[into[r]].inserted, collected[into[r]].inserted \union {x}}
                /\ \E y : collected'[into[r]].failed \in
                               {collected[into[r]].failed, collected[into[r]].failed \union {y}}
  <2>1. into[r] \in CollectionIds /\ collected[into[r]] \in Collections
    BY <1>0
  <2>2. CASE CollectFailed(r)
    <3> DEFINE more == collected[into[r]].failed \union {Head(todo[r])}
    <3>1. \/ collected' = collected
          \/ collected' = [collected EXCEPT ![into[r]] = [collected[into[r]] EXCEPT !.failed = more]]
      BY <2>2 DEF CollectFailed, Collect
    <3>2. /\ [collected[into[r]] EXCEPT !.failed = more].inserted = collected[into[r]].inserted
          /\ [collected[into[r]] EXCEPT !.failed = more].failed = more
      BY <2>1 DEF Collections
    <3> HIDE DEF more
    <3>3. CASE collected' # collected
      <4>1. collected'[into[r]].inserted = collected[into[r]].inserted /\ collected'[into[r]].failed = more
        BY <1>0, <2>1, <3>1, <3>2, <3>3
      <4>2. PICK y : collected'[into[r]].failed = collected[into[r]].failed \union {y}
        BY <4>1 DEF more
      <4>3. \E contents : collected' = [collected EXCEPT ![into[r]] = contents]
        BY <3>1, <3>3
      <4>4. collected'[into[r]].inserted \in
              {collected[into[r]].inserted, collected[into[r]].inserted \union {y}}
        BY <4>1
      <4> QED BY <1>7, <4>2, <4>3, <4>4
    <3> QED BY <3>3
  <2>3. CASE CollectInserted(r)
    <3> DEFINE more == collected[into[r]].inserted \union {<<r, Head(todo[r])>>}
    <3>1. \/ collected' = collected
          \/ collected' = [collected EXCEPT ![into[r]] = [collected[into[r]] EXCEPT !.inserted = more]]
      BY <2>3 DEF CollectInserted, Collect
    <3>2. /\ [collected[into[r]] EXCEPT !.inserted = more].failed = collected[into[r]].failed
          /\ [collected[into[r]] EXCEPT !.inserted = more].inserted = more
      BY <2>1 DEF Collections
    <3> HIDE DEF more
    <3>3. CASE collected' # collected
      <4>1. collected'[into[r]].failed = collected[into[r]].failed /\ collected'[into[r]].inserted = more
        BY <1>0, <2>1, <3>1, <3>2, <3>3
      <4>2. \E x : more = collected[into[r]].inserted \union {x}
        BY DEF more
      <4> QED BY <1>7, <3>1, <3>3, <4>1, <4>2
    <3> QED BY <3>3
  <2> QED BY <1>7, <2>2, <2>3
<1>8. CASE DescribeSensor(r)
  <2>1. /\ current' = current /\ into' = into /\ pc[r] \in Filling
        /\ response'[r].collections = response[r].collections
        /\ collected' = collected \/ CollectFailed(r)
    BY <1>0, <1>8 DEF DescribeSensor, Throw, Response, Filling
  <2> QED BY <1>7, <2>1
<1>9. CASE BeginInsertSensor(r) \/ EndInsertSensor(r)
  <2>1. /\ current' = current /\ into' = into /\ pc[r] \in Filling /\ response' = response
        /\ collected' = collected \/ CollectFailed(r) \/ CollectInserted(r)
    BY <1>9 DEF BeginInsertSensor, EndInsertSensor, Filling
  <2> QED BY <1>7, <2>1
<1> QED BY <1>1, <1>2, <1>3, <1>4, <1>5, <1>6, <1>8, <1>9 DEF Step

\* A request that is over stays over, and reset() comes before the end of one.
LEMMA OverGrows ==
  ASSUME TypeOK, QueueOfWaiting, [Next]_vars
  PROVE  /\ RequestsOver \subseteq RequestsOver'
         /\ \A r \in Requests : Reset(r) => RequestsOver' = RequestsOver \union {r}
<1>0. pc \in [Requests -> Places]
  BY DEF TypeOK, Places
<1>1. ASSUME UNCHANGED pc PROVE RequestsOver \subseteq RequestsOver'
  BY <1>1 DEF RequestsOver
<1>2. ASSUME NEW r \in Requests, NEW label, pc' = [pc EXCEPT ![r] = label],
             pc[r] \notin Over \/ label \in Over
      PROVE  RequestsOver \subseteq RequestsOver'
  BY <1>0, <1>2 DEF RequestsOver
<1>3. ASSUME NEW r \in Requests, SetRequest(r) \/ RejectType(r)
      PROVE  RequestsOver \subseteq RequestsOver'
  <2>1. pc[r] = "idle" /\ \E label : pc' = [pc EXCEPT ![r] = label]
    BY <1>3 DEF SetRequest, RejectType, Goto
  <2> QED BY <1>2, <2>1 DEF Over
<1>4. ASSUME NEW r \in Requests, Step(r)
      PROVE  RequestsOver \subseteq RequestsOver'
  <2>1. PICK label \in Places : pc' = [pc EXCEPT ![r] = label]
    BY <1>4, StepFrames DEF Frame
  <2>2. pc[r] \notin Over \/ label \in Over
    BY <1>0, <1>4, <2>1, StepPlaces DEF InUse, Running, Over
  <2> QED BY <1>2, <2>1, <2>2
<1>5. ASSUME NEW r \in Requests, Reset(r)
      PROVE  RequestsOver' = RequestsOver \union {r}
  BY <1>0, <1>5 DEF Reset, Goto, RequestsOver, Over
<1> QED BY <1>1, <1>3, <1>4, <1>5, NextCases DEF allElse

\* Collections are finite, and as many were made as harvests are over.
LEMMA NextNumbered ==
  ASSUME Inductive, [Next]_vars, TypeOK'
  PROVE  CollectionsNumbered'
<1> USE DEF Inductive
<1>1. /\ IsFiniteSet(RequestsOver) /\ IsFiniteSet(RequestsOver')
      /\ Cardinality(RequestsOver) \in Nat /\ Cardinality(RequestsOver') \in Nat
  BY RequestsAssumption, FS_Subset, FS_CardinalityType DEF RequestsOver
<1>2. Cardinality(RequestsOver) <= Cardinality(RequestsOver')
  BY <1>1, OverGrows, FS_Subset
<1>3. current \in Nat /\ current' \in Nat /\ (\A r \in Requests : into[r] \in Nat)
      /\ (\A r \in Requests : response[r].collections \in Nat)
  <2>1. CollectionIds \subseteq Nat
    BY RequestsAssumption, FS_CardinalityType DEF CollectionIds
  <2>2. /\ current \in CollectionIds /\ current' \in CollectionIds
        /\ into \in [Requests -> CollectionIds] /\ response \in [Requests -> Response]
    BY DEF TypeOK
  <2> QED BY <2>1, <2>2 DEF Response
<1>4. CASE UNCHANGED allElse
  <2>1. UNCHANGED <<current, collected, into, response>> /\ RequestsOver' = RequestsOver
    BY <1>4 DEF allElse, harvester, task, RequestsOver
  <2> QED BY <2>1 DEF CollectionsNumbered
<1>5. ASSUME NEW r \in Requests, SetRequest(r) PROVE CollectionsNumbered'
  BY <1>2, <1>3, <1>5, <1>1 DEF SetRequest, task, CollectionsNumbered
<1>6. ASSUME NEW r \in Requests, RejectType(r) PROVE CollectionsNumbered'
  <2>1. \A q \in Requests : response'[q].collections = response[q].collections
    BY <1>6 DEF RejectType, TypeOK, Response
  <2> QED BY <1>1, <1>2, <1>3, <1>6, <2>1 DEF RejectType, harvester, task, CollectionsNumbered
<1>7. ASSUME NEW r \in Requests, Step(r) PROVE CollectionsNumbered'
  <2>1. current <= current' /\ current' <= Cardinality(RequestsOver')
    <3>1. CASE current' = current
      BY <1>1, <1>2, <1>3, <3>1 DEF CollectionsNumbered
    <3>2. CASE Reset(r)
      <4>1. Cardinality(RequestsOver') = Cardinality(RequestsOver) + 1
        BY <3>2, OverGrows, RoomForReset DEF Reset, Over
      <4>2. current' \in {current, current + 1}
        BY <3>2 DEF Reset
      <4> QED BY <1>1, <1>3, <4>1, <4>2 DEF CollectionsNumbered
    <3> QED BY <1>7, <3>1, <3>2, StepCollects
  <2>2. ASSUME NEW q \in Requests
        PROVE  into'[q] <= current' /\ response'[q].collections <= current'
    <3>1. into'[q] \in {into[q], current} /\ response'[q].collections \in {response[q].collections, current}
      BY <1>7, StepCollects, StepFrames DEF Frame
    <3> QED BY <1>3, <2>1, <3>1 DEF CollectionsNumbered
  <2>3. ASSUME NEW c \in CollectionIds
        PROVE  IsFiniteSet(collected'[c].inserted) /\ IsFiniteSet(collected'[c].failed)
    <3>1. CASE collected'[c] = collected[c]
      BY <3>1 DEF CollectionsNumbered
    <3>2. CASE collected'[c] # collected[c]
      <4>1. /\ \E contents : collected' = [collected EXCEPT ![into[r]] = contents]
            /\ \E x : collected'[into[r]].inserted \in
                           {collected[into[r]].inserted, collected[into[r]].inserted \union {x}}
            /\ \E y : collected'[into[r]].failed \in
                           {collected[into[r]].failed, collected[into[r]].failed \union {y}}
        BY <1>7, <3>2, StepCollects
      <4>2. c = into[r]
        BY <3>2, <4>1 DEF TypeOK
      <4>3. IsFiniteSet(collected[c].inserted) /\ IsFiniteSet(collected[c].failed)
        BY DEF CollectionsNumbered
      <4>4. IsFiniteSet(collected'[c].inserted)
        BY <4>1, <4>2, <4>3, FS_AddElement
      <4>5. IsFiniteSet(collected'[c].failed)
        BY <4>1, <4>2, <4>3, FS_AddElement
      <4> QED BY <4>4, <4>5
    <3> QED BY <3>1, <3>2
  <2> QED BY <2>1, <2>2, <2>3 DEF CollectionsNumbered
<1> QED BY <1>4, <1>5, <1>6, <1>7, NextCases

\* What is said of a request still holds when its own variables keep their values.
LEMMA PlacedIfKept ==
  ASSUME NEW r \in Requests, PlacedAt(r), UNCHANGED <<request, type, url>>,
         pc'[r] = pc[r], uri'[r] = uri[r], todo'[r] = todo[r], response'[r] = response[r]
  PROVE  PlacedAt(r)'
BY DEF PlacedAt, InUse

\* Steps of the listener and the pool keep a request's own part.
LEMMA ListenerPlaced ==
  ASSUME TypeOK, Placed, QueueOfWaiting, NEW r \in Requests,
         Submit(r) \/ StartTask(r) \/ Answer(r)
  PROVE  PlacedAt(r)'
<1>0. pc \in [Requests -> Places] /\ PlacedAt(r)
  BY DEF TypeOK, Places, Placed
<1> USE DEF PlacedAt, InUse, Goto, task, harvester, db
<1>1. CASE Submit(r)
  BY <1>0, <1>1 DEF Submit, Running, Over, Located, Looping, Filling, Before
<1>2. CASE StartTask(r)
  <2>1. pc[r] = "queued"
    BY <1>2, TakenWasQueued
  <2> QED BY <1>0, <1>2, <2>1 DEF StartTask, Running, Over, Located, Looping, Filling, Before
<1>3. CASE Answer(r)
  <2>1. pc[r] = "done" /\ pc'[r] \in {"answered", "emptyBody"} /\ UNCHANGED <<type, url, request, response>>
    BY <1>0, <1>3 DEF Answer
  <2> QED BY <1>0, <2>1 DEF Running, Over, Located, Looping, Filling, Before
<1> QED BY <1>1, <1>2, <1>3

\* So do those of call() up to the loop.
LEMMA CapabilitiesPlaced ==
  ASSUME TypeOK, Placed, OverlapsKnown, NEW r \in Requests,
         \/ NameService(r) \/ FailSps(r) \/ ResolveUri(r)
         \/ RequestCapabilities(r) \/ AddService(r)
  PROVE  PlacedAt(r)'
<1>0. pc \in [Requests -> Places] /\ PlacedAt(r) /\ response \in [Requests -> Response]
  BY DEF TypeOK, Places, Placed
<1>1. [response[r] EXCEPT !.exception = TRUE].exception
  BY <1>0 DEF Response
<1> USE DEF PlacedAt, InUse, Goto, Throw, task, harvester, db, Running, Over, Located, Looping,
            Filling, Before
<1>2. CASE NameService(r)
  <2>1. response'[r].found = response[r].found /\ pc'[r] = "uri" /\ UNCHANGED <<type, url, request>>
    BY <1>0, <1>2 DEF NameService, Response
  <2> QED BY <1>0, <1>2, <2>1 DEF NameService
<1>3. CASE FailSps(r)
  <2>1. response'[r].exception /\ pc'[r] = "reset" /\ UNCHANGED <<type, url, request>>
    BY <1>0, <1>1, <1>3 DEF FailSps
  <2> QED BY <1>0, <1>3, <2>1 DEF FailSps
<1>4. CASE ResolveUri(r)
  <2>1. uri'[r] \in Urls /\ pc'[r] = "capabilities" /\ UNCHANGED <<type, url, request, response>>
    BY <1>0, <1>4, RequestedUrlIs DEF ResolveUri, TypeOK
  <2> QED BY <1>0, <1>4, <2>1 DEF ResolveUri
<1>5. CASE RequestCapabilities(r)
  <2>1. /\ (pc'[r] = "service" /\ response'[r] = response[r]) \/ pc'[r] \in {"done", "reset"}
        /\ UNCHANGED <<type, url, request, uri>>
    BY <1>0, <1>5 DEF RequestCapabilities
  <2> QED BY <1>0, <1>5, <2>1 DEF RequestCapabilities
<1>6. CASE AddService(r)
  <2>1. pc'[r] \in {"next", "reset"} /\ UNCHANGED <<type, url, request, uri>>
    BY <1>0, <1>6 DEF AddService
  <2> QED BY <1>0, <1>6, <2>1 DEF AddService
<1> QED BY <1>2, <1>3, <1>4, <1>5, <1>6

\* So do those of the loop.
LEMMA LoopPlaced ==
  ASSUME TypeOK, Placed, NEW r \in Requests,
         \/ TakeProcedure(r) \/ DescribeSensor(r) \/ BeginInsertSensor(r)
         \/ EndInsertSensor(r) \/ FillResponse(r) \/ Reset(r)
  PROVE  PlacedAt(r)'
<1>0. pc \in [Requests -> Places] /\ PlacedAt(r) /\ response \in [Requests -> Response]
  BY DEF TypeOK, Places, Placed
<1> USE DEF PlacedAt, InUse, Goto, task, harvester, db, Running, Over, Located, Looping,
            Filling, Before
<1>1. CASE TakeProcedure(r)
  <2>1. /\ pc[r] = "next" /\ pc'[r] = "describe" /\ todo'[r] # <<>>
        /\ UNCHANGED <<type, url, request, uri>>
    BY <1>0, <1>1 DEF TakeProcedure
  <2> QED BY <1>0, <2>1
<1>2. CASE DescribeSensor(r) \/ BeginInsertSensor(r) \/ EndInsertSensor(r)
  <2>1. /\ pc[r] \in Filling /\ UNCHANGED <<type, url, request, uri>>
        /\ \/ pc'[r] \in {"next", "reset"}
           \/ pc'[r] \in {"insert", "insertEnd"} /\ UNCHANGED <<todo, response>>
    BY <1>0, <1>2 DEF DescribeSensor, BeginInsertSensor, EndInsertSensor, CollectFailed,
                      CollectInserted, Collect, Throw
  <2> QED BY <1>0, <2>1
<1>3. CASE FillResponse(r)
  <2>1. pc[r] = "next" /\ pc'[r] = "reset" /\ UNCHANGED <<type, url, request, uri>>
    BY <1>0, <1>3 DEF FillResponse, Throw
  <2> QED BY <1>0, <2>1
<1>4. CASE Reset(r)
  <2>1. pc[r] = "reset" /\ pc'[r] = "done" /\ UNCHANGED <<type, url, request, uri, response>>
    BY <1>0, <1>4 DEF Reset
  <2> QED BY <1>0, <2>1
<1> QED BY <1>1, <1>2, <1>3, <1>4

\* What is said of a request's place is kept by every step.
LEMMA NextPlaced ==
  ASSUME TypeOK, QueueOfWaiting, OverlapsKnown, Placed, [Next]_vars
  PROVE  Placed'
<1>0. /\ pc \in [Requests -> Places] /\ type \in [Requests -> Harvesters \union {"other"}]
      /\ url \in [Requests -> Urls \union {NoRequest}]
      /\ request \in [Harvesters -> Requests \union {NoRequest}]
      /\ response \in [Requests -> Response]
  BY DEF TypeOK, Places
<1>1. CASE UNCHANGED allElse
  <2>1. UNCHANGED <<request, type, url, pc, uri, todo, response>>
    BY <1>1 DEF allElse, harvester, task
  <2>2. \A r \in Requests : PlacedAt(r)'
    BY <2>1, PlacedIfKept DEF Placed
  <2> QED BY <2>1, <2>2 DEF Placed
<1>2. ASSUME NEW r \in Requests, SetRequest(r) PROVE Placed'
  <2>1. PICK u \in Urls, h \in Harvesters :
          url' = [url EXCEPT ![r] = u] /\ type' = [type EXCEPT ![r] = h]
            /\ request' = [request EXCEPT ![h] = r]
    BY <1>2 DEF SetRequest
  <2>2. /\ pc[r] = "idle" /\ pc' = [pc EXCEPT ![r] = "submit"]
        /\ UNCHANGED <<uri, todo, response>>
    BY <1>2 DEF SetRequest, Goto, task
  <2>3. type[r] = "other" /\ response[r].found = 0
    BY <2>2 DEF Placed, PlacedAt, Before
  <2>4. request' \in [Harvesters -> Requests \union {NoRequest}]
        /\ \A g \in Harvesters : request'[g] = IF g = h THEN r ELSE request[g]
    BY <1>0, <2>1
  <2>5. \A q \in Requests : type'[q] = IF q = r THEN h ELSE type[q]
    BY <1>0, <2>1
  <2>6. ASSUME NEW g \in Harvesters, request'[g] # NoRequest PROVE type'[request'[g]] = g
    <3>1. CASE g = h
      BY <2>4, <2>5, <3>1
    <3>2. CASE g # h
      <4>1. request'[g] \in Requests /\ type[request'[g]] = g
        BY <1>0, <2>4, <2>6, <3>2 DEF Placed
      <4>2. request'[g] # r
        BY <2>3, <4>1 DEF Harvesters
      <4> QED BY <2>5, <4>1, <4>2
    <3> QED BY <3>1, <3>2
  <2>7. ASSUME NEW q \in Requests, q # r PROVE PlacedAt(q)'
    <3>1. type'[q] = type[q] /\ url'[q] = url[q] /\ pc'[q] = pc[q] /\ PlacedAt(q)
      BY <1>0, <2>1, <2>2, <2>7 DEF Placed
    <3>2. request["SOS"] # NoRequest => request'["SOS"] # NoRequest
      BY <2>4, PoolAssumption DEF Harvesters
    <3> QED BY <2>2, <3>1, <3>2 DEF PlacedAt, InUse
  <2>8. PlacedAt(r)'
    <3>1. type'[r] = h /\ url'[r] = u /\ pc'[r] = "submit" /\ response'[r].found = 0
      BY <1>0, <2>1, <2>2, <2>3
    <3>2. type'[r] = "SOS" => request'["SOS"] # NoRequest
      BY <2>4, <3>1, PoolAssumption
    <3> QED BY <3>1, <3>2 DEF PlacedAt, Running, Over, Located, Looping, Filling, Harvesters
  <2> QED BY <2>6, <2>7, <2>8 DEF Placed
<1>3. ASSUME NEW r \in Requests, RejectType(r) PROVE Placed'
  <2>1. /\ UNCHANGED <<request, type, url, uri, todo>>
        /\ \A q \in Requests \ {r} : pc'[q] = pc[q] /\ response'[q] = response[q]
        /\ pc'[r] = "done" /\ response'[r].exception
    BY <1>0, <1>3 DEF RejectType, harvester, task, Goto, Response
  <2>2. \A q \in Requests \ {r} : PlacedAt(q)'
    BY <2>1, PlacedIfKept DEF Placed
  <2>3. PlacedAt(r)
    BY DEF Placed
  <2>4. PlacedAt(r)'
    BY <2>1, <2>3, <1>3
    DEF PlacedAt, RejectType, InUse, Running, Over, Located, Looping, Filling, Before
  <2> QED BY <2>1, <2>2, <2>4 DEF Placed
<1>4. ASSUME NEW r \in Requests, Step(r) PROVE Placed'
  <2>1. PICK label \in Places : pc' = [pc EXCEPT ![r] = label]
    BY <1>4, StepFrames DEF Frame
  <2>2. UNCHANGED <<request, type, url>>
    BY <1>4, StepFrames DEF Frame
  <2>3. ASSUME NEW q \in Requests \ {r} PROVE PlacedAt(q)'
    <3>1. uri'[q] = uri[q] /\ todo'[q] = todo[q] /\ response'[q] = response[q]
      BY <1>4, StepFrames DEF Frame
    <3>2. pc'[q] = pc[q]
      BY <1>0, <2>1
    <3> QED BY <2>2, <3>1, <3>2, PlacedIfKept DEF Placed
  <2>4. PlacedAt(r)'
    BY <1>4, ListenerPlaced, CapabilitiesPlaced, LoopPlaced DEF Step
  <2> QED BY <2>2, <2>3, <2>4 DEF Placed
<1> QED BY <1>1, <1>2, <1>3, <1>4, NextCases

-----------------------------------------------------------------------------
(* Overlapping harvests *)

\* Whoever used its harvester at the same time as another one is known.
LEMMA NextOverlaps ==
  ASSUME TypeOK, QueueOfWaiting, Placed, OverlapsKnown, [Next]_vars
  PROVE  OverlapsKnown'
<1>0. /\ pc \in [Requests -> Places] /\ type \in [Requests -> Harvesters \union {"other"}]
      /\ request \in [Harvesters -> Requests \union {NoRequest}]
  BY DEF TypeOK, Places
<1>1. ASSUME UNCHANGED <<request, type, overlapped>>,
             \A q \in Requests : InUse(q)' => InUse(q)
      PROVE  OverlapsKnown'
  BY <1>1 DEF OverlapsKnown
<1>2. CASE UNCHANGED allElse
  BY <1>1, <1>2 DEF allElse, harvester, InUse
<1>3. ASSUME NEW r \in Requests, SetRequest(r) PROVE OverlapsKnown'
  <2>1. PICK h \in Harvesters :
          /\ type' = [type EXCEPT ![r] = h]
          /\ request' = [request EXCEPT ![h] = r]
          /\ overlapped' = IF Rivals(r, h) = {} THEN overlapped
                                                ELSE overlapped \union Rivals(r, h) \union {r}
    BY <1>3 DEF SetRequest
  <2>2. pc[r] = "idle" /\ pc' = [pc EXCEPT ![r] = "submit"]
    BY <1>3 DEF SetRequest, Goto
  <2>3. \A q \in Requests \ {r} : InUse(q)' = InUse(q) /\ type'[q] = type[q]
    BY <1>0, <2>1, <2>2 DEF InUse
  <2>4. type'[r] = h /\ InUse(r)' /\ ~InUse(r)
    BY <1>0, <2>1, <2>2 DEF InUse, Running
  <2>5. overlapped \subseteq overlapped'
    BY <2>1
  <2>6. ASSUME NEW s \in Requests, NEW q \in Requests, s # q, InUse(s)', InUse(q)',
               type'[s] = type'[q]
        PROVE  s \in overlapped'
    <3>1. CASE s # r /\ q # r
      BY <2>3, <2>5, <2>6, <3>1 DEF OverlapsKnown
    <3>2. CASE s = r
      <4>1. q \in Rivals(r, h)
        BY <2>3, <2>4, <2>6, <3>2 DEF Rivals
      <4> QED BY <2>1, <3>2, <4>1
    <3>3. CASE q = r
      <4>1. s \in Rivals(r, h)
        BY <2>3, <2>4, <2>6, <3>3 DEF Rivals
      <4> QED BY <2>1, <4>1
    <3> QED BY <3>1, <3>2, <3>3
  <2>7. ASSUME NEW s \in Requests \ overlapped', InUse(s)', type'[s] = "SOS"
        PROVE  request'["SOS"] = s
    <3>1. CASE s = r
      BY <1>0, <2>1, <2>4, <2>7, <3>1
    <3>2. CASE s # r
      <4>1. InUse(s) /\ type[s] = "SOS" /\ s \notin overlapped
        BY <2>3, <2>5, <2>7, <3>2
      <4>2. request["SOS"] = s
        BY <4>1 DEF OverlapsKnown
      <4>3. h # "SOS"
        <5>1. SUFFICES ASSUME h = "SOS" PROVE FALSE
          OBVIOUS
        <5>2. s \in Rivals(r, h)
          BY <3>2, <4>1, <5>1 DEF Rivals
        <5> QED BY <2>1, <2>7, <5>2
      <4> QED BY <1>0, <2>1, <4>2, <4>3 DEF Harvesters
    <3> QED BY <3>1, <3>2
  <2> QED BY <2>6, <2>7 DEF OverlapsKnown
<1>4. ASSUME NEW r \in Requests, RejectType(r) PROVE OverlapsKnown'
  BY <1>0, <1>1, <1>4 DEF RejectType, harvester, Goto, InUse, Running
<1>5. ASSUME NEW r \in Requests, Step(r) PROVE OverlapsKnown'
  <2>1. PICK label \in Places : pc' = [pc EXCEPT ![r] = label]
    BY <1>5, StepFrames DEF Frame
  <2>2. InUse(r)' => InUse(r)
    BY <1>5, StepPlaces DEF InUse, Running
  <2>3. \A q \in Requests \ {r} : InUse(q)' = InUse(q)
    BY <1>0, <2>1 DEF InUse
  <2> QED BY <1>1, <1>5, <2>2, <2>3, StepFrames DEF Frame
<1> QED BY <1>2, <1>3, <1>4, <1>5, NextCases

-----------------------------------------------------------------------------
(* The collections of a harvest that is alone *)

\* A harvest goes from the loop to reset().
LEMMA LoopEndsInReset ==
  ASSUME TypeOK, QueueOfWaiting, NEW r \in Requests, Step(r), ~Reset(r),
         pc[r] \in Looping \union {"reset"}
  PROVE  pc'[r] \in Looping \union {"reset"}
<1> USE DEF Goto, Looping, Filling
<1>0. pc \in [Requests -> Places]
  BY DEF TypeOK, Places
<1>1. ~Submit(r) /\ ~Answer(r) /\ ~NameService(r) /\ ~FailSps(r) /\ ~ResolveUri(r)
  BY DEF Submit, Answer, NameService, FailSps, ResolveUri
<1>2. ~RequestCapabilities(r) /\ ~AddService(r)
  BY DEF RequestCapabilities, AddService
<1>3. ~StartTask(r)
  BY TakenWasQueued
<1>5. CASE TakeProcedure(r) \/ FillResponse(r)
  BY <1>0, <1>5 DEF TakeProcedure, FillResponse, Throw
<1>6. CASE DescribeSensor(r) \/ BeginInsertSensor(r) \/ EndInsertSensor(r)
  BY <1>0, <1>6 DEF DescribeSensor, BeginInsertSensor, EndInsertSensor, Throw, CollectFailed,
                    CollectInserted, Collect
<1> QED BY <1>1, <1>2, <1>3, <1>5, <1>6 DEF Step

\* The collections that reset() hands out are empty, and stay so until a harvest
\* fills them that will call reset() itself.
LEMMA NextClean ==
  ASSUME TypeOK, QueueOfWaiting, CollectionsNumbered, Placed, CollectionsClean, TypeOK',
         [Next]_vars
  PROVE  CollectionsClean'
<1>0. /\ pc \in [Requests -> Places] /\ into \in [Requests -> CollectionIds]
      /\ collected \in [CollectionIds -> Collections]
      /\ current \in CollectionIds /\ current' \in CollectionIds
      /\ CollectionIds \subseteq Nat
  BY RequestsAssumption, FS_CardinalityType DEF TypeOK, Places, CollectionIds
<1>1. CASE UNCHANGED allElse
  BY <1>1 DEF allElse, harvester, CollectionsClean
<1>2. ASSUME NEW r \in Requests, SetRequest(r) \/ RejectType(r) PROVE CollectionsClean'
  <2>1. UNCHANGED <<current, collected>> /\ pc[r] = "idle"
    BY <1>2 DEF SetRequest, RejectType, harvester
  <2>2. ASSUME NEW q \in Requests, q # r PROVE pc'[q] = pc[q] /\ type'[q] = type[q]
    BY <1>0, <1>2, <2>2 DEF SetRequest, RejectType, Goto, TypeOK
  <2>3. pc[r] \notin Looping \union {"reset"}
    BY <2>1 DEF Looping, Filling
  <2> QED BY <2>1, <2>2, <2>3 DEF CollectionsClean
<1>3. ASSUME NEW r \in Requests, Step(r) PROVE CollectionsClean'
  <2>1. PICK label \in Places : pc' = [pc EXCEPT ![r] = label]
    BY <1>3, StepFrames DEF Frame
  <2>2. type' = type
    BY <1>3, StepFrames DEF Frame
  <2>3. CASE Reset(r)
    <3>1. collected' = collected /\ current' = IF type[r] = "SOS" THEN current + 1 ELSE current
      BY <2>3 DEF Reset
    <3>2. CASE type[r] = "SOS"
      BY <1>0, <3>1, <3>2 DEF CollectionsClean
    <3>3. CASE type[r] # "SOS"
      BY <1>0, <2>1, <2>2, <3>1, <3>3 DEF CollectionsClean
    <3> QED BY <3>2, <3>3
  <2>4. CASE ~Reset(r)
    <3>1. current' = current
      BY <1>3, <2>4, StepCollects
    <3>2. CASE collected' = collected
      <4>1. pc[r] \in Looping \union {"reset"} => pc'[r] \in Looping \union {"reset"}
        BY <1>3, <2>4, LoopEndsInReset
      <4> QED BY <1>0, <2>1, <2>2, <3>1, <3>2, <4>1 DEF CollectionsClean
    <3>3. CASE collected' # collected
      <4>1. pc[r] \in Filling /\ \E contents : collected' = [collected EXCEPT ![into[r]] = contents]
        BY <1>3, <3>3, StepCollects
      <4>2. type[r] = "SOS" /\ pc'[r] \in Looping \union {"reset"}
        BY <1>3, <2>4, <4>1, LoopEndsInReset DEF Placed, PlacedAt, Filling, Looping, Running
      <4>3. into[r] <= current
        BY DEF CollectionsNumbered
      <4>4. \A c \in CollectionIds : c > current => collected'[c] = collected[c]
        BY <1>0, <4>1, <4>3
      <4> QED BY <2>2, <3>1, <4>2, <4>4 DEF CollectionsClean
    <3> QED BY <3>2, <3>3
  <2> QED BY <2>3, <2>4
<1> QED BY <1>1, <1>2, <1>3, NextCases

\* A task that fills collections, or resets them, uses the SOS harvester.
LEMMA FillersUseHarvester ==
  ASSUME TypeOK, Placed, NEW s \in Requests, Step(s),
         collected' # collected \/ current' # current
  PROVE  InUse(s) /\ type[s] = "SOS"
<1>1. CASE collected' # collected
  <2>1. pc[s] \in Filling
    BY <1>1, StepCollects
  <2> QED BY <2>1 DEF Placed, PlacedAt, Filling, Running, InUse
<1>2. CASE current' # current
  <2>1. Reset(s)
    BY <1>2, StepCollects
  <2> QED BY <1>2, <2>1 DEF Reset, InUse, Running
<1> QED BY <1>1, <1>2

\* No other task touches the collections of a harvest that is alone.
LEMMA OthersLeaveAlone ==
  ASSUME TypeOK, Placed, OverlapsKnown, NEW r \in Requests \ overlapped, InUse(r),
         type[r] = "SOS", NEW s \in Requests \ {r}, Step(s)
  PROVE  UNCHANGED <<collected, current>>
<1>1. ~(InUse(s) /\ type[s] = "SOS")
  BY AloneHasNoRivals
<1> QED BY <1>1, FillersUseHarvester

-----------------------------------------------------------------------------
(* The harvest of a request that is alone *)

\* No row of table service is ever deleted.
LEMMA ServicesStay ==
  ASSUME NEW r \in Requests, Step(r)
  PROVE  service \subseteq service'
<1> USE DEF db
<1>1. CASE Submit(r) \/ StartTask(r) \/ Answer(r)
  BY <1>1 DEF Submit, StartTask, Answer
<1>2. CASE NameService(r) \/ FailSps(r) \/ ResolveUri(r)
  BY <1>2 DEF NameService, FailSps, ResolveUri
<1>3. CASE RequestCapabilities(r) \/ AddService(r)
  BY <1>3 DEF RequestCapabilities, AddService
<1>4. CASE TakeProcedure(r) \/ FillResponse(r) \/ Reset(r)
  BY <1>4 DEF TakeProcedure, FillResponse, Reset
<1>5. CASE DescribeSensor(r) \/ BeginInsertSensor(r) \/ EndInsertSensor(r)
  BY <1>5 DEF DescribeSensor, BeginInsertSensor, EndInsertSensor
<1> QED BY <1>1, <1>2, <1>3, <1>4, <1>5 DEF Step

\* The progress of a harvest stays what it is while its variables, and the
\* collections if it is in the loop, are left alone.
LEMMA HarvestIfKept ==
  ASSUME NEW r \in Requests, HarvestAt(r), url'[r] = url[r], pc'[r] = pc[r], uri'[r] = uri[r],
         todo'[r] = todo[r], into'[r] = into[r], response'[r] = response[r],
         service \subseteq service',
         pc[r] \in Looping => UNCHANGED <<collected, current>>
  PROVE  HarvestAt(r)'
<1>1. Filling \subseteq Looping
  BY DEF Looping
<1>2. ASSUME pc[r] \in Looping, Accounts(r, current, todo[r])
      PROVE  Accounts(r, current, todo[r])'
  <2>1. collected' = collected /\ current' = current /\ url'[r] = url[r] /\ todo'[r] = todo[r]
    BY <1>2
  <2>2. Offered(r)' = Offered(r) /\ Elements(todo[r])' = Elements(todo[r])
    BY <2>1 DEF Offered, Elements
  <2> QED BY <1>2, <2>1, <2>2 DEF Accounts
<1> QED BY <1>1, <1>2 DEF HarvestAt

\* The steps of such a harvest before the loop.
LEMMA CapabilitiesHarvest ==
  ASSUME TypeOK, QueueOfWaiting, Placed, OverlapsKnown, CollectionsClean,
         NEW r \in Requests \ overlapped, HarvestAt(r),
         \/ Submit(r) \/ StartTask(r) \/ Answer(r) \/ NameService(r) \/ FailSps(r)
         \/ ResolveUri(r) \/ RequestCapabilities(r) \/ AddService(r)
  PROVE  HarvestAt(r)'
<1>0. /\ pc \in [Requests -> Places] /\ PlacedAt(r) /\ response \in [Requests -> Response]
      /\ uri \in [Requests -> Urls \union {NoRequest}] /\ todo \in [Requests -> Seq(Procedures)]
  BY DEF TypeOK, Places, Placed
<1> USE DEF Goto, Throw, task, harvester, db
<1>1. ASSUME pc'[r] \notin Running \ {"url", "reset"} PROVE HarvestAt(r)'
  BY <1>1 DEF HarvestAt, Running, Located, Looping, Filling
<1>2. CASE Submit(r) \/ StartTask(r) \/ Answer(r) \/ FailSps(r)
  <2>1. pc'[r] \notin Running \ {"url", "reset"}
    BY <1>0, <1>2 DEF Submit, StartTask, Answer, FailSps, Running
  <2> QED BY <1>1, <2>1
<1>3. CASE NameService(r)
  <2>1. RequestedUrl = url[r]
    BY <1>3, RequestedUrlIs DEF NameService, InUse, Running
  <2>2. response'[r].serviceUrl = url'[r] /\ pc'[r] = "uri"
    BY <1>0, <1>3, <2>1 DEF NameService, Response
  <2> QED BY <2>2 DEF HarvestAt, Running, Located, Looping, Filling
<1>4. CASE ResolveUri(r)
  <2>1. RequestedUrl = url[r]
    BY <1>0, <1>4, RequestedUrlIs DEF ResolveUri, InUse, Running, PlacedAt
  <2>2. uri'[r] = url'[r] /\ pc'[r] = "capabilities" /\ response' = response /\ url' = url
    BY <1>0, <1>4, <2>1 DEF ResolveUri
  <2> QED BY <1>4, <2>2 DEF ResolveUri, HarvestAt, Running, Located, Looping, Filling
<1>5. CASE RequestCapabilities(r)
  <2>1. CASE pc'[r] = "service"
    <3>1. UNCHANGED <<response, url, uri>> /\ pc[r] = "capabilities"
      BY <1>0, <1>5, <2>1 DEF RequestCapabilities
    <3> QED BY <2>1, <3>1 DEF HarvestAt, Running, Located, Looping, Filling
  <2>2. CASE pc'[r] # "service"
    <3>1. pc'[r] \in {"done", "reset"}
      BY <1>0, <1>5, <2>2 DEF RequestCapabilities
    <3> QED BY <1>1, <3>1 DEF Running
  <2> QED BY <2>1, <2>2
<1>6. CASE AddService(r)
  <2>1. pc[r] = "service" /\ type[r] = "SOS" /\ InUse(r)
    BY <1>0, <1>6 DEF AddService, PlacedAt, Running, InUse
  <2>2. RequestedUrl = url[r] /\ uri[r] = url[r]
    BY <2>1, RequestedUrlIs DEF HarvestAt, Located
  <2>3. CASE pc'[r] = "next"
    <3>1. /\ service' = service \union {url[r]} /\ todo'[r] = Offers[url[r]]
          /\ UNCHANGED <<response, url, uri, current, collected>>
      BY <1>0, <1>6, <2>2, <2>3 DEF AddService
    <3>2. collected[current] = Empty
      <4>1. \A q \in Requests : type[q] = "SOS" => pc[q] \notin Looping \union {"reset"}
        BY <2>1, AloneHasNoRivals DEF InUse, Running, Looping, Filling
      <4> QED BY <4>1 DEF CollectionsClean
    <3>3. Accounts(r, current, todo[r])'
      BY <3>1, <3>2 DEF Accounts, Empty, Offered, Elements
    <3>4. response[r].found = 0 /\ url[r] \in Urls
      BY <1>0, <2>1 DEF PlacedAt, Before
    <3>5. Len(Offers[url[r]]) \in Nat
      BY <3>4, OffersAssumption, LenProperties
    <3>6. response[r].serviceUrl = url[r]
      BY <2>1 DEF HarvestAt, Running
    <3> QED BY <2>2, <2>3, <3>1, <3>3, <3>4, <3>5, <3>6 DEF HarvestAt, Filling
  <2>4. CASE pc'[r] # "next"
    <3>1. pc'[r] = "reset"
      BY <1>0, <1>6, <2>4 DEF AddService
    <3> QED BY <1>1, <3>1
  <2> QED BY <2>3, <2>4
<1> QED BY <1>2, <1>3, <1>4, <1>5, <1>6

\* One procedure less to do, and it is in the collections.
LEMMA CollectAccounts ==
  ASSUME TypeOK, OverlapsKnown, Placed, NEW r \in Requests \ overlapped, pc[r] \in Filling,
         HarvestAt(r), CollectFailed(r) \/ CollectInserted(r),
         UNCHANGED <<type, url, current, response, uri, service>>
  PROVE  HarvestAt(r)'
<1>0. /\ pc \in [Requests -> Places] /\ PlacedAt(r) /\ response \in [Requests -> Response]
      /\ todo \in [Requests -> Seq(Procedures)]
      /\ collected \in [CollectionIds -> Collections] /\ current \in CollectionIds
  BY DEF TypeOK, Places, Placed
<1>1. /\ pc[r] \in Running \ {"url", "reset"} /\ pc[r] \in Located /\ pc[r] \in Looping
      /\ pc[r] # "next" /\ InUse(r)
  BY DEF Filling, Looping, Located, Running, InUse
<1>2. /\ url[r] \in service /\ Accounts(r, current, todo[r]) /\ into[r] = current
      /\ response[r].serviceUrl = url[r] /\ uri[r] = url[r]
      /\ response[r].found + Len(todo[r]) = Len(Offers[url[r]]) + 1
  BY <1>1 DEF HarvestAt
<1>3. todo[r] \in Seq(Procedures) /\ todo[r] # <<>> /\ type[r] = "SOS" /\ url[r] \in Urls
  BY <1>0, <1>1 DEF PlacedAt
<1>4. /\ Len(Tail(todo[r])) = Len(todo[r]) - 1 /\ Len(todo[r]) \in Nat
      /\ Elements(todo[r]) = {Head(todo[r])} \union Elements(Tail(todo[r]))
  BY <1>3, ElementsOfTail
<1>5. Rivals(r, "SOS") = {}
  BY <1>1, <1>3, AloneHasNoRivals DEF Rivals
<1>6. pc'[r] = "next" /\ todo'[r] = Tail(todo[r])
  BY <1>0 DEF CollectFailed, CollectInserted, Collect, Goto
<1>7. Accounts(r, current, todo[r])'
  <2>1. collected[current] \in Collections
    BY <1>0
  <2>2. CASE CollectFailed(r)
    <3> DEFINE more == [collected[current] EXCEPT !.failed = @ \union {Head(todo[r])}]
    <3>1. collected' = [collected EXCEPT ![current] = more]
      BY <1>2, <1>5, <2>2 DEF CollectFailed, Collect
    <3>2. /\ more.failed = collected[current].failed \union {Head(todo[r])}
          /\ more.inserted = collected[current].inserted
      BY <2>1 DEF Collections
    <3> HIDE DEF more
    <3>3. collected'[current'] = more
      BY <1>0, <3>1
    <3>4. \A x \in collected'[current'].inserted : x[1] = r
      BY <1>2, <3>2, <3>3 DEF Accounts
    <3>5. collected'[current'].failed \union {x[2] : x \in collected'[current'].inserted}
            \union Elements(todo'[r]) = Offered(r)
      BY <1>2, <1>4, <1>6, <3>2, <3>3 DEF Accounts
    <3> QED BY <3>4, <3>5 DEF Accounts, Offered, Elements
  <2>3. CASE CollectInserted(r)
    <3> DEFINE more == [collected[current] EXCEPT !.inserted = @ \union {<<r, Head(todo[r])>>}]
    <3>1. collected' = [collected EXCEPT ![current] = more]
      BY <1>2, <1>5, <2>3 DEF CollectInserted, Collect
    <3>2. /\ more.inserted = collected[current].inserted \union {<<r, Head(todo[r])>>}
          /\ more.failed = collected[current].failed
      BY <2>1 DEF Collections
    <3> HIDE DEF more
    <3>3. collected'[current'] = more
      BY <1>0, <3>1
    <3>4. \A x \in collected'[current'].inserted : x[1] = r
      BY <1>2, <3>2, <3>3 DEF Accounts
    <3>5. {x[2] : x \in more.inserted}
            = {x[2] : x \in collected[current].inserted} \union {Head(todo[r])}
      <4>1. <<r, Head(todo[r])>>[2] = Head(todo[r])
        OBVIOUS
      <4>2. \A y : y \in {x[2] : x \in more.inserted}
                 <=> (\E x \in collected[current].inserted : y = x[2]) \/ y = Head(todo[r])
        BY <3>2, <4>1
      <4> QED BY <4>2
    <3>6. collected'[current'].failed \union {x[2] : x \in collected'[current'].inserted}
            \union Elements(todo'[r]) = Offered(r)
      BY <1>2, <1>4, <1>6, <3>2, <3>3, <3>5 DEF Accounts
    <3> QED BY <3>4, <3>6 DEF Accounts, Offered, Elements
  <2> QED BY <2>2, <2>3
<1>8. Len(Offers[url[r]]) \in Nat /\ response[r].found \in Nat
  BY <1>0, <1>3, OffersAssumption, LenProperties DEF Response
<1>9. response[r].found + Len(Tail(todo[r])) = Len(Offers[url[r]]) + 0
  <2>1. PICK a \in Nat, b \in Nat, c \in Nat :
          a = response[r].found /\ b = Len(todo[r]) /\ c = Len(Offers[url[r]])
    BY <1>4, <1>8
  <2>2. a + b = c + 1
    BY <1>2, <2>1
  <2>3. a + (b - 1) = c + 0
    BY <2>2
  <2>4. Len(Tail(todo[r])) = b - 1
    BY <1>4, <2>1
  <2> QED BY <2>1, <2>3, <2>4
<1> QED BY <1>2, <1>6, <1>7, <1>9 DEF HarvestAt, Filling

\* The steps of such a harvest in the loop and after it.
LEMMA LoopHarvest ==
  ASSUME TypeOK, QueueOfWaiting, Placed, OverlapsKnown, NEW r \in Requests \ overlapped,
         HarvestAt(r),
         \/ TakeProcedure(r) \/ DescribeSensor(r) \/ BeginInsertSensor(r)
         \/ EndInsertSensor(r) \/ FillResponse(r) \/ Reset(r)
  PROVE  HarvestAt(r)'
<1>0. /\ pc \in [Requests -> Places] /\ PlacedAt(r) /\ response \in [Requests -> Response]
      /\ into \in [Requests -> CollectionIds] /\ todo \in [Requests -> Seq(Procedures)]
  BY DEF TypeOK, Places, Placed
<1> USE DEF Goto, Throw, task, harvester, db
<1>1. ASSUME pc'[r] \in {"reset", "done"} PROVE HarvestAt(r)'
  BY <1>1 DEF HarvestAt, Running, Located, Looping, Filling
<1>2. ASSUME pc[r] \in Filling, pc'[r] \in Filling,
             UNCHANGED <<collected, current, todo, into, response, uri, url, service>>
      PROVE  HarvestAt(r)'
  <2>1. Accounts(r, current, todo[r])' = Accounts(r, current, todo[r])
    BY <1>2 DEF Accounts, Offered, Elements
  <2> QED BY <1>2, <2>1 DEF HarvestAt, Running, Located, Looping, Filling
<1>3. CASE TakeProcedure(r)
  <2>1. /\ pc[r] = "next" /\ pc'[r] = "describe" /\ into'[r] = current /\ todo' = todo
        /\ UNCHANGED <<uri, url, service, current, collected>>
        /\ response'[r].found = response[r].found + 1
        /\ response'[r].serviceUrl = response[r].serviceUrl
    BY <1>0, <1>3 DEF TakeProcedure, Response
  <2>2. Accounts(r, current, todo[r])' = Accounts(r, current, todo[r])
    BY <2>1 DEF Accounts, Offered, Elements
  <2>3. /\ url[r] \in service /\ Accounts(r, current, todo[r]) /\ uri[r] = url[r]
        /\ response[r].serviceUrl = url[r]
        /\ response[r].found + Len(todo[r]) = Len(Offers[url[r]]) + 0
    BY <2>1 DEF HarvestAt, Looping, Located, Running
  <2>4. url[r] \in Urls
    BY <1>0, <2>1 DEF PlacedAt, Running
  <2>5. /\ response[r].found \in Nat /\ Len(todo[r]) \in Nat
        /\ Len(Offers[url[r]]) \in Nat
    BY <1>0, <2>4, OffersAssumption, LenProperties DEF Response
  <2>6. (response[r].found + 1) + Len(todo[r]) = Len(Offers[url[r]]) + 1
    <3>1. ASSUME NEW a \in Nat, NEW b \in Nat, NEW c \in Nat, a + b = c + 0
          PROVE  (a + 1) + b = c + 1
      BY <3>1
    <3> QED BY <2>3, <2>5, <3>1
  <2> QED BY <2>1, <2>2, <2>3, <2>6 DEF HarvestAt, Running, Located, Looping, Filling
<1>4. CASE DescribeSensor(r)
  <2>1. pc[r] = "describe" /\ UNCHANGED <<type, url, current, uri, into, service>>
    BY <1>4 DEF DescribeSensor
  <2>2. CASE pc'[r] = "insert"
    <3>1. UNCHANGED <<todo, collected, response>>
      BY <1>0, <1>4, <2>2 DEF DescribeSensor, CollectFailed, Collect
    <3> QED BY <1>2, <2>1, <2>2, <3>1 DEF Filling
  <2>3. CASE pc'[r] # "insert"
    <3>1. pc'[r] = "reset" \/ (CollectFailed(r) /\ UNCHANGED response)
      BY <1>0, <1>4, <2>3 DEF DescribeSensor
    <3>2. ASSUME CollectFailed(r), UNCHANGED response PROVE HarvestAt(r)'
      BY <2>1, <3>2, CollectAccounts DEF Filling
    <3> QED BY <1>1, <3>1, <3>2
  <2> QED BY <2>2, <2>3
<1>5. CASE BeginInsertSensor(r)
  <2>1. pc[r] = "insert" /\ UNCHANGED <<type, url, current, uri, into, service, response>>
    BY <1>5 DEF BeginInsertSensor
  <2>2. CASE CollectFailed(r)
    BY <2>1, <2>2, CollectAccounts DEF Filling
  <2>3. CASE ~CollectFailed(r)
    <3>1. pc'[r] = "insertEnd" /\ UNCHANGED <<todo, collected>>
      BY <1>0, <1>5, <2>3 DEF BeginInsertSensor
    <3> QED BY <1>2, <2>1, <3>1 DEF Filling
  <2> QED BY <2>2, <2>3
<1>6. CASE EndInsertSensor(r)
  <2>1. /\ pc[r] = "insertEnd" /\ UNCHANGED <<type, url, current, uri, into, service, response>>
        /\ CollectFailed(r) \/ CollectInserted(r)
    BY <1>6 DEF EndInsertSensor
  <2> QED BY <2>1, CollectAccounts DEF Filling
<1>7. CASE FillResponse(r) \/ Reset(r)
  <2>1. pc'[r] \in {"reset", "done"}
    BY <1>0, <1>7 DEF FillResponse, Reset
  <2> QED BY <1>1, <2>1
<1> QED BY <1>3, <1>4, <1>5, <1>6, <1>7

\* Every step keeps what is said of the harvest of a request that is alone.
LEMMA NextHarvest ==
  ASSUME TypeOK, QueueOfWaiting, Placed, OverlapsKnown, CollectionsClean, OwnHarvest,
         [Next]_vars
  PROVE  OwnHarvest'
<1>0. /\ pc \in [Requests -> Places] /\ url \in [Requests -> Urls \union {NoRequest}]
      /\ response \in [Requests -> Response]
  BY DEF TypeOK, Places
<1>1. CASE UNCHANGED allElse
  <2>1. ASSUME NEW r \in Requests \ overlapped PROVE HarvestAt(r)'
    BY <1>1, HarvestIfKept DEF OwnHarvest, allElse, harvester, task, db
  <2> QED BY <1>1, <2>1 DEF OwnHarvest, allElse
<1>2. ASSUME NEW s \in Requests, SetRequest(s) \/ RejectType(s) PROVE OwnHarvest'
  <2>1. /\ overlapped \subseteq overlapped' /\ pc'[s] \in {"submit", "done"}
        /\ UNCHANGED <<current, collected, task, service>>
    BY <1>0, <1>2 DEF SetRequest, RejectType, Goto, harvester, db
  <2>2. ASSUME NEW r \in Requests, r # s
        PROVE  pc'[r] = pc[r] /\ url'[r] = url[r] /\ response'[r] = response[r]
    BY <1>0, <1>2, <2>2 DEF SetRequest, RejectType, Goto
  <2>3. HarvestAt(s)'
    BY <2>1 DEF HarvestAt, Running, Located, Looping, Filling
  <2>4. ASSUME NEW r \in Requests \ overlapped, r # s PROVE HarvestAt(r)'
    BY <2>1, <2>2, <2>4, HarvestIfKept DEF OwnHarvest, task
  <2> QED BY <2>1, <2>3, <2>4 DEF OwnHarvest
<1>3. ASSUME NEW s \in Requests, Step(s) PROVE OwnHarvest'
  <2>1. PICK label \in Places : pc' = [pc EXCEPT ![s] = label]
    BY <1>3, StepFrames DEF Frame
  <2>2. UNCHANGED <<type, url, overlapped>> /\ service \subseteq service'
    BY <1>3, StepFrames, ServicesStay DEF Frame
  <2>3. ASSUME NEW r \in Requests \ overlapped, r # s PROVE HarvestAt(r)'
    <3>1. /\ pc'[r] = pc[r] /\ uri'[r] = uri[r] /\ todo'[r] = todo[r] /\ into'[r] = into[r]
          /\ response'[r] = response[r]
      BY <1>0, <1>3, <2>1, <2>3, StepFrames DEF Frame
    <3>2. ASSUME pc[r] \in Looping PROVE UNCHANGED <<collected, current>>
      <4>1. InUse(r) /\ type[r] = "SOS"
        BY <3>2 DEF Looping, Filling, InUse, Running, Placed, PlacedAt
      <4> QED BY <1>3, <2>3, <4>1, OthersLeaveAlone
    <3> QED BY <2>2, <3>1, <3>2, HarvestIfKept DEF OwnHarvest
  <2>4. ASSUME s \notin overlapped PROVE HarvestAt(s)'
    BY <1>3, <2>4, CapabilitiesHarvest, LoopHarvest DEF Step, OwnHarvest
  <2> QED BY <2>2, <2>3, <2>4 DEF OwnHarvest
<1> QED BY <1>1, <1>2, <1>3, NextCases

-----------------------------------------------------------------------------
(* The report of a request that is alone *)

\* A task fills the collections it took, or those at hand.
LEMMA StepFills ==
  ASSUME TypeOK, QueueOfWaiting, NEW s \in Requests, Step(s), pc'[s] \in Filling
  PROVE  (pc[s] \in Filling /\ into'[s] = into[s]) \/ into'[s] = current
<1> USE DEF Goto, Filling, Throw
<1>0. pc \in [Requests -> Places] /\ into \in [Requests -> CollectionIds]
  BY DEF TypeOK, Places
<1>1. ~Submit(s) /\ ~Answer(s) /\ ~StartTask(s)
  BY <1>0 DEF Submit, Answer, StartTask
<1>2. ~NameService(s) /\ ~FailSps(s) /\ ~ResolveUri(s)
  BY <1>0 DEF NameService, FailSps, ResolveUri
<1>3. ~RequestCapabilities(s) /\ ~AddService(s)
  BY <1>0 DEF RequestCapabilities, AddService
<1>4. ~FillResponse(s) /\ ~Reset(s)
  BY <1>0 DEF FillResponse, Reset
<1>5. CASE TakeProcedure(s)
  BY <1>0, <1>5 DEF TakeProcedure
<1>6. CASE DescribeSensor(s) \/ BeginInsertSensor(s) \/ EndInsertSensor(s)
  BY <1>6 DEF DescribeSensor, BeginInsertSensor, EndInsertSensor
<1> QED BY <1>1, <1>2, <1>3, <1>4, <1>5, <1>6 DEF Step

\* A report stays what it is while its request's variables are left alone, and so
\* are the collections it refers to.
LEMMA ReportIfKept ==
  ASSUME NEW r \in Requests, ReportAt(r), current \in Nat, current' \in Nat, response[r].collections \in Nat,
         url'[r] = url[r], pc'[r] = pc[r], response'[r] = response[r], written'[r] = written[r],
         pc[r] \in {"reset"} \union Over =>
           collected'[response[r].collections] = collected[response[r].collections],
         pc[r] \in Over => current <= current' /\ StillFilling(response[r].collections)' = {}
  PROVE  ReportAt(r)'
<1> DEFINE c == response[r].collections
<1>1. c' = c
  OBVIOUS
<1>2. CASE pc[r] \in {"reset"} \union Over
  <2>1. collected'[c] = collected[c]
    BY <1>2
  <2>2. Reports(r, c)' = Reports(r, c)
    BY <1>1, <2>1 DEF Reports, Accounts, Offered, Elements
  <2>3. Reports(r, c)
    BY <1>2 DEF ReportAt
  <2>4. ASSUME pc[r] \in Over PROVE c < current' /\ StillFilling(c)' = {}
    <3>1. c < current /\ current <= current'
      BY <2>4 DEF ReportAt
    <3>2. \A a, b, d \in Nat : a < b /\ b <= d => a < d
      OBVIOUS
    <3> QED BY <2>4, <3>1, <3>2
  <2>5. pc[r] = "answered" => written'[r] = collected'[c]
    BY <2>1 DEF ReportAt
  <2> QED BY <1>1, <2>2, <2>3, <2>4, <2>5 DEF ReportAt
<1>3. CASE pc[r] \notin {"reset"} \union Over
  BY <1>3 DEF ReportAt, Over
<1> QED BY <1>2, <1>3

\* The step of another request.
LEMMA OthersReport ==
  ASSUME TypeOK, QueueOfWaiting, Placed, OverlapsKnown, TypeOK',
         NEW r \in Requests \ overlapped, ReportAt(r), ~response[r].exception,
         NEW s \in Requests \ {r}, Step(s)
  PROVE  ReportAt(r)'
<1>0. /\ pc \in [Requests -> Places] /\ response \in [Requests -> Response]
      /\ current \in Nat /\ current' \in Nat
      /\ into \in [Requests -> CollectionIds] /\ collected \in [CollectionIds -> Collections]
  BY RequestsAssumption, FS_CardinalityType DEF TypeOK, Places, CollectionIds
<1>1. PICK label \in Places : pc' = [pc EXCEPT ![s] = label]
  BY StepFrames DEF Frame
<1>2. /\ UNCHANGED <<type, url>> /\ pc'[r] = pc[r] /\ response'[r] = response[r]
      /\ written'[r] = written[r]
      /\ \A q \in Requests \ {s} : pc'[q] = pc[q] /\ into'[q] = into[q]
  BY <1>0, <1>1, StepFrames DEF Frame
<1>3. ASSUME pc[r] = "reset" PROVE collected' = collected
  <2>1. InUse(r) /\ type[r] = "SOS"
    BY <1>3 DEF InUse, Running, Placed, PlacedAt
  <2> QED BY <2>1, OthersLeaveAlone
<1> DEFINE c == response[r].collections
<1>4. c \in CollectionIds /\ c \in Nat
  BY <1>0, RequestsAssumption, FS_CardinalityType DEF Response, CollectionIds
<1>5. ASSUME pc[r] \in Over
      PROVE  collected'[c] = collected[c] /\ current <= current' /\ StillFilling(c)' = {}
  <2>1. c < current /\ StillFilling(c) = {}
    BY <1>5 DEF ReportAt
  <2>2. collected'[c] = collected[c]
    <3>1. CASE collected' # collected
      <4>1. pc[s] \in Filling /\ \E contents : collected' = [collected EXCEPT ![into[s]] = contents]
        BY <3>1, StepCollects
      <4>2. into[s] # c
        BY <2>1, <4>1 DEF StillFilling, Filling
      <4> QED BY <1>0, <4>1, <4>2
    <3> QED BY <3>1
  <2>3. current <= current'
    BY <1>0, StepCollects DEF Reset
  <2>4. ASSUME NEW q \in Requests, pc'[q] \in Filling PROVE into'[q] # c
    <3>1. CASE q = s
      <4>1. (pc[s] \in Filling /\ into'[s] = into[s]) \/ into'[s] = current
        BY <2>4, <3>1, StepFills
      <4>2. c # current
        BY <1>0, <1>4, <2>1
      <4> QED BY <2>1, <3>1, <4>1, <4>2 DEF StillFilling, Filling
    <3>2. CASE q # s
      BY <1>2, <2>1, <2>4, <3>2 DEF StillFilling, Filling
    <3> QED BY <3>1, <3>2
  <2>5. c' = c
    BY <1>2
  <2>6. StillFilling(c)' = {}
    BY <2>4, <2>5 DEF StillFilling, Filling
  <2> QED BY <2>2, <2>3, <2>6
<1> QED BY <1>0, <1>2, <1>3, <1>4, <1>5, ReportIfKept

\* The own step of the request.
LEMMA OwnStepReports ==
  ASSUME TypeOK, QueueOfWaiting, CollectionsNumbered, Placed, OverlapsKnown, TypeOK',
         NEW r \in Requests \ overlapped, HarvestAt(r), ~response[r].exception => ReportAt(r),
         Step(r), ~response'[r].exception
  PROVE  ReportAt(r)'
<1>0. /\ pc \in [Requests -> Places] /\ response \in [Requests -> Response]
      /\ written \in [Requests -> Collections]
      /\ current \in Nat /\ current' \in Nat /\ PlacedAt(r)
  BY RequestsAssumption, FS_CardinalityType DEF TypeOK, Places, CollectionIds, Placed
<1> USE DEF Goto, task, harvester, db
<1>1. ASSUME pc'[r] \notin {"reset"} \union Over PROVE ReportAt(r)'
  BY <1>1 DEF ReportAt, Over
<1>2. ~Throw(r)
  BY <1>0 DEF Throw, Response
<1>3. CASE Answer(r)
  <2>1. /\ pc[r] = "done" /\ UNCHANGED <<type, url, response, current, collected>>
        /\ pc'[r] \in {"answered", "emptyBody"}
        /\ pc'[r] = "answered" => written'[r] = collected[response[r].collections]
    BY <1>0, <1>3 DEF Answer
  <2>2. ReportAt(r)
    BY <2>1
  <2>3. Reports(r, response[r].collections)' = Reports(r, response[r].collections)
    BY <2>1 DEF Reports, Accounts, Offered, Elements
  <2>4. StillFilling(response[r].collections)' \subseteq StillFilling(response[r].collections)
    BY <1>0, <1>3 DEF Answer, StillFilling
  <2> QED BY <2>1, <2>2, <2>3, <2>4 DEF ReportAt, Over
<1>4. CASE FillResponse(r)
  <2>1. /\ pc[r] = "next" /\ todo[r] = <<>> /\ pc'[r] = "reset"
        /\ UNCHANGED <<type, url, current, collected>>
    BY <1>0, <1>2, <1>4 DEF FillResponse
  <2>2. response' = [response EXCEPT ![r] =
                          [@ EXCEPT !.collections = current,
                                    !.inserted = Cardinality(collected[current].inserted),
                                    !.failed = Cardinality(collected[current].failed)]]
    BY <1>2, <1>4 DEF FillResponse
  <2>3. /\ response'[r].collections = current
        /\ response'[r].inserted = Cardinality(collected[current].inserted)
        /\ response'[r].failed = Cardinality(collected[current].failed)
        /\ response'[r].serviceUrl = response[r].serviceUrl
        /\ response'[r].found = response[r].found
    BY <1>0, <2>2 DEF Response
  <2>4. /\ response[r].serviceUrl = url[r] /\ Accounts(r, current, <<>>) /\ url[r] \in Urls
        /\ response[r].found + Len(<<>>) = Len(Offers[url[r]]) + 0
    BY <1>0, <2>1 DEF HarvestAt, PlacedAt, Running, Looping
  <2>5. response[r].found = Len(Offers[url[r]])
    <3>1. response[r].found \in Nat /\ Len(Offers[url[r]]) \in Nat
      BY <1>0, <2>4, OffersAssumption, LenProperties DEF Response
    <3>2. response[r].found + 0 = Len(Offers[url[r]]) + 0
      BY <2>4, ElementsOfNone
    <3>3. \A a, b \in Nat : a + 0 = b + 0 => a = b
      OBVIOUS
    <3> QED BY <3>1, <3>2, <3>3
  <2>6. Accounts(r, current, <<>>)' = Accounts(r, current, <<>>)
    BY <2>1 DEF Accounts, Offered, Elements
  <2>7. Reports(r, current)'
    BY <2>1, <2>3, <2>4, <2>5, <2>6 DEF Reports
  <2>8. Reports(r, response[r].collections)'
    BY <2>1, <2>3, <2>7
  <2> QED BY <2>1, <2>8 DEF ReportAt, Over
<1>5. CASE Reset(r)
  <2>1. /\ pc[r] = "reset" /\ pc'[r] = "done" /\ UNCHANGED <<type, url, response, collected, into>>
    BY <1>0, <1>5 DEF Reset
  <2>2. ReportAt(r) /\ type[r] = "SOS" /\ InUse(r)
    BY <1>0, <2>1 DEF PlacedAt, InUse, Running
  <2>3. Reports(r, response[r].collections)' = Reports(r, response[r].collections)
    BY <2>1 DEF Reports, Accounts, Offered, Elements
  <2>4. response[r].collections < current'
    <3>1. response[r].collections <= current /\ current' = current + 1
      BY <1>5, <2>2 DEF CollectionsNumbered, Reset
    <3>2. response[r].collections \in Nat
      BY <1>0, RequestsAssumption, FS_CardinalityType DEF Response, CollectionIds
    <3> QED BY <1>0, <3>1, <3>2
  <2>5. ASSUME NEW q \in Requests PROVE pc'[q] \notin Filling
    <3>1. CASE q = r
      BY <2>1, <3>1 DEF Filling
    <3>2. CASE q # r
      <4>1. pc'[q] = pc[q]
        BY <1>0, <1>5, <3>2 DEF Reset
      <4>2. ~(InUse(q) /\ type[q] = "SOS")
        BY <2>2, <3>2, AloneHasNoRivals
      <4> QED BY <4>1, <4>2 DEF Filling, InUse, Running, Placed, PlacedAt
    <3> QED BY <3>1, <3>2
  <2>6. StillFilling(response[r].collections)' = {}
    BY <2>5 DEF StillFilling, Filling
  <2> QED BY <2>1, <2>2, <2>3, <2>4, <2>6 DEF ReportAt, Over
<1>6. CASE Submit(r) \/ StartTask(r)
  <2>1. pc'[r] \in {"queued", "url"}
    BY <1>0, <1>6 DEF Submit, StartTask
  <2> QED BY <1>1, <2>1 DEF Over
<1>7. CASE NameService(r) \/ FailSps(r) \/ ResolveUri(r)
  <2>1. pc'[r] \in {"uri", "capabilities"}
    BY <1>0, <1>2, <1>7 DEF NameService, FailSps, ResolveUri
  <2> QED BY <1>1, <2>1 DEF Over
<1>8. CASE RequestCapabilities(r) \/ AddService(r)
  <2>1. pc'[r] \in {"service", "next"}
    BY <1>0, <1>2, <1>8 DEF RequestCapabilities, AddService, Response
  <2> QED BY <1>1, <2>1 DEF Over
<1>9. CASE TakeProcedure(r) \/ DescribeSensor(r) \/ BeginInsertSensor(r) \/ EndInsertSensor(r)
  <2>1. pc'[r] \in Looping
    BY <1>0, <1>2, <1>9 DEF TakeProcedure, DescribeSensor, BeginInsertSensor, EndInsertSensor,
                            CollectFailed, CollectInserted, Collect, Looping, Filling
  <2> QED BY <1>1, <2>1 DEF Over, Looping, Filling
<1> QED BY <1>3, <1>4, <1>5, <1>6, <1>7, <1>8, <1>9 DEF Step

\* Every step keeps what is said of the report of a request that is alone.
LEMMA NextReport ==
  ASSUME TypeOK, QueueOfWaiting, CollectionsNumbered, Placed, OverlapsKnown, OwnHarvest,
         OwnReport, TypeOK', [Next]_vars
  PROVE  OwnReport'
<1>0. /\ pc \in [Requests -> Places] /\ url \in [Requests -> Urls \union {NoRequest}]
      /\ response \in [Requests -> Response] /\ current \in Nat /\ current' \in Nat
      /\ \A r \in Requests : response[r].collections \in Nat
  BY RequestsAssumption, FS_CardinalityType DEF TypeOK, Places, CollectionIds, Response
<1>1. CASE UNCHANGED allElse
  <2>1. /\ UNCHANGED <<current, collected, into>> /\ UNCHANGED <<pc, url, response, written, overlapped>>
    BY <1>1 DEF allElse, harvester, task
  <2>2. \A r \in Requests : ReportAt(r)' = ReportAt(r)
    BY <2>1 DEF ReportAt, Reports, Accounts, Offered, Elements, StillFilling
  <2> QED BY <2>1, <2>2 DEF OwnReport
<1>2. ASSUME NEW s \in Requests, SetRequest(s) \/ RejectType(s) PROVE OwnReport'
  <2>1. /\ overlapped \subseteq overlapped' /\ UNCHANGED <<current, collected, into, written>>
        /\ pc'[s] \in {"submit", "done"}
        /\ pc'[s] = "done" => response'[s].exception
    BY <1>0, <1>2 DEF SetRequest, RejectType, Goto, harvester, db, task, Response
  <2>2. ASSUME NEW r \in Requests, r # s
        PROVE  pc'[r] = pc[r] /\ url'[r] = url[r] /\ response'[r] = response[r]
    BY <1>0, <1>2, <2>2 DEF SetRequest, RejectType, Goto
  <2>3. ASSUME NEW r \in Requests \ overlapped, r # s, ~response'[r].exception PROVE ReportAt(r)'
    <3>1. ReportAt(r)
      BY <2>2, <2>3 DEF OwnReport
    <3>2. ASSUME NEW q \in Requests, pc'[q] \in {"describe", "insert", "insertEnd"}
          PROVE  pc'[q] = pc[q] /\ into'[q] = into[q]
      BY <2>1, <2>2, <3>2
    <3>3. pc[r] \in Over => StillFilling(response[r].collections)' = {}
      BY <2>2, <2>3, <3>1, <3>2 DEF ReportAt, StillFilling
    <3> QED BY <1>0, <2>1, <2>2, <2>3, <3>1, <3>3, ReportIfKept
  <2>4. ~response'[s].exception => ReportAt(s)'
    BY <2>1 DEF ReportAt, Over
  <2> QED BY <2>1, <2>3, <2>4 DEF OwnReport
<1>3. ASSUME NEW s \in Requests, Step(s) PROVE OwnReport'
  <2>1. overlapped' = overlapped /\ \A r \in Requests \ {s} : response'[r] = response[r]
    BY <1>3, StepFrames DEF Frame
  <2>2. ASSUME NEW r \in Requests \ overlapped, ~response'[r].exception PROVE ReportAt(r)'
    <3>1. CASE r = s
      BY <1>3, <2>2, <3>1, OwnStepReports DEF OwnReport, OwnHarvest
    <3>2. CASE r # s
      BY <1>3, <2>1, <2>2, <3>2, OthersReport DEF OwnReport
    <3> QED BY <3>1, <3>2
  <2> QED BY <2>1, <2>2 DEF OwnReport
<1> QED BY <1>1, <1>2, <1>3, NextCases

-----------------------------------------------------------------------------
(* Rows *)

\* Only an INSERT that does not know a row of the sensor adds one.
LEMMA StepStores ==
  ASSUME TypeOK, NEW r \in Requests, Step(r)
  PROVE  \/ rows' = rows
         \/ /\ pc[r] = "insertEnd" /\ pc'[r] # "insertEnd" /\ absent[r]
            /\ rows' = rows \union {<<r, uri[r], Head(todo[r])>>}
<1> USE DEF db, Goto
<1>0. pc \in [Requests -> Places]
  BY DEF TypeOK, Places
<1>1. CASE Submit(r) \/ StartTask(r) \/ Answer(r)
  BY <1>1 DEF Submit, StartTask, Answer
<1>2. CASE NameService(r) \/ FailSps(r) \/ ResolveUri(r)
  BY <1>2 DEF NameService, FailSps, ResolveUri
<1>3. CASE RequestCapabilities(r) \/ AddService(r)
  BY <1>3 DEF RequestCapabilities, AddService
<1>4. CASE TakeProcedure(r) \/ FillResponse(r) \/ Reset(r)
  BY <1>4 DEF TakeProcedure, FillResponse, Reset
<1>5. CASE DescribeSensor(r) \/ BeginInsertSensor(r)
  BY <1>5 DEF DescribeSensor, BeginInsertSensor
<1>6. CASE EndInsertSensor(r)
  BY <1>0, <1>6 DEF EndInsertSensor, CollectFailed, CollectInserted, Collect
<1> QED BY <1>1, <1>2, <1>3, <1>4, <1>5, <1>6 DEF Step

\* A task that comes to the end of its INSERT without a row it knows, and one that
\* is there already.
LEMMA StepSubquery ==
  ASSUME TypeOK, QueueOfWaiting, NEW r \in Requests, Step(r), pc'[r] = "insertEnd", absent'[r]
  PROVE  Known(r) = {} /\ UNCHANGED <<rows, uri, todo>>
<1> USE DEF Goto, Throw, db, task
<1>0. pc \in [Requests -> Places] /\ absent \in [Requests -> BOOLEAN]
  BY DEF TypeOK, Places
<1>1. ~Submit(r) /\ ~Answer(r) /\ ~StartTask(r)
  BY <1>0 DEF Submit, Answer, StartTask
<1>2. ~NameService(r) /\ ~FailSps(r) /\ ~ResolveUri(r)
  BY <1>0 DEF NameService, FailSps, ResolveUri
<1>3. ~RequestCapabilities(r) /\ ~AddService(r)
  BY <1>0 DEF RequestCapabilities, AddService
<1>4. ~FillResponse(r) /\ ~Reset(r) /\ ~TakeProcedure(r) /\ ~EndInsertSensor(r)
  BY <1>0 DEF FillResponse, Reset, TakeProcedure, EndInsertSensor, CollectFailed,
              CollectInserted, Collect
<1>5. ~DescribeSensor(r)
  BY <1>0 DEF DescribeSensor, CollectFailed, Collect
<1>6. CASE BeginInsertSensor(r)
  BY <1>0, <1>6 DEF BeginInsertSensor, CollectFailed, Collect
<1> QED BY <1>1, <1>2, <1>3, <1>4, <1>5, <1>6 DEF Step

\* A row that an INSERT missed was written while both harvests were running.
LEMMA NextAbsent ==
  ASSUME TypeOK, QueueOfWaiting, Placed, OverlapsKnown, AbsentUnlessOverlapped, [Next]_vars
  PROVE  AbsentUnlessOverlapped'
<1>0. /\ pc \in [Requests -> Places] /\ rows \subseteq Requests \X Urls \X Procedures
  BY DEF TypeOK, Places
<1>1. CASE UNCHANGED allElse
  BY <1>1 DEF allElse, task, db, AbsentUnlessOverlapped, Known
<1>2. ASSUME NEW s \in Requests, SetRequest(s) \/ RejectType(s) PROVE AbsentUnlessOverlapped'
  <2>1. /\ UNCHANGED <<rows, uri, todo, absent>> /\ overlapped \subseteq overlapped'
        /\ pc'[s] \in {"submit", "done"} /\ \A q \in Requests \ {s} : pc'[q] = pc[q]
    BY <1>0, <1>2 DEF SetRequest, RejectType, Goto, db, task
  <2> QED BY <1>0, <2>1 DEF AbsentUnlessOverlapped, Known
<1>3. ASSUME NEW s \in Requests, Step(s) PROVE AbsentUnlessOverlapped'
  <2>1. PICK label \in Places : pc' = [pc EXCEPT ![s] = label]
    BY <1>3, StepFrames DEF Frame
  <2>2. /\ overlapped' = overlapped
        /\ \A q \in Requests \ {s} : uri'[q] = uri[q] /\ todo'[q] = todo[q] /\ absent'[q] = absent[q]
    BY <1>3, StepFrames DEF Frame
  <2>3. pc[s] # "idle" /\ pc'[s] # "idle"
    BY <1>3, StepPlaces DEF InUse, Running
  <2>4. ASSUME NEW x \in rows PROVE x[1] \in Requests /\ pc'[x[1]] # "idle"
    BY <1>0, <2>1, <2>3 DEF AbsentUnlessOverlapped
  <2>5. CASE rows' = rows
    <3>1. \A x \in rows' : pc'[x[1]] # "idle"
      BY <2>4, <2>5
    <3>2. ASSUME NEW q \in Requests, pc'[q] = "insertEnd", absent'[q], NEW x \in Known(q)'
          PROVE  {q, x[1]} \subseteq overlapped'
      <4>1. CASE q = s
        <5>1. Known(s) = {} /\ UNCHANGED <<uri, todo>>
          BY <1>3, <3>2, <4>1, StepSubquery
        <5> QED BY <2>5, <3>2, <4>1, <5>1 DEF Known
      <4>2. CASE q # s
        <5>1. pc[q] = "insertEnd" /\ absent[q] /\ x \in Known(q)
          BY <1>0, <2>1, <2>2, <2>5, <3>2, <4>2 DEF Known
        <5> QED BY <2>2, <5>1 DEF AbsentUnlessOverlapped
      <4> QED BY <4>1, <4>2
    <3> QED BY <3>1, <3>2 DEF AbsentUnlessOverlapped
  <2>6. CASE rows' # rows
    <3> DEFINE n == <<s, uri[s], Head(todo[s])>>
    <3>1. /\ pc[s] = "insertEnd" /\ pc'[s] # "insertEnd" /\ absent[s]
          /\ rows' = rows \union {n}
      BY <1>0, <1>3, <2>6, StepStores
    <3>2. n[1] = s
      OBVIOUS
    <3> HIDE DEF n
    <3>3. \A x \in rows' : pc'[x[1]] # "idle"
      BY <2>3, <2>4, <3>1, <3>2
    <3>4. ASSUME NEW q \in Requests, pc'[q] = "insertEnd", absent'[q], NEW x \in Known(q)'
          PROVE  {q, x[1]} \subseteq overlapped'
      <4>1. q # s /\ pc[q] = "insertEnd" /\ absent[q]
        BY <1>0, <2>1, <2>2, <3>1, <3>4
      <4>2. CASE x = n
        <5>1. /\ InUse(q) /\ InUse(s) /\ type[q] = "SOS" /\ type[s] = "SOS"
          BY <3>1, <4>1 DEF InUse, Running, Placed, PlacedAt
        <5>2. q \in overlapped /\ s \in overlapped
          BY <4>1, <5>1 DEF OverlapsKnown
        <5> QED BY <2>2, <3>2, <4>2, <5>2
      <4>3. CASE x # n
        <5>1. x \in Known(q)
          BY <2>2, <3>1, <3>4, <4>1, <4>3 DEF Known
        <5> QED BY <2>2, <4>1, <5>1 DEF AbsentUnlessOverlapped
      <4> QED BY <4>2, <4>3
    <3> QED BY <3>3, <3>4 DEF AbsentUnlessOverlapped
  <2> QED BY <2>5, <2>6
<1> QED BY <1>1, <1>2, <1>3, NextCases

\* The row of a harvest that is alone stays the only one of its document.
LEMMA NextStoresOnce ==
  ASSUME TypeOK, OwnHarvest, AbsentUnlessOverlapped, AloneStoresOnce, [Next]_vars
  PROVE  AloneStoresOnce'
<1>0. /\ pc \in [Requests -> Places] /\ rows \subseteq Requests \X Urls \X Procedures
      /\ url \in [Requests -> Urls \union {NoRequest}]
  BY DEF TypeOK, Places
<1>1. ASSUME rows' = rows, overlapped \subseteq overlapped', service \subseteq service',
             \A x \in rows : url'[x[1]] = url[x[1]]
      PROVE  AloneStoresOnce'
  BY <1>1 DEF AloneStoresOnce
<1>2. CASE UNCHANGED allElse
  BY <1>1, <1>2 DEF allElse, db
<1>3. ASSUME NEW s \in Requests, SetRequest(s) \/ RejectType(s) PROVE AloneStoresOnce'
  <2>1. /\ UNCHANGED <<rows, service>> /\ overlapped \subseteq overlapped' /\ pc[s] = "idle"
        /\ \A q \in Requests \ {s} : url'[q] = url[q]
    BY <1>0, <1>3 DEF SetRequest, RejectType, db
  <2>2. \A x \in rows : x[1] \in Requests \ {s}
    BY <1>0, <2>1 DEF AbsentUnlessOverlapped
  <2> QED BY <1>1, <2>1, <2>2
<1>4. ASSUME NEW s \in Requests, Step(s) PROVE AloneStoresOnce'
  <2>1. UNCHANGED <<overlapped, url>> /\ service \subseteq service'
    BY <1>4, StepFrames, ServicesStay DEF Frame
  <2>2. CASE rows' = rows
    BY <1>1, <2>1, <2>2
  <2>3. CASE rows' # rows
    <3> DEFINE n == <<s, uri[s], Head(todo[s])>>
    <3>1. pc[s] = "insertEnd" /\ absent[s] /\ rows' = rows \union {n}
      BY <1>0, <1>4, <2>3, StepStores
    <3>2. n[1] = s /\ n[2] = uri[s] /\ n[3] = Head(todo[s])
      OBVIOUS
    <3> HIDE DEF n
    <3>3. ASSUME NEW y \in rows, y[2] = n[2], y[3] = n[3]
          PROVE  s \in overlapped /\ y[1] \in overlapped
      <4>1. y \in Known(s)
        BY <3>2, <3>3 DEF Known
      <4> QED BY <3>1, <4>1 DEF AbsentUnlessOverlapped
    <3>4. s \notin overlapped => uri[s] = url[s] /\ url[s] \in service
      BY <3>1 DEF OwnHarvest, HarvestAt, Located, Looping, Filling
    <3>5. ASSUME NEW x \in rows', x[1] \notin overlapped
          PROVE  /\ x[2] = url[x[1]] /\ x[2] \in service
                 /\ \A y \in rows' : y[2] = x[2] /\ y[3] = x[3] => y = x
      <4>1. CASE x = n
        BY <3>1, <3>2, <3>3, <3>4, <3>5, <4>1
      <4>2. CASE x # n
        <5>1. x \in rows /\ x[2] = url[x[1]] /\ x[2] \in service
          BY <3>1, <3>5, <4>2 DEF AloneStoresOnce
        <5>2. ASSUME NEW y \in rows', y[2] = x[2], y[3] = x[3] PROVE y = x
          <6>1. CASE y = n
            BY <3>3, <3>5, <5>1, <5>2, <6>1
          <6>2. CASE y # n
            BY <3>1, <3>5, <5>1, <5>2, <6>2 DEF AloneStoresOnce
          <6> QED BY <6>1, <6>2
        <5> QED BY <5>1, <5>2
      <4> QED BY <4>1, <4>2
    <3> QED BY <2>1, <3>5 DEF AloneStoresOnce
  <2> QED BY <2>2, <2>3
<1> QED BY <1>2, <1>3, <1>4, NextCases

-----------------------------------------------------------------------------
(* The theorems *)

LEMMA InitInductive == Init => Inductive
<1> SUFFICES ASSUME Init PROVE Inductive
  OBVIOUS
<1>0. CollectionIds \subseteq Nat /\ 0 \in CollectionIds /\ Cardinality(RequestsOver) \in Nat
  <2>1. IsFiniteSet(RequestsOver)
    BY RequestsAssumption, FS_Subset DEF RequestsOver
  <2> QED BY <2>1, RequestsAssumption, FS_CardinalityType DEF CollectionIds
<1>1. Empty \in Collections /\ IsFiniteSet(Empty.inserted) /\ IsFiniteSet(Empty.failed)
  BY FS_EmptySet DEF Empty, Collections
<1>2. [exception |-> FALSE, serviceUrl |-> NoRequest, found |-> 0, collections |-> 0,
       inserted |-> 0, failed |-> 0] \in Response
  BY <1>0 DEF Response
<1>3. \A r \in Requests : pc[r] = "idle" /\ response[r].collections = 0 /\ response[r].found = 0
  BY DEF Init
<1>4. TypeOK
  BY <1>0, <1>1, <1>2, PoolAssumption DEF Init, TypeOK, Harvesters
<1>5. QueueOfWaiting
  BY LenProperties DEF Init, QueueOfWaiting
<1>6. CollectionsNumbered
  BY <1>0, <1>1, <1>3 DEF Init, CollectionsNumbered
<1>7. Placed
  BY <1>3 DEF Init, Placed, PlacedAt, InUse, Running, Over, Located, Looping, Filling, Harvesters
<1>8. OverlapsKnown
  BY <1>3 DEF OverlapsKnown, InUse, Running
<1>9. CollectionsClean
  BY <1>0 DEF Init, CollectionsClean
<1>10. OwnHarvest
  BY <1>3 DEF OwnHarvest, HarvestAt, Running, Located, Looping, Filling
<1>11. OwnReport
  BY <1>3 DEF OwnReport, ReportAt, Over
<1>12. AbsentUnlessOverlapped /\ AloneStoresOnce
  BY <1>3 DEF Init, AbsentUnlessOverlapped, AloneStoresOnce
<1> QED BY <1>4, <1>5, <1>6, <1>7, <1>8, <1>9, <1>10, <1>11, <1>12 DEF Inductive

LEMMA NextInductive == Inductive /\ [Next]_vars => Inductive'
<1> SUFFICES ASSUME Inductive, [Next]_vars PROVE Inductive'
  OBVIOUS
<1>1. TypeOK'
  BY NextType
<1>2. QueueOfWaiting' /\ Placed' /\ OverlapsKnown'
  BY NextQueue, NextPlaced, NextOverlaps DEF Inductive
<1>3. CollectionsNumbered' /\ CollectionsClean'
  BY <1>1, NextNumbered, NextClean DEF Inductive
<1>4. OwnHarvest' /\ OwnReport'
  BY <1>1, NextHarvest, NextReport DEF Inductive
<1>5. AbsentUnlessOverlapped' /\ AloneStoresOnce'
  BY NextAbsent, NextStoresOnce DEF Inductive
<1> QED BY <1>1, <1>2, <1>3, <1>4, <1>5 DEF Inductive

\* In every run of the listener, its pool and its harvesters: each harvest that
\* has the harvester for itself accounts, at every point of call(), for the
\* procedures it has gone through and those left; reset() hands out collections
\* that no running harvest fills and that are empty; and an INSERT misses a row
\* only of a harvest it overlaps with.
THEOREM InductiveHolds == Spec => []Inductive
BY InitInductive, NextInductive, PTL DEF Spec

\* The variables of the listener, the tasks and the database have their types: the
\* URI of a task and the service URL of a response are always of a request, and
\* reset() is called no more often than there are requests.
THEOREM TypeCorrect == Spec => []TypeOK
<1>1. Inductive => TypeOK
  BY DEF Inductive
<1> QED BY <1>1, InductiveHolds, PTL

\* However many requests and pool threads there are: a request whose harvester no
\* other request touched between setRequest() and the end of reset() is answered
\* with exactly its own harvest, each procedure of its capabilities in it.
THEOREM OwnHarvestReported == Spec => []AloneReportsOwnHarvest
<1>1. Inductive => AloneReportsOwnHarvest
  <2> SUFFICES ASSUME Inductive, NEW r \in Requests, Responded(r), r \notin overlapped
               PROVE  /\ response[r].serviceUrl = url[r]
                      /\ response[r].found = Len(Offers[url[r]])
                      /\ written[r].failed \union Processed(r) = Offered(r)
                      /\ \A x \in written[r].inserted : x[1] = r
                      /\ response[r].inserted = Cardinality(written[r].inserted)
                      /\ response[r].failed = Cardinality(written[r].failed)
    BY DEF AloneReportsOwnHarvest
  <2> DEFINE c == response[r].collections
  <2>1. ReportAt(r) /\ pc[r] = "answered"
    BY DEF Inductive, OwnReport, Responded
  <2>2. Reports(r, c) /\ written[r] = collected[c]
    BY <2>1 DEF ReportAt, Over
  <2>3. collected[c].failed \union {x[2] : x \in collected[c].inserted} = Offered(r)
    BY <2>2, ElementsOfNone DEF Reports, Accounts
  <2>4. \A x \in collected[c].inserted : x[1] = r
    BY <2>2 DEF Reports, Accounts
  <2> QED BY <2>2, <2>3, <2>4 DEF Reports, Processed
<1> QED BY <1>1, InductiveHolds, PTL

\* The row that a harvest stores while it is alone is under its own service's URL
\* and stays the only row of its document, whatever harvests run later and however
\* many of them share the harvester.
THEOREM StoredOnce == Spec => []AloneStoresOnce
<1>1. Inductive => AloneStoresOnce
  BY DEF Inductive
<1> QED BY <1>1, InductiveHolds, PTL

-----------------------------------------------------------------------------
(* Extents of harvested sensors *)

\* The least of a few numbers, and the greatest.
LEMMA LeastAndGreatest ==
  ASSUME NEW S, S \subseteq Int, NEW x \in S
  PROVE  /\ (\A y \in S : x <= y) => Min(S) = x
         /\ (\A y \in S : x >= y) => Max(S) = x
<1>1. ASSUME \A y \in S : x <= y PROVE Min(S) = x
  <2>1. \A z \in S : (\A y \in S : z <= y) <=> z = x
    BY <1>1
  <2> QED BY <2>1 DEF Min
<1>2. ASSUME \A y \in S : x >= y PROVE Max(S) = x
  <2>1. \A z \in S : (\A y \in S : z >= y) <=> z = x
    BY <1>2
  <2> QED BY <2>1 DEF Max
<1> QED BY <1>1, <1>2

\* The same of two numbers.
LEMMA LeastAndGreatestOfTwo ==
  ASSUME NEW a \in Int, NEW b \in Int, a <= b
  PROVE  /\ Min({a, b}) = a /\ Min({b, a}) = a
         /\ Max({a, b}) = b /\ Max({b, a}) = b
<1>1. {a, b} \subseteq Int /\ {a, b} = {b, a}
  OBVIOUS
<1>2. (\A y \in {a, b} : a <= y) /\ (\A y \in {a, b} : b >= y)
  OBVIOUS
<1>3. Min({a, b}) = a /\ Max({a, b}) = b
  BY <1>1, <1>2, LeastAndGreatest
<1> QED BY <1>1, <1>3

\* The greatest of three, as the search seeks it.
LEMMA GreatestOfThree ==
  ASSUME NEW a \in Int, NEW b \in Int, NEW c \in Int, a <= b, c <= b
  PROVE  Max({c} \union {b, a}) = b
<1>1. {c} \union {b, a} \subseteq Int /\ b \in {c} \union {b, a}
  OBVIOUS
<1>2. \A y \in {c} \union {b, a} : b >= y
  OBVIOUS
<1> QED BY <1>1, <1>2, LeastAndGreatest

\* The numbers that decoding and searching yield for an envelope.
FoundBox(e) ==
  [east |-> e.lower[1], south |-> e.lower[2],
   west |-> IF e.upper[1] >= MinValue THEN e.upper[1] ELSE MinValue,
   north |-> IF e.upper[2] >= MinValue THEN e.upper[2] ELSE MinValue]

\* The box that is stored has these numbers, and they survive its polygon.
LEMMA BoxFound ==
  ASSUME NEW e \in Envelope
  PROVE  /\ Union(EmptyBox, BoxOf(e)) = FoundBox(e)
         /\ BoxOfGeometry(Corners(FoundBox(e))) = FoundBox(e)
         /\ FoundBox(e) \in Box
<1>1. /\ Coordinates \subseteq Int /\ MaxValue \in Int
      /\ \A c \in Coordinates : c < MaxValue
      /\ e.lower[1] \in Coordinates /\ e.lower[2] \in Coordinates
      /\ e.upper[1] \in Coordinates /\ e.upper[2] \in Coordinates
      /\ e.lower[1] <= e.upper[1] /\ e.lower[2] <= e.upper[2]
  BY CoordinatesAssumption DEF Envelope
<1>2. PICK low \in Int, left \in Int, high \in Int, right \in Int :
        /\ {left, low, right, high} \subseteq Coordinates
        /\ left = e.lower[1] /\ low = e.lower[2] /\ right = e.upper[1] /\ high = e.upper[2]
        /\ left <= right /\ low <= high
  BY <1>1
<1>3. PICK west \in Int, north \in Int :
        /\ west = IF right >= 1 THEN right ELSE 1
        /\ north = IF high >= 1 THEN high ELSE 1
  OBVIOUS
<1>4. FoundBox(e) = [east |-> left, south |-> low, west |-> west, north |-> north]
  BY <1>2, <1>3 DEF FoundBox, MinValue
<1>5. left <= west /\ low <= north /\ 1 <= west /\ 1 <= north
  BY <1>2, <1>3
<1>6. Union(EmptyBox, BoxOf(e)) = FoundBox(e)
  <2>1. Min({MaxValue, left}) = left /\ Min({MaxValue, low}) = low
    BY <1>1, <1>2, LeastAndGreatestOfTwo
  <2>2. Max({1, right}) = west /\ Max({1, high}) = north
    <3>1. ASSUME NEW c \in Int, NEW x \in Int
          PROVE  Max({c, x}) = IF x >= c THEN x ELSE c
      <4>1. CASE c <= x
        BY <4>1, LeastAndGreatestOfTwo
      <4>2. CASE x <= c /\ x # c
        BY <4>2, LeastAndGreatestOfTwo
      <4> QED BY <4>1, <4>2
    <3> QED BY <1>3, <3>1
  <2> QED BY <1>2, <1>4, <2>1, <2>2
          DEF Union, EmptyBox, BoxOf, MinValue
<1>7. BoxOfGeometry(Corners(FoundBox(e))) = FoundBox(e)
  <2> DEFINE points == Corners(FoundBox(e))
  <2>1. points = {<<west, north>>, <<left, north>>, <<left, low>>, <<west, low>>}
    BY <1>4 DEF Corners
  <2>2. {p[1] : p \in points} = {west, left} /\ {p[2] : p \in points} = {north, low}
    BY <2>1
  <2>3. Min({west, left}) = left /\ Min({north, low}) = low
    BY <1>5, LeastAndGreatestOfTwo
  <2>4. Max({1} \union {west, left}) = west /\ Max({1} \union {north, low}) = north
    BY <1>5, GreatestOfThree
  <2> HIDE DEF points
  <2>5. BoxOfGeometry(points) =
          [east |-> left, south |-> low, west |-> west, north |-> north]
    BY <2>2, <2>3, <2>4 DEF BoxOfGeometry, MinValue
  <2> QED BY <1>4, <2>5 DEF points
<1>8. FoundBox(e) \in Box
  <2>1. {left, low, west, north} \subseteq Values
    BY <1>2, <1>3 DEF Values, MinValue
  <2> QED BY <1>4, <2>1 DEF Box
<1> QED BY <1>6, <1>7, <1>8

\* The box of an envelope is shown where it reaches over equator and meridian, and
\* covered elsewhere.
LEMMA FoundBoxCovers ==
  ASSUME NEW e \in Envelope
  PROVE  /\ NorthEastern(BoxOf(e)) => FoundBox(e) = BoxOf(e)
         /\ Covers(FoundBox(e), BoxOf(e))
BY CoordinatesAssumption DEF Envelope, NorthEastern,
       BoxOf, Covers, FoundBox, MinValue

-----------------------------------------------------------------------------
(* Every step keeps the inductive invariant of SensorExtent *)

\* A document has an envelope, and positions for its period.
LEMMA DocumentParts ==
  ASSUME ExtentTypeOK, NEW t \in Threads
  PROVE  /\ document[t].envelope \in Envelope
         /\ document[t].begin \in Positions /\ document[t].end \in Positions
         /\ None \notin Positions
BY DocumentsAssumption, NoneAssumption DEF Document, ExtentTypeOK,
       Positions

\* At the start nothing is decoded.
LEMMA ExtentStarts ==
  ASSUME ExtentInit
  PROVE  ExtentInductive
<1>1. EmptyBox \in Box
  BY DEF EmptyBox, Box, Values
<1>2. ExtentTypeOK
  BY <1>1 DEF ExtentInit, ExtentTypeOK
<1> QED BY <1>2 DEF ExtentInit, ExtentInductive, Decoded, OwnPeriod, Stored

\* The box comes from the envelope.
LEMMA DecodeBoxKeeps ==
  ASSUME ExtentInductive, NEW t \in Threads, DecodeBox(t)
  PROVE  ExtentInductive'
<1> USE DEF ExtentInductive, DecodeBox, GoOn
<1>1. Union(EmptyBox, BoxOf(document[t].envelope)) \in Box
  BY DocumentParts, BoxFound
<1>2. ExtentTypeOK'
  BY <1>1 DEF ExtentTypeOK
<1>3. Decoded'
  BY DEF ExtentTypeOK, Decoded, Described
<1>4. OwnPeriod'
  BY DEF ExtentTypeOK, OwnPeriod
<1>5. Stored'
  BY DEF ExtentTypeOK, Stored
<1> QED BY <1>2, <1>3, <1>4, <1>5

\* Whoever meets others in parse() disturbs them and is disturbed.
LEMMA EnterParseKeeps ==
  ASSUME ExtentInductive, NEW t \in Threads, EnterParse(t)
  PROVE  ExtentInductive'
<1> USE DEF ExtentInductive, EnterParse, GoOn
<1>1. disturbed \subseteq disturbed' /\ disturbed' \subseteq Threads
  BY DEF ExtentTypeOK
<1>2. ExtentTypeOK'
  BY <1>1 DEF ExtentTypeOK, Parsing
<1>3. Decoded'
  BY DEF ExtentTypeOK, Decoded, Described
<1>4. OwnPeriod'
  BY <1>1 DEF ExtentTypeOK, OwnPeriod
<1>5. Stored'
  BY DEF ExtentTypeOK, Stored
<1> QED BY <1>2, <1>3, <1>4, <1>5

\* Parsing yields a position, the one of the document if nothing disturbed it.
LEMMA ParsedPosition ==
  ASSUME NEW t \in Threads, NEW text \in Positions, NEW p \in Parsed(t, text)
  PROVE  p \in Positions /\ (t \notin disturbed => p = text)
BY DEF Parsed, Positions

\* The thread goes on with what parsing yields, or fails.
LEMMA LeaveParseKeeps ==
  ASSUME ExtentInductive, NEW t \in Threads, LeaveParse(t)
  PROVE  ExtentInductive'
<1> USE DEF ExtentInductive, GoOn
<1>1. ASSUME NEW p \in Positions, decoding[t] = "parseBegin",
             t \notin disturbed => p = document[t].begin,
             start' = [start EXCEPT ![t] = p], GoOn(t, "end"), UNCHANGED end,
             UNCHANGED <<document, box, row, result, disturbed>>
      PROVE  ExtentInductive'
  <2>1. ExtentTypeOK'
    BY <1>1 DEF ExtentTypeOK
  <2>2. Decoded'
    BY <1>1 DEF ExtentTypeOK, Decoded, Described
  <2>3. OwnPeriod'
    BY <1>1 DEF ExtentTypeOK, OwnPeriod
  <2>4. Stored'
    BY <1>1 DEF ExtentTypeOK, Stored
  <2> QED BY <2>1, <2>2, <2>3, <2>4
<1>2. ASSUME NEW p \in Positions, decoding[t] = "parseEnd",
             t \notin disturbed => p = document[t].end,
             end' = [end EXCEPT ![t] = p], GoOn(t, "insert"), UNCHANGED start,
             UNCHANGED <<document, box, row, result, disturbed>>
      PROVE  ExtentInductive'
  <2>1. ExtentTypeOK'
    BY <1>2 DEF ExtentTypeOK
  <2>2. Decoded'
    BY <1>2 DEF ExtentTypeOK, Decoded, Described
  <2>3. OwnPeriod'
    BY <1>2 DEF ExtentTypeOK, OwnPeriod
  <2>4. Stored'
    BY <1>2 DEF ExtentTypeOK, Stored
  <2> QED BY <2>1, <2>2, <2>3, <2>4
<1>3. ASSUME decoding[t] \in Parsing, GoOn(t, "failed"),
             UNCHANGED <<document, box, start, end, row, result, disturbed>>
      PROVE  ExtentInductive'
  <2>1. ExtentTypeOK'
    BY <1>3 DEF ExtentTypeOK
  <2>2. Decoded'
    BY <1>3 DEF ExtentTypeOK, Decoded, Described, Parsing
  <2>3. OwnPeriod'
    BY <1>3 DEF ExtentTypeOK, OwnPeriod
  <2>4. Stored'
    BY <1>3 DEF ExtentTypeOK, Stored, Parsing
  <2> QED BY <2>1, <2>2, <2>3, <2>4
<1>4. \A p : /\ p \in Parsed(t, document[t].begin) =>
                  p \in Positions /\ (t \notin disturbed => p = document[t].begin)
             /\ p \in Parsed(t, document[t].end) =>
                  p \in Positions /\ (t \notin disturbed => p = document[t].end)
  BY DocumentParts, ParsedPosition
<1> QED BY <1>1, <1>2, <1>3, <1>4 DEF LeaveParse

\* A sensor with a date for "now" is not stored; the others are, as they were decoded.
LEMMA InsertKeeps ==
  ASSUME ExtentInductive, NEW t \in Threads, Insert(t)
  PROVE  ExtentInductive'
<1> USE DEF ExtentInductive, GoOn
<1>1. CASE "now" \in {start[t], end[t]}
  <2>1. decoding[t] = "insert" /\ GoOn(t, "failed")
        /\ UNCHANGED <<document, box, start, end, row, result, disturbed>>
    BY <1>1 DEF Insert
  <2>2. ExtentTypeOK'
    BY <2>1 DEF ExtentTypeOK
  <2>3. Decoded'
    BY <2>1 DEF ExtentTypeOK, Decoded, Described
  <2>4. OwnPeriod'
    BY <2>1 DEF ExtentTypeOK, OwnPeriod
  <2>5. Stored'
    BY <2>1 DEF ExtentTypeOK, Stored
  <2> QED BY <2>2, <2>3, <2>4, <2>5
<1>2. CASE "now" \notin {start[t], end[t]}
  <2> DEFINE sensor == [box |-> box[t], from |-> DateText(start[t], "-infinity"),
                        to |-> DateText(end[t], "infinity")]
  <2>1. /\ decoding[t] = "insert" /\ GoOn(t, "stored")
        /\ row' = [row EXCEPT ![t] = sensor]
        /\ UNCHANGED <<document, box, start, end, result, disturbed>>
    BY <1>2 DEF Insert
  <2>2. /\ box[t] \in Box
        /\ DateText(start[t], "-infinity") \in Dates \union {"-infinity"}
        /\ DateText(end[t], "infinity") \in Dates \union {"infinity"}
    BY <1>2, <2>1 DEF ExtentTypeOK, Decoded, DateText, Positions,
                      Indeterminate
  <2>3. sensor \in [box : Box, from : Dates \union {"-infinity"},
                    to : Dates \union {"infinity"}]
    BY <2>2
  <2>4. ExtentTypeOK'
    <3> HIDE DEF sensor
    <3> QED BY <2>1, <2>3 DEF ExtentTypeOK
  <2>5. Decoded'
    BY <2>1 DEF ExtentTypeOK, Decoded, Described
  <2>6. OwnPeriod'
    BY <2>1 DEF ExtentTypeOK, OwnPeriod
  <2>7. Stored'
    BY <2>1 DEF ExtentTypeOK, Stored
  <2> QED BY <2>4, <2>5, <2>6, <2>7
<1> QED BY <1>1, <1>2

\* What is stored can be found.
LEMMA SearchKeeps ==
  ASSUME ExtentInductive, NEW t \in Threads, Search(t)
  PROVE  ExtentInductive'
<1> USE DEF ExtentInductive
<1>1. /\ decoding[t] = "stored"
      /\ result' = [result EXCEPT ![t] = BoxOfGeometry(Corners(box[t]))]
      /\ UNCHANGED <<document, decoding, box, start, end, row, disturbed>>
  <2>1. decoding[t] = "stored" /\ row[t].box = box[t]
    <3>1. decoding[t] = "stored"
      BY DEF Search
    <3>2. row[t] = [box |-> box[t], from |-> DateText(start[t], "-infinity"),
                    to |-> DateText(end[t], "infinity")]
      BY <3>1 DEF Stored
    <3> QED BY <3>1, <3>2
  <2> QED BY <2>1 DEF Search
<1>2. box[t] = FoundBox(document[t].envelope)
  BY <1>1, DocumentParts, BoxFound DEF Decoded, Described
<1>3. BoxOfGeometry(Corners(box[t])) \in Box
  BY <1>2, DocumentParts, BoxFound
<1>4. ExtentTypeOK'
  BY <1>1, <1>3 DEF ExtentTypeOK
<1>5. Decoded'
  BY <1>1 DEF Decoded, Described
<1>6. OwnPeriod'
  BY <1>1 DEF OwnPeriod
<1>7. Stored'
  BY <1>1 DEF ExtentTypeOK, Stored
<1> QED BY <1>4, <1>5, <1>6, <1>7

\* Every step keeps the invariant.
LEMMA ExtentGoesOn ==
  ASSUME ExtentInductive, [ExtentNext]_extentVars
  PROVE  ExtentInductive'
<1>1. ASSUME NEW t \in Threads,
             \/ DecodeBox(t) \/ EnterParse(t) \/ LeaveParse(t)
             \/ Insert(t) \/ Search(t)
      PROVE  ExtentInductive'
  BY <1>1, DecodeBoxKeeps, EnterParseKeeps, LeaveParseKeeps, InsertKeeps, SearchKeeps
<1>2. CASE UNCHANGED extentVars
  BY <1>2 DEF extentVars, ExtentInductive, ExtentTypeOK, Decoded, Described,
              OwnPeriod, Stored
<1> QED BY <1>1, <1>2 DEF ExtentNext, AllDecoded

\* Wherever the pool threads are with their documents, Inductive of SensorExtent holds.
THEOREM ExtentInductiveHolds == ExtentSpec => []ExtentInductive
<1>1. ExtentInit => ExtentInductive
  BY ExtentStarts
<1>2. ExtentInductive /\ [ExtentNext]_extentVars => ExtentInductive'
  BY ExtentGoesOn
<1> QED BY <1>1, <1>2, PTL DEF ExtentSpec

\* A search shows the box of the document where it reaches beyond equator and meridian,
\* and covers it elsewhere, for all coordinates.
THEOREM FoundWhereDescribedHolds == ExtentSpec => []FoundWhereDescribed
<1>1. ExtentInductive => FoundWhereDescribed
  <2> SUFFICES ASSUME ExtentInductive, NEW t \in Threads, result[t] # None
               PROVE  /\ NorthEastern(Described(t)) => result[t] = Described(t)
                      /\ Covers(result[t], Described(t))
    BY DEF FoundWhereDescribed
  <2>1. document[t].envelope \in Envelope
    BY DocumentParts DEF ExtentInductive
  <2>2. result[t] = FoundBox(document[t].envelope)
    BY <2>1, BoxFound DEF ExtentInductive, Stored, Decoded, Described
  <2> QED BY <2>1, <2>2, FoundBoxCovers DEF Described
<1> QED BY <1>1, ExtentInductiveHolds, PTL

\* A thread that parsed alone stored the period of its own document, with any number of
\* other threads before, after and between its two dates.
THEOREM StoredWhenDescribedHolds == ExtentSpec => []StoredWhenDescribed
<1>1. ExtentInductive => StoredWhenDescribed
  BY DEF ExtentInductive, ExtentTypeOK, OwnPeriod, Stored, StoredWhenDescribed
<1> QED BY <1>1, ExtentInductiveHolds, PTL

=============================================================================
