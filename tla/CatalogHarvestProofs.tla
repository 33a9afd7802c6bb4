------------------------ MODULE CatalogHarvestProofs ------------------------
(***************************************************************************)
(* For any number of requests, catalogues, platforms, days and pool        *)
(* threads: a harvest of a catalogue that has the harvester for itself     *)
(* accounts for each platform and stores it once a day.                    *)
(***************************************************************************)
EXTENDS CatalogHarvest, FiniteSetTheorems, SequenceTheorems, TLAPS

Places == {"idle", "submit", "queued"} \union Running \union Over

-----------------------------------------------------------------------------
(* Operators of the model *)

\* A list that is not empty consists of its head and the rest.
LEMMA ElementsOfTail ==
  ASSUME NEW S, NEW s \in Seq(S), s # <<>>
  PROVE  /\ Head(s) \in S /\ Tail(s) \in Seq(S)
         /\ Elements(s) = {Head(s)} \union Elements(Tail(s))
<1>1. /\ Head(s) \in S /\ Tail(s) \in Seq(S)
      /\ Len(Tail(s)) = Len(s) - 1 /\ Len(s) \in Nat \ {0}
      /\ \A i \in 1 .. Len(Tail(s)) : Tail(s)[i] = s[i + 1]
  BY HeadTailProperties, EmptySeq, LenProperties
<1>2. DOMAIN s = 1 .. Len(s) /\ DOMAIN Tail(s) = 1 .. Len(Tail(s)) /\ Head(s) = s[1]
  BY <1>1, LenProperties
<1>3. ASSUME NEW x \in Elements(s) PROVE x \in {Head(s)} \union Elements(Tail(s))
  <2>1. PICK i \in 1 .. Len(s) : x = s[i]
    BY <1>2, <1>3 DEF Elements
  <2>2. CASE i = 1
    BY <2>1, <2>2, <1>2
  <2>3. CASE i # 1
    <3>1. i - 1 \in 1 .. Len(Tail(s)) /\ Tail(s)[i - 1] = s[i]
      BY <1>1, <2>3
    <3> QED BY <3>1, <1>2, <2>1 DEF Elements
  <2> QED BY <2>2, <2>3
<1>4. ASSUME NEW x \in {Head(s)} \union Elements(Tail(s)) PROVE x \in Elements(s)
  <2>1. CASE x = Head(s)
    BY <1>1, <1>2, <2>1 DEF Elements
  <2>2. CASE x \in Elements(Tail(s))
    <3>1. PICK i \in 1 .. Len(Tail(s)) : x = Tail(s)[i]
      BY <1>2, <2>2 DEF Elements
    <3>2. i + 1 \in 1 .. Len(s) /\ x = s[i + 1]
      BY <1>1, <3>1
    <3> QED BY <3>2, <1>2 DEF Elements
  <2> QED BY <1>4, <2>1, <2>2
<1> QED BY <1>1, <1>3, <1>4

\* The empty list has no elements.
LEMMA ElementsOfNone == Elements(<<>>) = {}
BY DEF Elements

\* The numbers of collections, and what refers to them.
LEMMA NumbersOfCollections ==
  /\ CollectionIds \subseteq Nat /\ 0 \in CollectionIds
  /\ TypeOK => /\ current \in Nat
               /\ \A r \in Requests : into[r] \in Nat /\ response[r].collections \in Nat
               /\ \A r \in Requests : response[r].collections \in CollectionIds
<1>1. CollectionIds \subseteq Nat /\ 0 \in CollectionIds
  BY RequestsAssumption, FS_CardinalityType DEF CollectionIds
<1>2. ASSUME TypeOK
      PROVE  /\ current \in CollectionIds
             /\ \A r \in Requests : into[r] \in CollectionIds /\ response[r].collections \in CollectionIds
  BY <1>2 DEF TypeOK, Response
<1> QED BY <1>1, <1>2

\* The URL in the request that the harvester holds is one that a client named, and
\* that of the task at work if it is alone.
LEMMA RequestedUrlIs ==
  ASSUME TypeOK, Placed, OverlapsKnown, NEW r \in Requests, pc[r] # "idle"
  PROVE  /\ RequestedUrl \in Urls
         /\ InUse(r) /\ r \notin overlapped => RequestedUrl = url[r]
<1>1. request \in Requests /\ pc[request] # "idle"
  BY DEF TypeOK, Placed
<1> QED BY <1>1 DEF Placed, OverlapsKnown, RequestedUrl

\* A harvest that is alone has no rivals.
LEMMA AloneHasNoRivals ==
  ASSUME OverlapsKnown, NEW r \in Requests \ overlapped, InUse(r)
  PROVE  Rivals(r) = {} /\ \A q \in Requests \ {r} : ~InUse(q)
BY DEF OverlapsKnown, Rivals

\* The end of a platform's period is a day or the end of an ended platform.
LEMMA PlatformAndEnd ==
  ASSUME TypeOK, Placed, NEW r \in Requests, pc[r] \in AtPlatform
  PROVE  /\ Platform(r) \in Platforms /\ End(r) \in Ends
         /\ todo[r] # <<>> /\ todo[r] \in Seq(Platforms) /\ Tail(todo[r]) \in Seq(Platforms)
<1>1. todo[r] # <<>> /\ todo[r] \in Seq(Platforms) /\ asOf[r] \in Days
  BY DEF TypeOK, Placed
<1> QED BY <1>1, ElementsOfTail DEF Platform, End, Ends

-----------------------------------------------------------------------------
(* Which variables a step leaves alone *)

\* A step of the request r changes no other request's variables.
Frame(r) ==
  /\ UNCHANGED <<day, request, url, overlapped>>
  /\ \E label \in Places : pc' = [pc EXCEPT ![r] = label]
  /\ \A q \in Requests \ {r} :
       /\ source'[q] = source[q] /\ asOf'[q] = asOf[q] /\ todo'[q] = todo[q]
       /\ into'[q] = into[q] /\ absent'[q] = absent[q]
       /\ response'[q] = response[q] /\ written'[q] = written[q]

LEMMA StepFrames ==
  ASSUME TypeOK, NEW r \in Requests, Step(r)
  PROVE  Frame(r)
<1> USE DEF Frame, Goto, Places, Running, Over, TypeOK, harvester, task, db
<1>1. CASE Submit(r) \/ StartTask(r) \/ Answer(r)
  BY <1>1 DEF Submit, StartTask, Answer
<1>2. CASE NameService(r) \/ OpenCatalog(r)
  BY <1>2 DEF NameService, OpenCatalog, Throw
<1>3. CASE FillResponse(r) \/ Reset(r)
  BY <1>3 DEF FillResponse, Reset, Throw
<1>4. CASE EndPlatform(r) \/ AddService(r)
  BY <1>4 DEF EndPlatform, AddService, NextPlatform, Throw
<1>5. CASE BeginInsertSensor(r)
  BY <1>5 DEF BeginInsertSensor, NextPlatform, Throw
<1>6. CASE EndInsertSensor(r)
  BY <1>6 DEF EndInsertSensor, NextPlatform
<1> QED BY <1>1, <1>2, <1>3, <1>4, <1>5, <1>6 DEF Step

-----------------------------------------------------------------------------
(* Types *)

\* Before the last harvest is over there is room for one more reset().
LEMMA RoomForReset ==
  ASSUME NEW r \in Requests, pc[r] \notin Over
  PROVE  /\ Cardinality(Requests) \in Nat /\ Cardinality(RequestsOver) \in Nat
         /\ Cardinality(RequestsOver) + 1 <= Cardinality(Requests)
         /\ Cardinality(RequestsOver \union {r}) = Cardinality(RequestsOver) + 1
<1>1. IsFiniteSet(RequestsOver) /\ IsFiniteSet(RequestsOver \union {r})
  BY RequestsAssumption, FS_Subset, FS_AddElement DEF RequestsOver
<1>2. Cardinality(RequestsOver \union {r}) = Cardinality(RequestsOver) + 1
  BY <1>1, FS_AddElement DEF RequestsOver
<1>3. Cardinality(RequestsOver \union {r}) <= Cardinality(Requests)
  BY RequestsAssumption, FS_Subset DEF RequestsOver
<1> QED BY <1>1, <1>2, <1>3, RequestsAssumption, FS_CardinalityType

\* The number of the collections that reset() makes.
LEMMA ResetType ==
  ASSUME current \in CollectionIds, CollectionsNumbered, NEW r \in Requests, pc[r] = "reset"
  PROVE  current + 1 \in CollectionIds
<1>1. pc[r] \notin Over
  BY DEF Over
<1>2. /\ Cardinality(Requests) \in Nat /\ Cardinality(RequestsOver) \in Nat
      /\ Cardinality(RequestsOver) + 1 <= Cardinality(Requests)
  BY <1>1, RoomForReset
<1>3. current <= Cardinality(RequestsOver)
  BY DEF CollectionsNumbered
<1>4. current \in 0 .. Cardinality(Requests)
  BY DEF CollectionIds
<1>5. current + 1 \in 0 .. Cardinality(Requests)
  BY <1>2, <1>3, <1>4
<1> QED BY <1>5 DEF CollectionIds

\* A failed platform is put into the collections at hand.
LEMMA FailType ==
  ASSUME TypeOK, NEW r \in Requests, todo[r] # <<>>, Fail(r)
  PROVE  collected' \in [CollectionIds -> Collections]
<1>1. Platform(r) \in Platforms
  BY ElementsOfTail DEF TypeOK, Platform
<1>2. [collected[current] EXCEPT !.failed = @ \union {Platform(r)}] \in Collections
  BY <1>1 DEF TypeOK, Collections
<1> QED BY <1>2 DEF Fail, Collect, TypeOK

\* The list without its first platform, and the next place.
LEMMA NextPlatformType ==
  ASSUME TypeOK, NEW r \in Requests, todo[r] # <<>>, NextPlatform(r)
  PROVE  todo' \in [Requests -> Seq(Platforms)] /\ pc' \in [Requests -> Places]
<1>1. Tail(todo[r]) \in Seq(Platforms)
  BY ElementsOfTail DEF TypeOK
<1> QED BY <1>1 DEF NextPlatform, Goto, TypeOK, Places, Running

\* An exception is a response.
LEMMA ThrowType ==
  ASSUME TypeOK, NEW r \in Requests, Throw(r)
  PROVE  response' \in [Requests -> Response] /\ pc' \in [Requests -> Places]
<1>1. [response[r] EXCEPT !.exception = TRUE] \in Response
  BY DEF TypeOK, Response
<1> QED BY <1>1 DEF Throw, Goto, TypeOK, Places, Running

\* What FillResponse puts into the response.
LEMMA FilledType ==
  ASSUME TypeOK, CollectionsNumbered, NEW r \in Requests
  PROVE  [response[r] EXCEPT !.collections = current,
                             !.inserted = Cardinality(collected[current].inserted),
                             !.failed = Cardinality(collected[current].failed)] \in Response
<1>1. Cardinality(collected[current].inserted) \in Nat /\ Cardinality(collected[current].failed) \in Nat
  BY FS_CardinalityType DEF CollectionsNumbered, TypeOK
<1>2. current \in CollectionIds /\ response[r] \in Response
  BY DEF TypeOK
<1> QED BY <1>1, <1>2 DEF Response

\* Steps outside call() keep the types.
LEMMA ListenerType ==
  ASSUME TypeOK, NEW r \in Requests,
         SetRequest(r) \/ Submit(r) \/ StartTask(r) \/ Answer(r)
  PROVE  TypeOK'
<1> USE DEF TypeOK, Goto, Places, Running, Over, harvester, task, db
<1>1. CASE SetRequest(r)
  BY <1>1 DEF SetRequest, Rivals
<1>2. CASE Submit(r)
  <2>1. Append(queue, r) \in Seq(Requests)
    BY AppendProperties
  <2> QED BY <1>2, <2>1 DEF Submit
<1>3. CASE StartTask(r)
  <2>1. Tail(queue) \in Seq(Requests)
    BY <1>3, HeadTailProperties DEF StartTask
  <2> QED BY <1>3, <2>1 DEF StartTask
<1>4. CASE Answer(r)
  <2>1. Empty \in Collections /\ collected[response[r].collections] \in Collections
    BY DEF Empty, Collections, Response
  <2>2. written' \in [Requests -> Collections]
    BY <1>4, <2>1 DEF Answer
  <2>3. pc' \in [Requests -> Places]
    BY <1>4 DEF Answer
  <2> QED BY <1>4, <2>2, <2>3 DEF Answer
<1> QED BY <1>1, <1>2, <1>3, <1>4

\* A response stays one when a field changes.
LEMMA ResponseUpdate ==
  ASSUME NEW s \in Response
  PROVE  /\ [s EXCEPT !.exception = TRUE] \in Response
         /\ \A u \in Urls : [s EXCEPT !.serviceUrl = u] \in Response
<1>1. [s EXCEPT !.exception = TRUE] \in Response
  BY DEF Response
<1>2. ASSUME NEW u \in Urls PROVE [s EXCEPT !.serviceUrl = u] \in Response
  BY DEF Response
<1> QED BY <1>1, <1>2

\* Steps of call() that do not parse the catalogue keep the types.
LEMMA CallType ==
  ASSUME TypeOK, CollectionsNumbered, Placed, OverlapsKnown, NEW r \in Requests,
         NameService(r) \/ OpenCatalog(r) \/ FillResponse(r) \/ Reset(r)
  PROVE  TypeOK'
<1> USE DEF TypeOK, Goto, Places, Running, Over, harvester, task, db
<1>1. CASE NameService(r)
  <2>1. [response[r] EXCEPT !.serviceUrl = RequestedUrl] \in Response
    <3>1. RequestedUrl \in Urls
      BY <1>1, RequestedUrlIs DEF NameService
    <3> QED BY <3>1, ResponseUpdate
  <2> QED BY <1>1, <2>1 DEF NameService
<1>2. CASE OpenCatalog(r)
  <2>1. RequestedUrl \in Urls /\ Catalogs[RequestedUrl] \in Seq(Platforms)
    BY <1>2, RequestedUrlIs, CatalogsAssumption DEF OpenCatalog
  <2>2. source' \in [Requests -> Urls \union {NoRequest}] /\ asOf' \in [Requests -> Days]
        /\ todo' \in [Requests -> Seq(Platforms)]
    BY <1>2, <2>1 DEF OpenCatalog
  <2>3. response' \in [Requests -> Response] /\ pc' \in [Requests -> Places]
    BY <1>2, ThrowType DEF OpenCatalog
  <2> QED BY <1>2, <2>2, <2>3 DEF OpenCatalog
<1>3. CASE FillResponse(r)
  <2>1. CASE Throw(r)
    BY <1>3, <2>1, ThrowType DEF FillResponse
  <2>2. CASE ~Throw(r)
    <3>1. response' \in [Requests -> Response]
      <4>1. \E x \in Response : response' = [response EXCEPT ![r] = x]
        BY <1>3, <2>2, FilledType DEF FillResponse
      <4> QED BY <4>1
    <3>2. pc' \in [Requests -> Places]
      BY <1>3, <2>2 DEF FillResponse
    <3> QED BY <1>3, <3>1, <3>2 DEF FillResponse
  <2> QED BY <2>1, <2>2
<1>4. CASE Reset(r)
  <2>1. current + 1 \in CollectionIds
    BY <1>4, ResetType DEF Reset
  <2> QED BY <1>4, <2>1 DEF Reset
<1> QED BY <1>1, <1>2, <1>3, <1>4

\* So do the steps of the parser's handler.
LEMMA HandlerType ==
  ASSUME TypeOK, Placed, NEW r \in Requests,
         EndPlatform(r) \/ AddService(r) \/ BeginInsertSensor(r) \/ EndInsertSensor(r)
  PROVE  TypeOK'
<1> USE DEF TypeOK, Goto, Places, Running, Over, harvester, task, db
<1>1. CASE EndPlatform(r)
  <2>1. todo[r] # <<>>
    BY <1>1 DEF EndPlatform
  <2>2. collected' \in [CollectionIds -> Collections]
    BY <1>1, <2>1, FailType DEF EndPlatform
  <2>3. todo' \in [Requests -> Seq(Platforms)] /\ pc' \in [Requests -> Places]
    BY <1>1, <2>1, NextPlatformType, ThrowType DEF EndPlatform
  <2>4. response' \in [Requests -> Response]
    BY <1>1, ThrowType DEF EndPlatform
  <2> QED BY <1>1, <2>2, <2>3, <2>4 DEF EndPlatform
<1>2. CASE AddService(r)
  <2>1. todo[r] # <<>> /\ Platform(r) \in Platforms
    BY <1>2, PlatformAndEnd DEF AddService, AtPlatform
  <2>2. collected' \in [CollectionIds -> Collections]
    BY <1>2, <2>1, FailType DEF AddService
  <2>3. services' \subseteq Platforms
    BY <1>2, <2>1 DEF AddService
  <2> QED BY <1>2, <2>2, <2>3 DEF AddService
<1>3. CASE BeginInsertSensor(r)
  <2>1. todo[r] # <<>>
    BY <1>3, PlatformAndEnd DEF BeginInsertSensor, AtPlatform, Inserting
  <2>2. collected' \in [CollectionIds -> Collections]
    BY <1>3, <2>1, FailType DEF BeginInsertSensor
  <2>3. todo' \in [Requests -> Seq(Platforms)] /\ pc' \in [Requests -> Places]
    BY <1>3, <2>1, NextPlatformType, ThrowType DEF BeginInsertSensor
  <2>4. response' \in [Requests -> Response] /\ absent' \in [Requests -> BOOLEAN]
    BY <1>3, ThrowType DEF BeginInsertSensor
  <2> QED BY <1>3, <2>2, <2>3, <2>4 DEF BeginInsertSensor
<1>4. CASE EndInsertSensor(r)
  <2>1. todo[r] # <<>> /\ Platform(r) \in Platforms /\ End(r) \in Ends
    BY <1>4, PlatformAndEnd DEF EndInsertSensor, AtPlatform, Inserting
  <2>2. [collected[into[r]] EXCEPT !.inserted = @ \union {<<r, Platform(r), End(r)>>}] \in Collections
    <3> HIDE DEF TypeOK
    <3>1. collected[into[r]] \in Collections
      BY DEF TypeOK
    <3>2. collected[into[r]].inserted \union {<<r, Platform(r), End(r)>>}
            \subseteq Requests \X Platforms \X Ends
      BY <2>1, <3>1 DEF Collections
    <3> QED BY <3>1, <3>2 DEF Collections
  <2>3. collected' \in [CollectionIds -> Collections]
    BY <1>4, <2>1, <2>2, FailType DEF EndInsertSensor, Collect
  <2>4. todo' \in [Requests -> Seq(Platforms)] /\ pc' \in [Requests -> Places]
    BY <1>4, <2>1, NextPlatformType DEF EndInsertSensor
  <2>5. rows' \subseteq Row
    BY <1>4, <2>1 DEF EndInsertSensor, Row
  <2> QED BY <1>4, <2>3, <2>4, <2>5 DEF EndInsertSensor
<1> QED BY <1>1, <1>2, <1>3, <1>4

\* Every step keeps the types.
LEMMA NextType ==
  ASSUME Inductive, [Next]_vars
  PROVE  TypeOK'
<1> USE DEF Inductive
<1>1. CASE UNCHANGED vars
  BY <1>1 DEF vars, harvester, task, db, TypeOK
<1>2. ASSUME NEW r \in Requests, SetRequest(r) \/ Step(r) PROVE TypeOK'
  BY <1>2, ListenerType, CallType, HandlerType DEF Step
<1>3. CASE NextDay
  <2>1. day' \in Days
    BY <1>3, PoolAssumption DEF NextDay, TypeOK, Days
  <2> QED BY <1>3, <2>1 DEF NextDay, harvester, task, db, TypeOK
<1> QED BY <1>1, <1>2, <1>3 DEF Next, Terminated

-----------------------------------------------------------------------------
(* Places *)

\* A task that the pool takes was waiting for it.
LEMMA TakenWasQueued ==
  ASSUME TypeOK, QueueOfWaiting, NEW r \in Requests, StartTask(r)
  PROVE  /\ pc[r] = "queued" /\ Tail(queue) \in Seq(Requests)
         /\ Len(queue) \in Nat \ {0} /\ Len(Tail(queue)) = Len(queue) - 1
         /\ r = queue[1] /\ \A i \in 1 .. Len(Tail(queue)) : Tail(queue)[i] = queue[i + 1]
<1>1. queue \in Seq(Requests) /\ queue # <<>> /\ Head(queue) = r
  BY DEF TypeOK, StartTask
<1>2. /\ Tail(queue) \in Seq(Requests) /\ Len(queue) \in Nat \ {0}
      /\ Len(Tail(queue)) = Len(queue) - 1 /\ r = queue[1]
      /\ \A i \in 1 .. Len(Tail(queue)) : Tail(queue)[i] = queue[i + 1]
  BY <1>1, HeadTailProperties, EmptySeq, LenProperties
<1>3. 1 \in 1 .. Len(queue)
  BY <1>2
<1> QED BY <1>2, <1>3 DEF QueueOfWaiting

\* From where to where a request goes in a step.
LEMMA StepPlaces ==
  ASSUME TypeOK, QueueOfWaiting, NEW r \in Requests, Step(r)
  PROVE  \/ Submit(r) /\ pc[r] = "submit" /\ pc'[r] = "queued"
         \/ StartTask(r) /\ pc[r] = "queued" /\ pc'[r] = "name"
         \/ Answer(r) /\ pc[r] = "done" /\ pc'[r] \in {"answered", "emptyBody"}
         \/ NameService(r) /\ pc[r] = "name" /\ pc'[r] = "open"
         \/ OpenCatalog(r) /\ pc[r] = "open" /\ pc'[r] \in {"platform", "silent", "reset"}
         \/ FillResponse(r) /\ pc[r] = "platform" /\ pc'[r] = "reset"
         \/ Reset(r) /\ pc[r] = "reset" /\ pc'[r] = "done"
         \/ EndPlatform(r) /\ pc[r] = "platform"
              /\ pc'[r] \in {"platform", "service", "silent", "reset"}
         \/ AddService(r) /\ pc[r] = "service" /\ pc'[r] = "insert"
         \/ BeginInsertSensor(r) /\ pc[r] = "insert"
              /\ pc'[r] \in {"platform", "insertEnd", "reset"}
         \/ EndInsertSensor(r) /\ pc[r] = "insertEnd" /\ pc'[r] = "platform"
<1> USE DEF Goto, Throw, NextPlatform
<1>0. pc \in [Requests -> Places]
  BY DEF TypeOK, Places
<1>1. CASE Submit(r) \/ Answer(r)
  BY <1>0, <1>1 DEF Submit, Answer
<1>2. CASE StartTask(r)
  BY <1>0, <1>2, TakenWasQueued DEF StartTask
<1>3. CASE NameService(r) \/ OpenCatalog(r)
  BY <1>0, <1>3 DEF NameService, OpenCatalog
<1>4. CASE FillResponse(r) \/ Reset(r)
  BY <1>0, <1>4 DEF FillResponse, Reset
<1>5. CASE EndPlatform(r) \/ AddService(r)
  BY <1>0, <1>5 DEF EndPlatform, AddService
<1>6. CASE BeginInsertSensor(r) \/ EndInsertSensor(r)
  BY <1>0, <1>6 DEF BeginInsertSensor, EndInsertSensor
<1> QED BY <1>1, <1>2, <1>3, <1>4, <1>5, <1>6 DEF Step

\* The harvester is not put to use by a step of a request that did not use it.
LEMMA StepUses ==
  ASSUME TypeOK, QueueOfWaiting, NEW r \in Requests, Step(r)
  PROVE  /\ pc[r] # "idle" /\ pc'[r] # "idle"
         /\ InUse(r)' => InUse(r)
         /\ pc[r] \in Over => pc'[r] \in Over
BY StepPlaces DEF InUse, Running, Over

\* Only submit() puts a task into the queue, and only the pool takes one out.
LEMMA StepQueues ==
  ASSUME NEW r \in Requests, Step(r), ~Submit(r), ~StartTask(r)
  PROVE  queue' = queue
<1>1. CASE Answer(r) \/ NameService(r) \/ OpenCatalog(r) \/ FillResponse(r) \/ Reset(r)
  BY <1>1 DEF Answer, NameService, OpenCatalog, FillResponse, Reset
<1>2. CASE EndPlatform(r) \/ AddService(r) \/ BeginInsertSensor(r) \/ EndInsertSensor(r)
  BY <1>2 DEF EndPlatform, AddService, BeginInsertSensor, EndInsertSensor
<1> QED BY <1>1, <1>2 DEF Step

\* The queue holds each waiting task at most once.
LEMMA NextQueue ==
  ASSUME TypeOK, QueueOfWaiting, [Next]_vars
  PROVE  QueueOfWaiting'
<1>0. pc \in [Requests -> Places] /\ queue \in Seq(Requests)
  BY DEF TypeOK, Places
<1>1. CASE UNCHANGED <<queue, pc>>
  BY <1>1 DEF QueueOfWaiting
<1>2. ASSUME NEW r \in Requests, queue' = queue, pc[r] # "queued",
             NEW label, pc' = [pc EXCEPT ![r] = label]
      PROVE  QueueOfWaiting'
  <2>1. \A i \in 1 .. Len(queue) : queue[i] # r /\ queue[i] \in Requests
    BY <1>0, <1>2, ElementOfSeq DEF QueueOfWaiting
  <2> QED BY <1>0, <1>2, <2>1 DEF QueueOfWaiting
<1>3. ASSUME NEW r \in Requests, SetRequest(r) PROVE QueueOfWaiting'
  <2>1. queue' = queue /\ pc[r] # "queued" /\ \E label : pc' = [pc EXCEPT ![r] = label]
    BY <1>3 DEF SetRequest, Goto
  <2> QED BY <1>2, <2>1
<1>4. ASSUME NEW r \in Requests, Submit(r) PROVE QueueOfWaiting'
  <2>1. /\ Len(queue) \in Nat /\ Len(queue') = Len(queue) + 1 /\ queue'[Len(queue) + 1] = r
        /\ \A i \in 1 .. Len(queue) : queue'[i] = queue[i] /\ queue[i] \in Requests
    BY <1>0, <1>4, AppendProperties, LenProperties, ElementOfSeq DEF Submit
  <2>2. \A i \in 1 .. Len(queue) : queue[i] # r
    BY <1>4 DEF Submit, QueueOfWaiting
  <2>3. pc' = [pc EXCEPT ![r] = "queued"]
    BY <1>4 DEF Submit, Goto
  <2>4. ASSUME NEW i \in 1 .. Len(queue')
        PROVE  i \in 1 .. Len(queue) \/ i = Len(queue) + 1
    BY <2>1
  <2>5. \A i \in 1 .. Len(queue') : pc'[queue'[i]] = "queued"
    BY <1>0, <2>1, <2>2, <2>3, <2>4 DEF QueueOfWaiting
  <2>6. \A i, j \in 1 .. Len(queue') : queue'[i] = queue'[j] => i = j
    BY <2>1, <2>2, <2>4 DEF QueueOfWaiting
  <2> QED BY <2>5, <2>6 DEF QueueOfWaiting
<1>5. ASSUME NEW r \in Requests, StartTask(r) PROVE QueueOfWaiting'
  <2>1. /\ Len(queue) \in Nat \ {0} /\ Len(queue') = Len(queue) - 1 /\ r = queue[1]
        /\ \A i \in 1 .. Len(queue') : queue'[i] = queue[i + 1] /\ i + 1 \in 2 .. Len(queue)
    BY <1>5, TakenWasQueued DEF StartTask
  <2>2. \A i \in 2 .. Len(queue) : queue[i] # r /\ queue[i] \in Requests
    BY <1>0, <2>1, ElementOfSeq DEF QueueOfWaiting
  <2>3. pc' = [pc EXCEPT ![r] = "name"]
    BY <1>5 DEF StartTask, Goto
  <2>4. \A i \in 1 .. Len(queue') : pc'[queue'[i]] = "queued"
    BY <1>0, <2>1, <2>2, <2>3 DEF QueueOfWaiting
  <2>5. \A i, j \in 1 .. Len(queue') : queue'[i] = queue'[j] => i = j
    BY <2>1 DEF QueueOfWaiting
  <2> QED BY <2>4, <2>5 DEF QueueOfWaiting
<1>6. ASSUME NEW r \in Requests, Step(r), ~Submit(r), ~StartTask(r) PROVE QueueOfWaiting'
  <2>1. queue' = queue /\ pc[r] # "queued"
    BY <1>6, StepQueues, StepPlaces
  <2> QED BY <1>2, <1>6, <2>1, StepFrames DEF Frame
<1>7. CASE NextDay
  BY <1>1, <1>7 DEF NextDay
<1> QED BY <1>1, <1>3, <1>4, <1>5, <1>6, <1>7 DEF Next, Terminated, vars

\* What is said of a request's place is kept by every step.
LEMMA NextPlaced ==
  ASSUME TypeOK, QueueOfWaiting, Placed, [Next]_vars
  PROVE  Placed'
<1>0. /\ pc \in [Requests -> Places] /\ url \in [Requests -> Urls \union {NoRequest}]
      /\ request \in Requests \union {NoRequest}
  BY DEF TypeOK, Places
<1>1. CASE UNCHANGED <<request, pc, url, todo>>
  BY <1>1 DEF Placed
<1>2. ASSUME NEW r \in Requests, SetRequest(r) PROVE Placed'
  <2>1. /\ pc[r] = "idle" /\ pc' = [pc EXCEPT ![r] = "submit"] /\ request' = r /\ todo' = todo
        /\ \E u \in Urls : url' = [url EXCEPT ![r] = u]
    BY <1>2 DEF SetRequest, Goto, task
  <2>2. r # NoRequest
    BY RequestsAssumption
  <2> QED BY <1>0, <2>1, <2>2 DEF Placed, AtPlatform, Inserting
<1>3. ASSUME NEW r \in Requests, Step(r) PROVE Placed'
  <2>1. PICK label \in Places : pc' = [pc EXCEPT ![r] = label]
    BY <1>3, StepFrames DEF Frame
  <2>2. UNCHANGED <<request, url>> /\ \A q \in Requests \ {r} : todo'[q] = todo[q]
    BY <1>3, StepFrames DEF Frame
  <2>3. pc[r] # "idle" /\ pc'[r] # "idle"
    BY <1>3, StepUses
  <2>4. ASSUME pc'[r] \in AtPlatform PROVE todo'[r] # <<>>
    <3>1. \/ EndPlatform(r) /\ pc'[r] = "service"
          \/ AddService(r) /\ pc[r] \in AtPlatform
          \/ BeginInsertSensor(r) /\ pc'[r] = "insertEnd" /\ pc[r] \in AtPlatform
      BY <1>3, <2>4, StepPlaces DEF AtPlatform, Inserting
    <3>2. CASE EndPlatform(r) /\ pc'[r] = "service"
      BY <1>0, <3>2 DEF EndPlatform, Goto, NextPlatform, Throw
    <3>3. CASE AddService(r) /\ pc[r] \in AtPlatform
      BY <3>3 DEF AddService, Placed
    <3>4. CASE BeginInsertSensor(r) /\ pc'[r] = "insertEnd" /\ pc[r] \in AtPlatform
      <4>1. todo' = todo
        BY <1>0, <3>4 DEF BeginInsertSensor, Goto, NextPlatform, Throw
      <4> QED BY <3>4, <4>1 DEF Placed
    <3> QED BY <3>1, <3>2, <3>3, <3>4
  <2> QED BY <1>0, <2>1, <2>2, <2>3, <2>4 DEF Placed
<1>4. CASE NextDay
  BY <1>1, <1>4 DEF NextDay, harvester, task
<1> QED BY <1>1, <1>2, <1>3, <1>4 DEF Next, Terminated, vars, harvester, task

\* Whoever used the harvester at the same time as another one is known.
LEMMA NextOverlaps ==
  ASSUME TypeOK, QueueOfWaiting, OverlapsKnown, [Next]_vars
  PROVE  OverlapsKnown'
<1>0. pc \in [Requests -> Places]
  BY DEF TypeOK, Places
<1>1. ASSUME UNCHANGED <<request, overlapped>>, \A q \in Requests : InUse(q)' => InUse(q)
      PROVE  OverlapsKnown'
  BY <1>1 DEF OverlapsKnown
<1>2. CASE UNCHANGED <<request, overlapped, pc>>
  BY <1>1, <1>2 DEF InUse
<1>3. ASSUME NEW r \in Requests, SetRequest(r) PROVE OverlapsKnown'
  <2>1. /\ request' = r /\ pc[r] = "idle" /\ pc' = [pc EXCEPT ![r] = "submit"]
        /\ overlapped' = IF Rivals(r) = {} THEN overlapped ELSE overlapped \union Rivals(r) \union {r}
    BY <1>3 DEF SetRequest, Goto
  <2>2. \A q \in Requests \ {r} : InUse(q)' = InUse(q)
    BY <1>0, <2>1 DEF InUse
  <2>3. InUse(r)'
    BY <1>0, <2>1 DEF InUse
  <2>4. overlapped \subseteq overlapped'
    BY <2>1
  <2>5. ASSUME NEW q \in Requests \ {r}, InUse(q) PROVE q \in overlapped' /\ r \in overlapped'
    <3>1. q \in Rivals(r)
      BY <2>5 DEF Rivals
    <3> QED BY <2>1, <3>1
  <2>6. ASSUME NEW s \in Requests, NEW q \in Requests, s # q, InUse(s)', InUse(q)'
        PROVE  s \in overlapped'
    BY <2>2, <2>5, <2>6
  <2>7. ASSUME NEW s \in Requests \ overlapped', InUse(s)' PROVE request' = s
    BY <2>1, <2>2, <2>5, <2>7
  <2> QED BY <2>6, <2>7 DEF OverlapsKnown
<1>4. ASSUME NEW r \in Requests, Step(r) PROVE OverlapsKnown'
  <2>1. PICK label \in Places : pc' = [pc EXCEPT ![r] = label]
    BY <1>4, StepFrames DEF Frame
  <2>2. InUse(r)' => InUse(r)
    BY <1>4, StepUses
  <2>3. \A q \in Requests \ {r} : InUse(q)' = InUse(q)
    BY <1>0, <2>1 DEF InUse
  <2> QED BY <1>1, <1>4, <2>2, <2>3, StepFrames DEF Frame
<1>5. CASE NextDay
  BY <1>2, <1>5 DEF NextDay, harvester
<1> QED BY <1>2, <1>3, <1>4, <1>5 DEF Next, Terminated, vars, harvester

-----------------------------------------------------------------------------
(* The collections *)

\* The collections c get one more failed or inserted sensor, or stay.
More(c) ==
  /\ \E contents : collected' = [collected EXCEPT ![c] = contents]
  /\ \E x : collected'[c].inserted \in {collected[c].inserted, collected[c].inserted \union {x}}
  /\ \E y : collected'[c].failed \in {collected[c].failed, collected[c].failed \union {y}}

LEMMA FailAdds ==
  ASSUME TypeOK, NEW r \in Requests, Fail(r)
  PROVE  collected' = collected \/ More(current)
<1>0. /\ collected \in [CollectionIds -> Collections] /\ current \in CollectionIds
      /\ collected[current] \in Collections
  BY DEF TypeOK
<1> DEFINE more == [collected[current] EXCEPT !.failed = @ \union {Platform(r)}]
<1>1. /\ more.failed = collected[current].failed \union {Platform(r)}
      /\ more.inserted = collected[current].inserted
  BY <1>0 DEF Collections
<1>2. collected' = collected \/ collected' = [collected EXCEPT ![current] = more]
  BY DEF Fail, Collect
<1> HIDE DEF more
<1>3. CASE collected' = [collected EXCEPT ![current] = more]
  <2>1. collected'[current] = more
    BY <1>0, <1>3
  <2> QED BY <1>1, <1>3, <2>1 DEF More
<1> QED BY <1>2, <1>3

\* What a step may do to the collections and to references to them.
LEMMA StepCollects ==
  ASSUME TypeOK, QueueOfWaiting, NEW r \in Requests, Step(r)
  PROVE  /\ current' = current \/ Reset(r)
         /\ into'[r] \in {into[r], current}
         /\ response'[r].collections \in {response[r].collections, current}
         /\ \/ collected' = collected
            \/ pc[r] \in Looping /\ More(current)
            \/ pc[r] = "insertEnd" /\ More(into[r])
<1> USE DEF harvester, task, db
<1>0. /\ into \in [Requests -> CollectionIds] /\ response \in [Requests -> Response]
      /\ collected \in [CollectionIds -> Collections]
  BY DEF TypeOK
<1>1. CASE Submit(r) \/ StartTask(r) \/ Answer(r)
  BY <1>1 DEF Submit, StartTask, Answer
<1>2. CASE NameService(r) \/ OpenCatalog(r)
  BY <1>0, <1>2 DEF NameService, OpenCatalog, Throw, Response
<1>3. CASE FillResponse(r)
  <2>1. current' = current /\ into' = into /\ collected' = collected
    BY <1>3 DEF FillResponse
  <2>2. CASE Throw(r)
    BY <1>0, <2>1, <2>2 DEF Throw, Response
  <2>3. CASE ~Throw(r)
    <3>1. PICK i, f : response' = [response EXCEPT ![r] =
                                     [@ EXCEPT !.collections = current, !.inserted = i, !.failed = f]]
      BY <1>3, <2>3 DEF FillResponse
    <3>2. response'[r].collections = current
      BY <1>0, <3>1 DEF Response
    <3> QED BY <2>1, <3>2
  <2> QED BY <2>2, <2>3
<1>4. CASE Reset(r)
  BY <1>0, <1>4 DEF Reset
<1>5. CASE EndPlatform(r)
  <2>1. /\ current' = current /\ into' = into /\ pc[r] \in Looping
        /\ response'[r].collections = response[r].collections
        /\ collected' = collected \/ Fail(r)
    BY <1>0, <1>5 DEF EndPlatform, Throw, Response, Looping
  <2> QED BY <2>1, FailAdds
<1>6. CASE AddService(r)
  <2>1. /\ current' = current /\ into'[r] = current /\ pc[r] \in Looping /\ response' = response
        /\ collected' = collected \/ Fail(r)
    BY <1>0, <1>6 DEF AddService, Looping, AtPlatform
  <2> QED BY <2>1, FailAdds
<1>7. CASE BeginInsertSensor(r)
  <2>1. /\ current' = current /\ into' = into /\ pc[r] \in Looping
        /\ response'[r].collections = response[r].collections
        /\ collected' = collected \/ Fail(r)
    BY <1>0, <1>7 DEF BeginInsertSensor, Throw, Response, Looping, AtPlatform, Inserting
  <2> QED BY <2>1, FailAdds
<1>8. CASE EndInsertSensor(r)
  <2> DEFINE more == [collected[into[r]] EXCEPT !.inserted = @ \union {<<r, Platform(r), End(r)>>}]
  <2>1. /\ current' = current /\ into' = into /\ response' = response
        /\ pc[r] = "insertEnd" /\ pc[r] \in Looping
        /\ \/ Fail(r)
           \/ Collect(r, into[r], more)
    BY <1>8 DEF EndInsertSensor, Looping, AtPlatform, Inserting
  <2>2. collected[into[r]] \in Collections
    BY <1>0
  <2>3. /\ more.inserted = collected[into[r]].inserted \union {<<r, Platform(r), End(r)>>}
        /\ more.failed = collected[into[r]].failed
    BY <2>2 DEF Collections
  <2> HIDE DEF more
  <2>4. ASSUME Collect(r, into[r], more) PROVE collected' = collected \/ More(into[r])
    <3>1. CASE collected' = [collected EXCEPT ![into[r]] = more]
      <4>1. collected'[into[r]] = more
        BY <1>0, <3>1
      <4> QED BY <2>3, <3>1, <4>1 DEF More
    <3> QED BY <2>4, <3>1 DEF Collect
  <2> QED BY <2>1, <2>4, FailAdds
<1> QED BY <1>1, <1>2, <1>3, <1>4, <1>5, <1>6, <1>7, <1>8 DEF Step

\* A request that is over stays over, and reset() comes before the end of one.
LEMMA OverGrows ==
  ASSUME TypeOK, QueueOfWaiting, [Next]_vars
  PROVE  /\ RequestsOver \subseteq RequestsOver'
         /\ \A r \in Requests : Reset(r) => RequestsOver' = RequestsOver \union {r}
<1>0. pc \in [Requests -> Places]
  BY DEF TypeOK, Places
<1>1. ASSUME UNCHANGED pc PROVE RequestsOver \subseteq RequestsOver'
  BY <1>1 DEF RequestsOver
<1>2. ASSUME NEW r \in Requests, NEW label, pc' = [pc EXCEPT ![r] = label],
             pc[r] \in Over => pc'[r] \in Over
      PROVE  RequestsOver \subseteq RequestsOver'
  BY <1>0, <1>2 DEF RequestsOver
<1>3. ASSUME NEW r \in Requests, SetRequest(r)
      PROVE  RequestsOver \subseteq RequestsOver'
  <2>1. pc[r] = "idle" /\ \E label : pc' = [pc EXCEPT ![r] = label]
    BY <1>3 DEF SetRequest, Goto
  <2> QED BY <1>2, <2>1 DEF Over
<1>4. ASSUME NEW r \in Requests, Step(r)
      PROVE  RequestsOver \subseteq RequestsOver'
  <2>1. PICK label \in Places : pc' = [pc EXCEPT ![r] = label]
    BY <1>4, StepFrames DEF Frame
  <2>2. pc[r] \in Over => pc'[r] \in Over
    BY <1>4, StepUses
  <2> QED BY <1>2, <2>1, <2>2
<1>5. ASSUME NEW r \in Requests, Reset(r)
      PROVE  RequestsOver' = RequestsOver \union {r}
  BY <1>0, <1>5 DEF Reset, Goto, RequestsOver, Over
<1> QED BY <1>1, <1>3, <1>4, <1>5 DEF Next, NextDay, Terminated, vars

\* Collections are finite, and as many were made as harvests are over.
LEMMA NextNumbered ==
  ASSUME TypeOK, QueueOfWaiting, CollectionsNumbered, [Next]_vars, TypeOK'
  PROVE  CollectionsNumbered'
<1>1. /\ Cardinality(RequestsOver) \in Nat /\ Cardinality(RequestsOver') \in Nat
      /\ Cardinality(RequestsOver) <= Cardinality(RequestsOver')
  <2>1. IsFiniteSet(RequestsOver) /\ IsFiniteSet(RequestsOver')
    BY RequestsAssumption, FS_Subset DEF RequestsOver
  <2> QED BY <2>1, OverGrows, FS_Subset, FS_CardinalityType
<1>2. /\ current \in Nat /\ current' \in Nat
      /\ \A r \in Requests : into[r] \in Nat /\ response[r].collections \in Nat
  <2>1. current' \in CollectionIds
    BY DEF TypeOK
  <2> QED BY <2>1, NumbersOfCollections
<1>3. CASE UNCHANGED <<current, collected, into, response>>
  BY <1>1, <1>2, <1>3 DEF CollectionsNumbered
<1>4. ASSUME NEW r \in Requests, Step(r) PROVE CollectionsNumbered'
  <2>1. current <= current' /\ current' <= Cardinality(RequestsOver')
    <3>1. CASE current' = current
      BY <1>1, <1>2, <3>1 DEF CollectionsNumbered
    <3>2. CASE Reset(r)
      <4>1. Cardinality(RequestsOver') = Cardinality(RequestsOver) + 1
        BY <3>2, OverGrows, RoomForReset DEF Reset, Over
      <4>2. current' = current + 1
        BY <3>2 DEF Reset
      <4> QED BY <1>1, <1>2, <4>1, <4>2 DEF CollectionsNumbered
    <3> QED BY <1>4, <3>1, <3>2, StepCollects
  <2>2. ASSUME NEW q \in Requests
        PROVE  into'[q] <= current' /\ response'[q].collections <= current'
    <3>1. into'[q] \in {into[q], current} /\ response'[q].collections \in {response[q].collections, current}
      BY <1>4, StepCollects, StepFrames DEF Frame
    <3> QED BY <1>2, <2>1, <3>1 DEF CollectionsNumbered
  <2>3. ASSUME NEW c \in CollectionIds
        PROVE  IsFiniteSet(collected'[c].inserted) /\ IsFiniteSet(collected'[c].failed)
    <3>1. IsFiniteSet(collected[c].inserted) /\ IsFiniteSet(collected[c].failed)
      BY DEF CollectionsNumbered
    <3>2. CASE More(c)
      BY <3>1, <3>2, FS_AddElement DEF More
    <3>3. CASE collected'[c] # collected[c]
      <4>1. More(current) \/ More(into[r])
        BY <1>4, <3>3, StepCollects
      <4>2. More(c)
        BY <3>3, <4>1 DEF More, TypeOK
      <4> QED BY <3>2, <4>2
    <3> QED BY <3>1, <3>3
  <2> QED BY <2>1, <2>2, <2>3 DEF CollectionsNumbered
<1> QED BY <1>3, <1>4 DEF Next, SetRequest, NextDay, Terminated, vars, harvester, task

\* The collections that reset() hands out are empty, and stay so until a harvest
\* fills them that will call reset() itself, unless a silent server holds it.
LEMMA NextClean ==
  ASSUME TypeOK, QueueOfWaiting, CollectionsNumbered, CollectionsClean, TypeOK', [Next]_vars
  PROVE  CollectionsClean'
<1>0. /\ pc \in [Requests -> Places] /\ into \in [Requests -> CollectionIds]
      /\ collected \in [CollectionIds -> Collections]
      /\ current \in CollectionIds /\ current' \in CollectionIds
      /\ CollectionIds \subseteq Nat
  BY NumbersOfCollections DEF TypeOK, Places
<1>1. CASE UNCHANGED <<current, collected, pc>>
  BY <1>1 DEF CollectionsClean
<1>2. ASSUME NEW r \in Requests, SetRequest(r) PROVE CollectionsClean'
  <2>1. UNCHANGED <<current, collected>> /\ pc[r] = "idle" /\ pc' = [pc EXCEPT ![r] = "submit"]
    BY <1>2 DEF SetRequest, Goto
  <2>2. pc[r] \notin Looping \union {"reset", "silent"}
    BY <2>1 DEF Looping, AtPlatform, Inserting
  <2> QED BY <1>0, <2>1, <2>2 DEF CollectionsClean
<1>3. ASSUME NEW r \in Requests, Step(r) PROVE CollectionsClean'
  <2>1. PICK label \in Places : pc' = [pc EXCEPT ![r] = label]
    BY <1>3, StepFrames DEF Frame
  <2>2. CASE Reset(r)
    BY <1>0, <2>2 DEF Reset, CollectionsClean
  <2>3. CASE ~Reset(r)
    <3>1. current' = current
      BY <1>3, <2>3, StepCollects
    <3>2. pc[r] \in Looping \union {"reset", "silent"} =>
            pc'[r] \in Looping \union {"reset", "silent"}
      BY <1>3, <2>3, StepPlaces DEF Looping, AtPlatform, Inserting
    <3>3. CASE collected' = collected
      BY <1>0, <2>1, <3>1, <3>2, <3>3 DEF CollectionsClean
    <3>4. CASE collected' # collected
      <4>1. pc[r] \in Looping /\ (More(current) \/ More(into[r]))
        BY <1>3, <3>4, StepCollects DEF Looping, AtPlatform, Inserting
      <4>2. into[r] <= current
        BY DEF CollectionsNumbered
      <4>3. \A c \in CollectionIds : c > current => collected'[c] = collected[c]
        BY <1>0, <4>1, <4>2 DEF More
      <4> QED BY <3>1, <3>2, <4>1, <4>3 DEF CollectionsClean
    <3> QED BY <3>3, <3>4
  <2> QED BY <2>2, <2>3
<1> QED BY <1>1, <1>2, <1>3 DEF Next, NextDay, Terminated, vars, harvester

\* No other task touches the collections of a harvest that is alone.
LEMMA OthersLeaveAlone ==
  ASSUME TypeOK, QueueOfWaiting, OverlapsKnown, NEW r \in Requests \ overlapped, InUse(r),
         NEW s \in Requests \ {r}, Step(s)
  PROVE  UNCHANGED <<collected, current>>
<1>1. ~InUse(s)
  BY AloneHasNoRivals
<1>2. pc[s] \notin Looping \union {"reset"}
  BY <1>1 DEF InUse, Looping, AtPlatform, Inserting, Running
<1>3. collected' = collected
  BY <1>2, StepCollects DEF Looping, AtPlatform, Inserting
<1>4. current' = current
  BY <1>2, StepCollects DEF Reset
<1> QED BY <1>3, <1>4

-----------------------------------------------------------------------------
(* The harvest of a request that is alone *)

\* The progress of a harvest stays what it is while its variables, and the
\* collections if it is in the list, are left alone.
LEMMA HarvestIfKept ==
  ASSUME NEW r \in Requests, HarvestAt(r), url'[r] = url[r], pc'[r] = pc[r],
         todo'[r] = todo[r], into'[r] = into[r], response'[r] = response[r],
         pc[r] \in Looping => UNCHANGED <<collected, current>>
  PROVE  HarvestAt(r)'
<1>1. Inserting \subseteq Looping
  BY DEF Looping, AtPlatform
<1>2. ASSUME pc[r] \in Looping, Accounts(r, current, todo[r])
      PROVE  Accounts(r, current, todo[r])'
  <2>1. collected' = collected /\ current' = current /\ url'[r] = url[r] /\ todo'[r] = todo[r]
    BY <1>2
  <2>2. Listed(r)' = Listed(r) /\ Elements(todo[r])' = Elements(todo[r])
    BY <2>1 DEF Listed, Elements
  <2> QED BY <1>2, <2>1, <2>2 DEF Accounts
<1> QED BY <1>1, <1>2 DEF HarvestAt

\* Failed or inserted, the platform at work is in the collections at hand.
Processed(r) ==
  /\ \A x \in collected'[current].inserted : x[1] = r
  /\ collected'[current].failed \union {x[2] : x \in collected'[current].inserted}
       = {Platform(r)} \union collected[current].failed
           \union {x[2] : x \in collected[current].inserted}

LEMMA FailProcesses ==
  ASSUME TypeOK, OverlapsKnown, NEW r \in Requests \ overlapped, InUse(r), Fail(r),
         \A x \in collected[current].inserted : x[1] = r
  PROVE  Processed(r)
<1>1. Rivals(r) = {}
  BY AloneHasNoRivals
<1>2. /\ collected \in [CollectionIds -> Collections] /\ current \in CollectionIds
      /\ collected[current] \in Collections
  BY DEF TypeOK
<1> DEFINE more == [collected[current] EXCEPT !.failed = @ \union {Platform(r)}]
<1>3. collected' = [collected EXCEPT ![current] = more]
  BY <1>1 DEF Fail, Collect
<1>4. /\ more.failed = collected[current].failed \union {Platform(r)}
      /\ more.inserted = collected[current].inserted
  BY <1>2 DEF Collections
<1> HIDE DEF more
<1>5. collected'[current] = more
  BY <1>2, <1>3
<1> QED BY <1>4, <1>5 DEF Processed

LEMMA InsertProcesses ==
  ASSUME TypeOK, OverlapsKnown, NEW r \in Requests \ overlapped, InUse(r), into[r] = current,
         Collect(r, into[r], [collected[into[r]] EXCEPT !.inserted =
                                @ \union {<<r, Platform(r), End(r)>>}]),
         \A x \in collected[current].inserted : x[1] = r
  PROVE  Processed(r)
<1>1. Rivals(r) = {}
  BY AloneHasNoRivals
<1>2. /\ collected \in [CollectionIds -> Collections] /\ current \in CollectionIds
      /\ collected[current] \in Collections
  BY DEF TypeOK
<1> DEFINE more == [collected[current] EXCEPT !.inserted = @ \union {<<r, Platform(r), End(r)>>}]
<1>3. collected' = [collected EXCEPT ![current] = more]
  BY <1>1 DEF Collect
<1>4. /\ more.failed = collected[current].failed
      /\ more.inserted = collected[current].inserted \union {<<r, Platform(r), End(r)>>}
  BY <1>2 DEF Collections
<1> HIDE DEF more
<1>5. collected'[current] = more
  BY <1>2, <1>3
<1>6. {x[2] : x \in more.inserted}
        = {x[2] : x \in collected[current].inserted} \union {Platform(r)}
  <2>1. <<r, Platform(r), End(r)>>[2] = Platform(r)
    OBVIOUS
  <2>2. \A y : y \in {x[2] : x \in more.inserted}
             <=> (\E x \in collected[current].inserted : y = x[2]) \/ y = Platform(r)
    BY <1>4, <2>1
  <2> QED BY <2>2
<1>7. \A x \in more.inserted : x[1] = r
  BY <1>4
<1> QED BY <1>4, <1>5, <1>6, <1>7 DEF Processed

\* A platform that is processed is either still the first one of the list or not in
\* it any more.
LEMMA ProcessedAccounts ==
  ASSUME TypeOK, NEW r \in Requests, Processed(r), Accounts(r, current, todo[r]),
         todo[r] # <<>>, todo'[r] \in {todo[r], Tail(todo[r])}, url' = url, current' = current
  PROVE  Accounts(r, current, todo[r])'
<1>1. /\ todo[r] \in Seq(Platforms)
      /\ Elements(todo[r]) = {Platform(r)} \union Elements(Tail(todo[r]))
  BY ElementsOfTail DEF TypeOK, Platform
<1>2. Listed(r)' = Listed(r) /\ Elements(todo[r])' = Elements(todo'[r])
  BY DEF Listed, Elements
<1>3. \A x \in collected'[current'].inserted : x[1] = r
  BY DEF Processed
<1>4. collected'[current'].failed \union {x[2] : x \in collected'[current'].inserted}
        \union Elements(todo'[r]) = Listed(r)
  BY <1>1 DEF Processed, Accounts
<1> QED BY <1>2, <1>3, <1>4 DEF Accounts

\* The steps of such a harvest.
LEMMA OwnStepHarvests ==
  ASSUME TypeOK, QueueOfWaiting, Placed, OverlapsKnown, CollectionsClean,
         NEW r \in Requests \ overlapped, HarvestAt(r), Step(r)
  PROVE  HarvestAt(r)'
<1>0. /\ pc \in [Requests -> Places] /\ response \in [Requests -> Response]
      /\ todo \in [Requests -> Seq(Platforms)] /\ into \in [Requests -> CollectionIds]
  BY DEF TypeOK, Places
<1> USE DEF Goto, task, harvester, db
<1>1. ASSUME pc'[r] \notin {"open"} \union Looping PROVE HarvestAt(r)'
  BY <1>1 DEF HarvestAt, Looping, AtPlatform
<1>2. CASE NameService(r)
  <2>1. RequestedUrl = url[r]
    BY <1>2, RequestedUrlIs DEF NameService, InUse, Running
  <2>2. response'[r].serviceUrl = url'[r] /\ pc'[r] = "open"
    BY <1>0, <1>2, <2>1 DEF NameService, Response
  <2> QED BY <2>2 DEF HarvestAt, Looping, AtPlatform, Inserting
<1>3. CASE OpenCatalog(r)
  <2>1. pc[r] = "open" /\ InUse(r) /\ url' = url
    BY <1>3 DEF OpenCatalog, InUse, Running
  <2>2. RequestedUrl = url[r] /\ response[r].serviceUrl = url[r]
    BY <2>1, RequestedUrlIs DEF HarvestAt
  <2>3. CASE pc'[r] = "platform"
    <3>1. /\ todo'[r] = Catalogs[url[r]] /\ UNCHANGED <<response, current, collected>>
      BY <1>0, <1>3, <2>2, <2>3 DEF OpenCatalog, Throw
    <3>2. collected[current] = Empty
      <4>1. \A q \in Requests : pc[q] \notin Looping \union {"reset", "silent"}
        BY <2>1, AloneHasNoRivals DEF InUse, Running, Looping, AtPlatform, Inserting
      <4> QED BY <4>1 DEF CollectionsClean
    <3>3. Accounts(r, current, todo[r])'
      BY <2>1, <3>1, <3>2 DEF Accounts, Empty, Listed, Elements
    <3> QED BY <2>1, <2>2, <2>3, <3>1, <3>3 DEF HarvestAt, Inserting
  <2>4. CASE pc'[r] # "platform"
    BY <1>1, <1>3, <2>1, <2>4, StepPlaces DEF Looping, AtPlatform, Inserting
  <2> QED BY <2>3, <2>4
<1>4. ASSUME pc[r] \in Looping, pc'[r] \in Looping, Processed(r) \/ collected' = collected,
             todo'[r] = todo[r] \/ (todo'[r] = Tail(todo[r]) /\ Processed(r)), todo[r] # <<>>,
             pc'[r] \in Inserting => into'[r] = current,
             UNCHANGED <<url, current, response>>
      PROVE  HarvestAt(r)'
  <2>1. response[r].serviceUrl = url[r] /\ Accounts(r, current, todo[r])
    BY <1>4 DEF HarvestAt
  <2>2. Accounts(r, current, todo[r])'
    <3>1. CASE Processed(r)
      BY <1>4, <2>1, <3>1, ProcessedAccounts
    <3>2. CASE ~Processed(r)
      <4>1. /\ collected' = collected /\ todo'[r] = todo[r]
            /\ url' = url /\ current' = current
        BY <1>4, <3>2
      <4> QED BY <2>1, <4>1 DEF Accounts, Listed, Elements
    <3> QED BY <3>1, <3>2
  <2> QED BY <1>4, <2>1, <2>2 DEF HarvestAt
<1>5. ASSUME pc[r] \in Looping
      PROVE  /\ InUse(r) /\ \A x \in collected[current].inserted : x[1] = r
             /\ Fail(r) => Processed(r)
  <2>1. InUse(r)
    BY <1>5 DEF InUse, Running, Looping, AtPlatform, Inserting
  <2>2. \A x \in collected[current].inserted : x[1] = r
    BY <1>5 DEF HarvestAt, Accounts
  <2> QED BY <2>1, <2>2, FailProcesses
<1>6. CASE EndPlatform(r)
  <2>1. /\ pc[r] \in Looping /\ todo[r] # <<>> /\ UNCHANGED <<url, current>>
    BY <1>6 DEF EndPlatform, Looping
  <2>2. CASE pc'[r] \in {"platform", "service"}
    <3>1. /\ response' = response
          /\ \/ UNCHANGED <<todo, collected>>
             \/ Fail(r) /\ NextPlatform(r)
      BY <1>0, <1>6, <2>2 DEF EndPlatform, Throw
    <3>2. \/ UNCHANGED <<todo, collected>>
          \/ Processed(r) /\ todo'[r] = Tail(todo[r])
      BY <1>0, <1>5, <2>1, <3>1 DEF NextPlatform
    <3> QED BY <1>4, <2>1, <2>2, <3>1, <3>2 DEF Looping, AtPlatform, Inserting
  <2>3. CASE pc'[r] \notin {"platform", "service"}
    BY <1>1, <1>6, <2>1, <2>3, StepPlaces DEF Looping, AtPlatform, Inserting, EndPlatform
  <2> QED BY <2>2, <2>3
<1>7. CASE AddService(r)
  <2>1. /\ pc[r] \in Looping /\ pc[r] \in AtPlatform /\ pc'[r] = "insert" /\ into'[r] = current
        /\ collected' = collected \/ Fail(r)
        /\ UNCHANGED <<url, current, response, todo>>
    BY <1>0, <1>7 DEF AddService, Looping, AtPlatform
  <2>2. todo[r] # <<>>
    BY <2>1 DEF Placed
  <2>3. Processed(r) \/ collected' = collected
    BY <1>5, <2>1
  <2> QED BY <1>4, <2>1, <2>2, <2>3 DEF Looping, AtPlatform, Inserting
<1>8. CASE BeginInsertSensor(r)
  <2>1. /\ pc[r] \in Looping /\ pc[r] \in AtPlatform /\ pc[r] \in Inserting
        /\ UNCHANGED <<url, current, into>>
    BY <1>8 DEF BeginInsertSensor, Looping, AtPlatform, Inserting
  <2>2. todo[r] # <<>> /\ into[r] = current
    BY <2>1 DEF Placed, HarvestAt
  <2>3. CASE pc'[r] \in {"platform", "insertEnd"}
    <3>1. /\ response' = response
          /\ \/ UNCHANGED <<todo, collected>>
             \/ Fail(r) /\ NextPlatform(r)
      BY <1>0, <1>8, <2>3 DEF BeginInsertSensor, Throw
    <3>2. \/ UNCHANGED <<todo, collected>>
          \/ Processed(r) /\ todo'[r] = Tail(todo[r])
      BY <1>0, <1>5, <2>1, <3>1 DEF NextPlatform
    <3> QED BY <1>4, <2>1, <2>2, <2>3, <3>1, <3>2 DEF Looping, AtPlatform, Inserting
  <2>4. CASE pc'[r] \notin {"platform", "insertEnd"}
    BY <1>1, <1>8, <2>4, StepPlaces DEF Looping, AtPlatform, Inserting, BeginInsertSensor
  <2> QED BY <2>3, <2>4
<1>9. CASE EndInsertSensor(r)
  <2>1. /\ pc[r] \in Looping /\ pc[r] \in AtPlatform /\ pc[r] \in Inserting
        /\ pc'[r] = "platform" /\ todo'[r] = Tail(todo[r])
        /\ UNCHANGED <<url, current, into, response>>
    BY <1>0, <1>9 DEF EndInsertSensor, NextPlatform, Looping, AtPlatform, Inserting
  <2>2. todo[r] # <<>> /\ into[r] = current
    BY <2>1 DEF Placed, HarvestAt
  <2>3. Processed(r)
    <3>1. \/ Fail(r)
          \/ Collect(r, into[r], [collected[into[r]] EXCEPT !.inserted =
                                    @ \union {<<r, Platform(r), End(r)>>}])
      BY <1>9 DEF EndInsertSensor
    <3> QED BY <1>5, <2>1, <2>2, <3>1, InsertProcesses
  <2> QED BY <1>4, <2>1, <2>2, <2>3 DEF Looping, AtPlatform, Inserting
<1>10. CASE Submit(r) \/ StartTask(r) \/ Answer(r) \/ FillResponse(r) \/ Reset(r)
  <2>1. pc'[r] \in {"queued", "name", "answered", "emptyBody", "reset", "done"}
    BY <1>0, <1>10 DEF Submit, StartTask, Answer, FillResponse, Reset, Throw
  <2> QED BY <1>1, <2>1 DEF Looping, AtPlatform, Inserting
<1> QED BY <1>2, <1>3, <1>6, <1>7, <1>8, <1>9, <1>10 DEF Step

\* Every step keeps what is said of the harvest of a request that is alone.
LEMMA NextHarvest ==
  ASSUME TypeOK, QueueOfWaiting, Placed, OverlapsKnown, CollectionsClean, OwnHarvest,
         [Next]_vars
  PROVE  OwnHarvest'
<1>0. pc \in [Requests -> Places] /\ url \in [Requests -> Urls \union {NoRequest}]
  BY DEF TypeOK, Places
<1>1. CASE UNCHANGED <<harvester, pc, url, task, response, overlapped>>
  <2>1. ASSUME NEW r \in Requests \ overlapped PROVE HarvestAt(r)'
    BY <1>1, HarvestIfKept DEF OwnHarvest, harvester, task
  <2> QED BY <1>1, <2>1 DEF OwnHarvest
<1>2. ASSUME NEW s \in Requests, SetRequest(s) PROVE OwnHarvest'
  <2>1. /\ overlapped \subseteq overlapped' /\ pc' = [pc EXCEPT ![s] = "submit"]
        /\ UNCHANGED <<current, collected, task, response>>
        /\ \E u \in Urls : url' = [url EXCEPT ![s] = u]
    BY <1>2 DEF SetRequest, Goto
  <2>2. HarvestAt(s)'
    BY <1>0, <2>1 DEF HarvestAt, Looping, AtPlatform, Inserting
  <2>3. ASSUME NEW r \in Requests \ overlapped, r # s PROVE HarvestAt(r)'
    <3>1. pc'[r] = pc[r] /\ url'[r] = url[r]
      BY <1>0, <2>1, <2>3
    <3> QED BY <2>1, <2>3, <3>1, HarvestIfKept DEF OwnHarvest, task
  <2> QED BY <2>1, <2>2, <2>3 DEF OwnHarvest
<1>3. ASSUME NEW s \in Requests, Step(s) PROVE OwnHarvest'
  <2>1. PICK label \in Places : pc' = [pc EXCEPT ![s] = label]
    BY <1>3, StepFrames DEF Frame
  <2>2. UNCHANGED <<url, overlapped>>
    BY <1>3, StepFrames DEF Frame
  <2>3. ASSUME NEW r \in Requests \ overlapped, r # s PROVE HarvestAt(r)'
    <3>1. pc'[r] = pc[r] /\ todo'[r] = todo[r] /\ into'[r] = into[r] /\ response'[r] = response[r]
      BY <1>0, <1>3, <2>1, <2>3, StepFrames DEF Frame
    <3>2. ASSUME pc[r] \in Looping PROVE UNCHANGED <<collected, current>>
      <4>1. InUse(r)
        BY <3>2 DEF Looping, AtPlatform, Inserting, InUse, Running
      <4> QED BY <1>3, <2>3, <4>1, OthersLeaveAlone
    <3> QED BY <2>2, <2>3, <3>1, <3>2, HarvestIfKept DEF OwnHarvest
  <2>4. ASSUME s \notin overlapped PROVE HarvestAt(s)'
    BY <1>3, <2>4, OwnStepHarvests DEF OwnHarvest
  <2> QED BY <2>2, <2>3, <2>4 DEF OwnHarvest
<1>4. CASE NextDay
  BY <1>1, <1>4 DEF NextDay
<1> QED BY <1>1, <1>2, <1>3, <1>4 DEF Next, Terminated, vars

-----------------------------------------------------------------------------
(* The report of a request that is alone *)

\* A task goes on with the collection of inserted sensors it took, or takes the one
\* at hand.
LEMMA StepInserts ==
  ASSUME TypeOK, QueueOfWaiting, NEW s \in Requests, Step(s), pc'[s] \in Inserting
  PROVE  (pc[s] \in Inserting /\ into'[s] = into[s]) \/ into'[s] = current
<1>1. AddService(s) \/ (BeginInsertSensor(s) /\ pc[s] \in Inserting)
  BY StepPlaces DEF Inserting
<1> QED BY <1>1 DEF AddService, BeginInsertSensor, TypeOK

\* A report stays what it is while its request's variables are left alone, and so
\* are the collections it refers to.
LEMMA ReportIfKept ==
  ASSUME NEW r \in Requests, ReportAt(r), current \in Nat, current' \in Nat,
         response[r].collections \in Nat, url'[r] = url[r], pc'[r] = pc[r],
         response'[r] = response[r], written'[r] = written[r],
         pc[r] \in {"reset"} \union Over =>
           collected'[response[r].collections] = collected[response[r].collections],
         pc[r] \in Over => current <= current' /\ StillInserting(response[r].collections)' = {}
  PROVE  ReportAt(r)'
<1> DEFINE c == response[r].collections
<1>1. c' = c
  OBVIOUS
<1>2. CASE pc[r] \in {"reset"} \union Over
  <2>1. collected'[c] = collected[c]
    BY <1>2
  <2>2. Reports(r, c)' = Reports(r, c)
    BY <1>1, <2>1 DEF Reports, Accounts, Listed, Elements
  <2>3. Reports(r, c)
    BY <1>2 DEF ReportAt
  <2>4. ASSUME pc[r] \in Over PROVE c < current' /\ StillInserting(c)' = {}
    <3>1. c < current /\ current <= current'
      BY <2>4 DEF ReportAt
    <3>2. \A a, b, d \in Nat : a < b /\ b <= d => a < d
      OBVIOUS
    <3> QED BY <2>4, <3>1, <3>2
  <2>5. pc[r] = "answered" => written'[r] = collected'[c]
    BY <2>1 DEF ReportAt
  <2> QED BY <1>1, <2>2, <2>3, <2>4, <2>5 DEF ReportAt
<1>3. CASE pc[r] \notin {"reset"} \union Over
  BY <1>3 DEF ReportAt, Over
<1> QED BY <1>2, <1>3

\* The step of another request.
LEMMA OthersReport ==
  ASSUME TypeOK, QueueOfWaiting, OverlapsKnown, TypeOK',
         NEW r \in Requests \ overlapped, ReportAt(r), NEW s \in Requests \ {r}, Step(s)
  PROVE  ReportAt(r)'
<1>0. /\ pc \in [Requests -> Places] /\ response \in [Requests -> Response]
      /\ current \in Nat /\ current' \in Nat
      /\ into \in [Requests -> CollectionIds] /\ collected \in [CollectionIds -> Collections]
  <2>1. current' \in CollectionIds
    BY DEF TypeOK
  <2> QED BY <2>1, NumbersOfCollections DEF TypeOK, Places
<1>1. PICK label \in Places : pc' = [pc EXCEPT ![s] = label]
  BY StepFrames DEF Frame
<1>2. /\ url' = url /\ pc'[r] = pc[r] /\ response'[r] = response[r] /\ written'[r] = written[r]
      /\ \A q \in Requests \ {s} : pc'[q] = pc[q] /\ into'[q] = into[q]
  BY <1>0, <1>1, StepFrames DEF Frame
<1>3. ASSUME pc[r] = "reset" PROVE collected' = collected
  <2>1. InUse(r)
    BY <1>3 DEF InUse, Running
  <2> QED BY <2>1, OthersLeaveAlone
<1> DEFINE c == response[r].collections
<1>4. c \in CollectionIds /\ c \in Nat
  BY NumbersOfCollections
<1>5. ASSUME pc[r] \in Over
      PROVE  collected'[c] = collected[c] /\ current <= current' /\ StillInserting(c)' = {}
  <2>1. c < current /\ StillInserting(c) = {}
    BY <1>5 DEF ReportAt
  <2>2. c # current
    BY <1>0, <1>4, <2>1
  <2>3. collected'[c] = collected[c]
    <3>1. CASE More(current)
      BY <1>0, <2>2, <3>1 DEF More
    <3>2. CASE pc[s] = "insertEnd" /\ More(into[s])
      <4>1. into[s] # c
        BY <2>1, <3>2 DEF StillInserting, Inserting
      <4> QED BY <1>0, <3>2, <4>1 DEF More
    <3> QED BY <3>1, <3>2, StepCollects
  <2>4. current <= current'
    BY <1>0, StepCollects DEF Reset
  <2>5. ASSUME NEW q \in Requests, pc'[q] \in Inserting PROVE into'[q] # c
    <3>1. CASE q = s
      <4>1. (pc[s] \in Inserting /\ into'[s] = into[s]) \/ into'[s] = current
        BY <2>5, <3>1, StepInserts
      <4> QED BY <2>1, <2>2, <3>1, <4>1 DEF StillInserting
    <3>2. CASE q # s
      BY <1>2, <2>1, <2>5, <3>2 DEF StillInserting
    <3> QED BY <3>1, <3>2
  <2>6. c' = c
    BY <1>2
  <2>7. StillInserting(c)' = {}
    BY <2>5, <2>6 DEF StillInserting
  <2> QED BY <2>3, <2>4, <2>7
<1> QED BY <1>0, <1>2, <1>3, <1>4, <1>5, ReportIfKept

\* The own step of the request.
LEMMA OwnStepReports ==
  ASSUME TypeOK, QueueOfWaiting, CollectionsNumbered, OverlapsKnown, TypeOK',
         NEW r \in Requests \ overlapped, HarvestAt(r), ~response[r].exception => ReportAt(r),
         Step(r), ~response'[r].exception
  PROVE  ReportAt(r)'
<1>0. /\ pc \in [Requests -> Places] /\ response \in [Requests -> Response]
      /\ written \in [Requests -> Collections]
      /\ current \in Nat /\ current' \in Nat
  <2>1. current' \in CollectionIds
    BY DEF TypeOK
  <2> QED BY <2>1, NumbersOfCollections DEF TypeOK, Places
<1> USE DEF Goto, task, harvester, db
<1>1. ASSUME pc'[r] \notin {"reset"} \union Over PROVE ReportAt(r)'
  BY <1>1 DEF ReportAt, Over
<1>2. ~Throw(r)
  BY <1>0 DEF Throw, Response
<1>3. CASE Answer(r)
  <2>1. /\ pc[r] = "done" /\ UNCHANGED <<url, response, current, collected, into>>
        /\ pc'[r] \in {"answered", "emptyBody"}
        /\ pc'[r] = "answered" => written'[r] = collected[response[r].collections]
    BY <1>0, <1>3 DEF Answer
  <2>2. ReportAt(r)
    BY <2>1
  <2>3. Reports(r, response[r].collections)' = Reports(r, response[r].collections)
    BY <2>1 DEF Reports, Accounts, Listed, Elements
  <2>4. ASSUME NEW q \in Requests, pc'[q] \in Inserting PROVE pc[q] \in Inserting
    BY <1>0, <1>3, <2>4 DEF Answer, Inserting
  <2>5. StillInserting(response[r].collections)' = {}
    BY <2>1, <2>2, <2>4 DEF StillInserting, ReportAt, Over
  <2> QED BY <2>1, <2>2, <2>3, <2>5 DEF ReportAt, Over
<1>4. CASE FillResponse(r)
  <2>1. /\ pc[r] = "platform" /\ todo[r] = <<>> /\ pc'[r] = "reset"
        /\ UNCHANGED <<url, current, collected>>
    BY <1>0, <1>2, <1>4 DEF FillResponse
  <2>2. response' = [response EXCEPT ![r] =
                          [@ EXCEPT !.collections = current,
                                    !.inserted = Cardinality(collected[current].inserted),
                                    !.failed = Cardinality(collected[current].failed)]]
    BY <1>2, <1>4 DEF FillResponse
  <2>3. /\ response'[r].collections = current
        /\ response'[r].inserted = Cardinality(collected[current].inserted)
        /\ response'[r].failed = Cardinality(collected[current].failed)
        /\ response'[r].serviceUrl = response[r].serviceUrl
    BY <1>0, <2>2 DEF Response
  <2>4. response[r].serviceUrl = url[r] /\ Accounts(r, current, <<>>)
    BY <2>1 DEF HarvestAt, Looping
  <2>5. Accounts(r, current, <<>>)' = Accounts(r, current, <<>>)
    BY <2>1 DEF Accounts, Listed, Elements
  <2>6. Reports(r, current)'
    BY <2>1, <2>3, <2>4, <2>5 DEF Reports
  <2>7. Reports(r, response[r].collections)'
    BY <2>1, <2>3, <2>6
  <2> QED BY <2>1, <2>7 DEF ReportAt, Over
<1>5. CASE Reset(r)
  <2>1. /\ pc[r] = "reset" /\ pc'[r] = "done" /\ UNCHANGED <<url, response, collected, into>>
        /\ current' = current + 1
    BY <1>0, <1>5 DEF Reset
  <2>2. ReportAt(r) /\ InUse(r)
    BY <2>1 DEF InUse, Running
  <2>3. Reports(r, response[r].collections)' = Reports(r, response[r].collections)
    BY <2>1 DEF Reports, Accounts, Listed, Elements
  <2>4. response[r].collections < current'
    <3>1. response[r].collections <= current
      BY DEF CollectionsNumbered
    <3>2. response[r].collections \in Nat
      BY NumbersOfCollections
    <3> QED BY <1>0, <2>1, <3>1, <3>2
  <2>5. ASSUME NEW q \in Requests PROVE pc'[q] \notin Inserting
    <3>1. CASE q = r
      BY <2>1, <3>1 DEF Inserting
    <3>2. CASE q # r
      <4>1. pc'[q] = pc[q]
        BY <1>0, <1>5, <3>2 DEF Reset
      <4>2. ~InUse(q)
        BY <2>2, <3>2, AloneHasNoRivals
      <4> QED BY <4>1, <4>2 DEF Inserting, InUse, Running
    <3> QED BY <3>1, <3>2
  <2>6. StillInserting(response[r].collections)' = {}
    BY <2>5 DEF StillInserting
  <2> QED BY <2>1, <2>2, <2>3, <2>4, <2>6 DEF ReportAt, Over
<1>6. CASE Submit(r) \/ StartTask(r) \/ NameService(r) \/ OpenCatalog(r)
  <2>1. pc'[r] \in {"queued", "name", "open", "platform", "silent"}
    BY <1>0, <1>2, <1>6 DEF Submit, StartTask, NameService, OpenCatalog
  <2> QED BY <1>1, <2>1 DEF Over
<1>7. CASE EndPlatform(r) \/ AddService(r) \/ BeginInsertSensor(r) \/ EndInsertSensor(r)
  <2>1. pc'[r] \in {"platform", "service", "silent", "insert", "insertEnd"}
    BY <1>0, <1>2, <1>7 DEF EndPlatform, AddService, BeginInsertSensor, EndInsertSensor,
                            NextPlatform
  <2> QED BY <1>1, <2>1 DEF Over
<1> QED BY <1>3, <1>4, <1>5, <1>6, <1>7 DEF Step

\* Every step keeps what is said of the report of a request that is alone.
LEMMA NextReport ==
  ASSUME TypeOK, QueueOfWaiting, CollectionsNumbered, OverlapsKnown, OwnHarvest, OwnReport,
         TypeOK', [Next]_vars
  PROVE  OwnReport'
<1>0. /\ pc \in [Requests -> Places] /\ url \in [Requests -> Urls \union {NoRequest}]
      /\ current \in Nat /\ current' \in Nat
      /\ \A r \in Requests : response[r].collections \in Nat
  <2>1. current' \in CollectionIds
    BY DEF TypeOK
  <2> QED BY <2>1, NumbersOfCollections DEF TypeOK, Places
<1>1. CASE UNCHANGED <<harvester, pc, url, task, response, written, overlapped>>
  <2>1. UNCHANGED <<current, collected, into>> /\ UNCHANGED <<pc, url, response, written, overlapped>>
    BY <1>1 DEF harvester, task
  <2>2. \A r \in Requests : ReportAt(r)' = ReportAt(r)
    BY <2>1 DEF ReportAt, Reports, Accounts, Listed, Elements, StillInserting
  <2> QED BY <2>1, <2>2 DEF OwnReport
<1>2. ASSUME NEW s \in Requests, SetRequest(s) PROVE OwnReport'
  <2>1. /\ overlapped \subseteq overlapped' /\ UNCHANGED <<current, collected, into, written, response>>
        /\ pc' = [pc EXCEPT ![s] = "submit"] /\ \E u \in Urls : url' = [url EXCEPT ![s] = u]
    BY <1>2 DEF SetRequest, Goto, task
  <2>2. ASSUME NEW r \in Requests \ overlapped, r # s, ~response[r].exception PROVE ReportAt(r)'
    <3>1. ReportAt(r) /\ pc'[r] = pc[r] /\ url'[r] = url[r]
      BY <1>0, <2>1, <2>2 DEF OwnReport
    <3>2. ASSUME NEW q \in Requests, pc'[q] \in Inserting PROVE pc[q] \in Inserting
      BY <1>0, <2>1, <3>2 DEF Inserting
    <3>3. pc[r] \in Over => StillInserting(response[r].collections)' = {}
      BY <2>1, <3>1, <3>2 DEF ReportAt, StillInserting
    <3> QED BY <1>0, <2>1, <3>1, <3>3, ReportIfKept
  <2>3. ReportAt(s)'
    BY <1>0, <2>1 DEF ReportAt, Over
  <2> QED BY <2>1, <2>2, <2>3 DEF OwnReport
<1>3. ASSUME NEW s \in Requests, Step(s) PROVE OwnReport'
  <2>1. overlapped' = overlapped /\ \A r \in Requests \ {s} : response'[r] = response[r]
    BY <1>3, StepFrames DEF Frame
  <2>2. ASSUME NEW r \in Requests \ overlapped, ~response'[r].exception PROVE ReportAt(r)'
    <3>1. CASE r = s
      BY <1>3, <2>2, <3>1, OwnStepReports DEF OwnReport, OwnHarvest
    <3>2. CASE r # s
      BY <1>3, <2>1, <2>2, <3>2, OthersReport DEF OwnReport
    <3> QED BY <3>1, <3>2
  <2> QED BY <2>1, <2>2 DEF OwnReport
<1>4. CASE NextDay
  BY <1>1, <1>4 DEF NextDay
<1> QED BY <1>1, <1>2, <1>3, <1>4 DEF Next, Terminated, vars

-----------------------------------------------------------------------------
(* Rows *)

\* Only an INSERT that does not know a row of the platform's document adds one.
LEMMA StepStores ==
  ASSUME NEW r \in Requests, Step(r)
  PROVE  \/ rows' = rows
         \/ /\ EndInsertSensor(r) /\ absent[r]
            /\ rows' = rows \union {[by |-> r, platform |-> Platform(r), end |-> End(r)]}
<1> USE DEF db
<1>1. CASE Submit(r) \/ StartTask(r) \/ Answer(r) \/ NameService(r) \/ OpenCatalog(r)
  BY <1>1 DEF Submit, StartTask, Answer, NameService, OpenCatalog
<1>2. CASE FillResponse(r) \/ Reset(r) \/ EndPlatform(r) \/ AddService(r) \/ BeginInsertSensor(r)
  BY <1>2 DEF FillResponse, Reset, EndPlatform, AddService, BeginInsertSensor
<1>3. CASE EndInsertSensor(r)
  BY <1>3 DEF EndInsertSensor
<1> QED BY <1>1, <1>2, <1>3 DEF Step

\* A task that comes to the end of its INSERT with a true subquery saw no row.
LEMMA StepSubquery ==
  ASSUME TypeOK, QueueOfWaiting, NEW r \in Requests, Step(r), pc'[r] = "insertEnd", absent'[r]
  PROVE  Known(r) = {} /\ UNCHANGED <<rows, asOf, todo>>
<1>0. pc \in [Requests -> Places] /\ absent \in [Requests -> BOOLEAN]
  BY DEF TypeOK, Places
<1>1. BeginInsertSensor(r)
  BY StepPlaces
<1> QED BY <1>0, <1>1 DEF BeginInsertSensor, NextPlatform, Throw, Goto, db

\* Rows that a request knows stay the same ones while its list does and no row is added.
LEMMA KnownIfKept ==
  ASSUME NEW q \in Requests, todo'[q] = todo[q], asOf'[q] = asOf[q]
  PROVE  Known(q)' = {x \in rows' : x.platform = Platform(q) /\ x.end = End(q)}
BY DEF Known, Platform, End

\* A row that an INSERT missed was written while both harvests were running.
LEMMA NextAbsent ==
  ASSUME TypeOK, QueueOfWaiting, OverlapsKnown, AbsentUnlessOverlapped, [Next]_vars
  PROVE  AbsentUnlessOverlapped'
<1>0. pc \in [Requests -> Places] /\ rows \subseteq Row
  BY DEF TypeOK, Places
<1>1. CASE UNCHANGED <<pc, todo, asOf, absent, rows, overlapped>>
  BY <1>1 DEF AbsentUnlessOverlapped, Known, Platform, End
<1>2. ASSUME NEW s \in Requests, SetRequest(s) PROVE AbsentUnlessOverlapped'
  <2>1. /\ UNCHANGED <<rows, asOf, todo, absent>> /\ overlapped \subseteq overlapped'
        /\ pc' = [pc EXCEPT ![s] = "submit"]
    BY <1>2 DEF SetRequest, Goto, db, task
  <2>2. \A q \in Requests : Known(q)' = Known(q)
    BY <2>1 DEF Known, Platform, End
  <2>3. \A x \in rows : x.by \in Requests
    BY <1>0 DEF Row
  <2> QED BY <1>0, <2>1, <2>2, <2>3 DEF AbsentUnlessOverlapped
<1>3. ASSUME NEW s \in Requests, Step(s) PROVE AbsentUnlessOverlapped'
  <2>1. PICK label \in Places : pc' = [pc EXCEPT ![s] = label]
    BY <1>3, StepFrames DEF Frame
  <2>2. /\ overlapped' = overlapped
        /\ \A q \in Requests \ {s} : asOf'[q] = asOf[q] /\ todo'[q] = todo[q] /\ absent'[q] = absent[q]
    BY <1>3, StepFrames DEF Frame
  <2>3. pc[s] # "idle" /\ pc'[s] # "idle"
    BY <1>3, StepUses
  <2>4. ASSUME NEW x \in rows PROVE x.by \in Requests /\ pc'[x.by] # "idle"
    <3>1. x.by \in Requests
      BY <1>0 DEF Row
    <3> QED BY <1>0, <2>1, <2>3, <3>1 DEF AbsentUnlessOverlapped
  <2>5. CASE rows' = rows
    <3>1. ASSUME NEW q \in Requests, pc'[q] = "insertEnd", absent'[q], NEW x \in Known(q)'
          PROVE  {q, x.by} \subseteq overlapped'
      <4>1. CASE q = s
        <5>1. Known(s) = {} /\ UNCHANGED <<asOf, todo>>
          BY <1>3, <3>1, <4>1, StepSubquery
        <5>2. Known(s)' = Known(s)
          BY <2>5, <5>1 DEF Known, Platform, End
        <5> QED BY <3>1, <4>1, <5>1, <5>2
      <4>2. CASE q # s
        <5>1. pc[q] = "insertEnd" /\ absent[q]
          BY <1>0, <2>1, <2>2, <3>1, <4>2
        <5>2. x \in Known(q)
          BY <2>2, <2>5, <3>1, <4>2, KnownIfKept DEF Known
        <5> QED BY <2>2, <5>1, <5>2 DEF AbsentUnlessOverlapped
      <4> QED BY <4>1, <4>2
    <3> QED BY <2>4, <2>5, <3>1 DEF AbsentUnlessOverlapped
  <2>6. CASE rows' # rows
    <3> DEFINE n == [by |-> s, platform |-> Platform(s), end |-> End(s)]
    <3>1. EndInsertSensor(s) /\ absent[s] /\ rows' = rows \union {n}
      BY <1>3, <2>6, StepStores
    <3>2. n.by = s
      OBVIOUS
    <3> HIDE DEF n
    <3>3. pc[s] = "insertEnd" /\ pc'[s] = "platform"
      BY <1>0, <3>1 DEF EndInsertSensor, NextPlatform, Goto
    <3>4. ASSUME NEW q \in Requests, pc'[q] = "insertEnd", absent'[q], NEW x \in Known(q)'
          PROVE  {q, x.by} \subseteq overlapped'
      <4>1. q # s /\ pc[q] = "insertEnd" /\ absent[q]
        BY <1>0, <2>1, <2>2, <3>3, <3>4
      <4>2. CASE x = n
        <5>1. InUse(q) /\ InUse(s)
          BY <3>3, <4>1 DEF InUse, Running
        <5>2. q \in overlapped /\ s \in overlapped
          BY <4>1, <5>1 DEF OverlapsKnown
        <5> QED BY <2>2, <3>2, <4>2, <5>2
      <4>3. CASE x # n
        <5>1. x \in Known(q)
          BY <2>2, <3>1, <3>4, <4>1, <4>3, KnownIfKept DEF Known
        <5> QED BY <2>2, <4>1, <5>1 DEF AbsentUnlessOverlapped
      <4> QED BY <4>2, <4>3
    <3> QED BY <2>3, <2>4, <3>1, <3>2, <3>4 DEF AbsentUnlessOverlapped
  <2> QED BY <2>5, <2>6
<1>4. CASE NextDay
  BY <1>1, <1>4 DEF NextDay, task, db
<1> QED BY <1>1, <1>2, <1>3, <1>4 DEF Next, Terminated, vars, task, db

\* The row of a harvest that is alone stays the only one of its document.
LEMMA NextOneRow ==
  ASSUME TypeOK, QueueOfWaiting, AbsentUnlessOverlapped, OneRowADay, [Next]_vars
  PROVE  OneRowADay'
<1>1. ASSUME rows' = rows, overlapped \subseteq overlapped'
      PROVE  OneRowADay'
  BY <1>1 DEF OneRowADay
<1>2. ASSUME NEW s \in Requests, SetRequest(s) PROVE OneRowADay'
  BY <1>1, <1>2 DEF SetRequest, db
<1>3. ASSUME NEW s \in Requests, Step(s) PROVE OneRowADay'
  <2>1. overlapped' = overlapped
    BY <1>3, StepFrames DEF Frame
  <2>2. CASE rows' = rows
    BY <1>1, <2>1, <2>2
  <2>3. CASE rows' # rows
    <3> DEFINE n == [by |-> s, platform |-> Platform(s), end |-> End(s)]
    <3>1. EndInsertSensor(s) /\ absent[s] /\ rows' = rows \union {n}
      BY <1>3, <2>3, StepStores
    <3>2. n.by = s /\ n.platform = Platform(s) /\ n.end = End(s)
      OBVIOUS
    <3> HIDE DEF n
    <3>3. ASSUME NEW y \in rows, y.platform = n.platform, y.end = n.end
          PROVE  s \in overlapped /\ y.by \in overlapped
      <4>1. y \in Known(s)
        BY <3>2, <3>3 DEF Known
      <4> QED BY <3>1, <4>1 DEF AbsentUnlessOverlapped, EndInsertSensor
    <3>4. ASSUME NEW x \in rows', x.by \notin overlapped,
                 NEW y \in rows', y.platform = x.platform, y.end = x.end
          PROVE  y = x
      <4>1. CASE x = n
        BY <3>1, <3>2, <3>3, <3>4, <4>1
      <4>2. CASE y = n
        BY <3>1, <3>2, <3>3, <3>4, <4>2
      <4>3. CASE x # n /\ y # n
        BY <3>1, <3>4, <4>3 DEF OneRowADay
      <4> QED BY <4>1, <4>2, <4>3
    <3> QED BY <2>1, <3>4 DEF OneRowADay
  <2> QED BY <2>2, <2>3
<1>4. CASE NextDay
  BY <1>1, <1>4 DEF NextDay, db
<1>5. CASE UNCHANGED vars
  BY <1>1, <1>5 DEF vars, db
<1> QED BY <1>2, <1>3, <1>4, <1>5 DEF Next, Terminated

-----------------------------------------------------------------------------
(* The theorems *)

LEMMA InitInductive == Init => Inductive
<1> SUFFICES ASSUME Init PROVE Inductive
  OBVIOUS
<1>0. CollectionIds \subseteq Nat /\ 0 \in CollectionIds /\ Cardinality(RequestsOver) \in Nat
  <2>1. IsFiniteSet(RequestsOver)
    BY RequestsAssumption, FS_Subset DEF RequestsOver
  <2> QED BY <2>1, NumbersOfCollections, FS_CardinalityType
<1>1. Empty \in Collections /\ IsFiniteSet(Empty.inserted) /\ IsFiniteSet(Empty.failed)
  BY FS_EmptySet DEF Empty, Collections
<1>2. [exception |-> FALSE, serviceUrl |-> NoRequest, collections |-> 0,
       inserted |-> 0, failed |-> 0] \in Response
  BY <1>0 DEF Response
<1>3. \A r \in Requests : pc[r] = "idle" /\ response[r].collections = 0
  BY DEF Init
<1>4. TypeOK
  BY <1>0, <1>1, <1>2, PoolAssumption DEF Init, TypeOK, Days
<1>5. QueueOfWaiting
  BY LenProperties DEF Init, QueueOfWaiting
<1>6. CollectionsNumbered
  BY <1>0, <1>1, <1>3 DEF Init, CollectionsNumbered
<1>7. Placed
  BY <1>3 DEF Init, Placed, AtPlatform, Inserting
<1>8. OverlapsKnown
  BY <1>3 DEF OverlapsKnown, InUse, Running
<1>9. CollectionsClean
  BY <1>0 DEF Init, CollectionsClean
<1>10. OwnHarvest
  BY <1>3 DEF OwnHarvest, HarvestAt, Looping, AtPlatform, Inserting
<1>11. OwnReport
  BY <1>3 DEF OwnReport, ReportAt, Over
<1>12. AbsentUnlessOverlapped /\ OneRowADay
  BY <1>3 DEF Init, AbsentUnlessOverlapped, OneRowADay
<1> QED BY <1>4, <1>5, <1>6, <1>7, <1>8, <1>9, <1>10, <1>11, <1>12 DEF Inductive

LEMMA NextInductive == Inductive /\ [Next]_vars => Inductive'
<1> SUFFICES ASSUME Inductive, [Next]_vars PROVE Inductive'
  OBVIOUS
<1>1. TypeOK'
  BY NextType
<1>2. QueueOfWaiting' /\ Placed' /\ OverlapsKnown'
  BY NextQueue, NextPlaced, NextOverlaps DEF Inductive
<1>3. CollectionsNumbered' /\ CollectionsClean'
  BY <1>1, NextNumbered, NextClean DEF Inductive
<1>4. OwnHarvest' /\ OwnReport'
  BY <1>1, NextHarvest, NextReport DEF Inductive
<1>5. AbsentUnlessOverlapped' /\ OneRowADay'
  BY NextAbsent, NextOneRow DEF Inductive
<1> QED BY <1>1, <1>2, <1>3, <1>4, <1>5 DEF Inductive

\* In every run of the harvester and its pool threads, wherever harvests break off
\* and whichever of them silent servers hold: each harvest that has the harvester
\* for itself accounts at every platform for those it has gone through and those
\* left, reset() hands out empty collections that no one else fills, and an INSERT
\* misses a row only of a harvest it overlaps with.
THEOREM InductiveHolds == Spec => []Inductive
BY InitInductive, NextInductive, PTL DEF Spec

\* The variables of the harvester, its tasks and the database have their types: what
\* a task reads from and a response names is the URL of a request, and reset() is
\* called no more often than there are requests.
THEOREM TypeCorrect == Spec => []TypeOK
<1>1. Inductive => TypeOK
  BY DEF Inductive
<1> QED BY <1>1, InductiveHolds, PTL

\* However many requests, pool threads and platforms there are: a request whose
\* harvester no other request touched from setRequest() to the end of reset() is
\* answered about each platform of its catalogue and no other.
THEOREM AllAccountedFor == Spec => []AloneAccountsForAll
<1>1. Inductive => AloneAccountsForAll
  <2> SUFFICES ASSUME Inductive, NEW r \in Requests, Responded(r), r \notin overlapped
               PROVE  /\ response[r].serviceUrl = url[r]
                      /\ written[r].failed \union {x[2] : x \in written[r].inserted} = Listed(r)
                      /\ \A x \in written[r].inserted : x[1] = r
                      /\ response[r].inserted = Cardinality(written[r].inserted)
                      /\ response[r].failed = Cardinality(written[r].failed)
    BY DEF AloneAccountsForAll
  <2> DEFINE c == response[r].collections
  <2>1. ReportAt(r) /\ pc[r] = "answered"
    BY DEF Inductive, OwnReport, Responded
  <2>2. Reports(r, c) /\ written[r] = collected[c]
    BY <2>1 DEF ReportAt, Over
  <2>3. collected[c].failed \union {x[2] : x \in collected[c].inserted} = Listed(r)
    BY <2>2, ElementsOfNone DEF Reports, Accounts
  <2>4. \A x \in collected[c].inserted : x[1] = r
    BY <2>2 DEF Reports, Accounts
  <2> QED BY <2>2, <2>3, <2>4 DEF Reports
<1> QED BY <1>1, InductiveHolds, PTL

\* A document that a harvest stored while it was alone, of a platform and the day its
\* catalogue was read, is the only one in the database for good, whatever harvests
\* of the same day or later ones follow and wherever they break off.
THEOREM StoredOnceADay == Spec => []OneRowADay
<1>1. Inductive => OneRowADay
  BY DEF Inductive
<1> QED BY <1>1, InductiveHolds, PTL
=============================================================================
