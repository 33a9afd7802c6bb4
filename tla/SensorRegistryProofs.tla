------------------------- MODULE SensorRegistryProofs -------------------------
(***************************************************************************)
(* Proofs about SensorRegistry: Inductive is an inductive invariant, the   *)
(* safety invariants follow from it, and the registry implements           *)
(* SensorCatalogue.                                                        *)
(***************************************************************************)
EXTENDS SensorRegistry, TLAPS

-----------------------------------------------------------------------------
(* Data *)

\* The first info or service reference and those left after it.
LEMMA HeadTail ==
  ASSUME NEW S, NEW s \in Seq(S), s # <<>>
  PROVE  Head(s) \in S /\ Tail(s) \in Seq(S)
  OBVIOUS

\* The fields of an info have their types.
LEMMA InfoFields ==
  ASSUME NEW i \in Info
  PROVE  /\ i.id \in SensorIds \union {None}
         /\ i.refs \in Seq(References)
         /\ i.kind = "newReferences" => i.id \in SensorIds
  BY DEF Info

\* Adding to one field of one reply leaves a function to replies.
LEMMA ReplyType ==
  ASSUME NEW f \in [Requests -> Reply], NEW r \in Requests
  PROVE  /\ \A S \in SUBSET SensorIds :
              [f EXCEPT ![r].deleted = f[r].deleted \union S] \in [Requests -> Reply]
         /\ \A L \in SUBSET (SensorIds \X References) :
              [f EXCEPT ![r].refs = f[r].refs \union L] \in [Requests -> Reply]
  <1>0. f[r] \in Reply
    OBVIOUS
  <1>1. \A L \in SUBSET (SensorIds \X References) : [f[r] EXCEPT !.refs = f[r].refs \union L] \in Reply
    BY <1>0 DEF Reply
  <1>2. \A S \in SUBSET SensorIds : [f[r] EXCEPT !.deleted = f[r].deleted \union S] \in Reply
    BY <1>0 DEF Reply
  <1>3. \A e \in Reply : [f EXCEPT ![r] = e] \in [Requests -> Reply]
    OBVIOUS
  <1> QED
    BY <1>1, <1>2, <1>3

-----------------------------------------------------------------------------
(* What a step of one request leaves alone *)

\* A step of request r does not touch the other listener calls.
OthersUntouched(r) ==
  \A q \in Requests \ {r} :
    /\ pc'[q] = pc[q]
    /\ todo'[q] = todo[q]
    /\ cur'[q] = cur[q]
    /\ refs'[q] = refs[q]
    /\ found'[q] = found[q]
    /\ absent'[q] = absent[q]
    /\ reply'[q] = reply[q]

\* The stores forget nothing but what is deleted.
NothingForgotten ==
  /\ solrAdded \union solrIndex \subseteq solrAdded' \union solrIndex'
  /\ solrIndex \union unindexed \subseteq solrIndex' \union unindexed'
  /\ sensor \union removed \subseteq sensor' \union removed'
  /\ removed \subseteq removed'
  /\ \A x \in SensorIds \X References :
       sensorService[x] > 0 => sensorService'[x] > 0 \/ x[1] \in removed'

\* A listener call works on its own local variables.
LEMMA StepFrame ==
  ASSUME TypeOK, NEW r \in Requests, Receive(r) \/ Step(r)
  PROVE  OthersUntouched(r)
  <1> USE DEF OthersUntouched, TypeOK, Goto, Throw, Breaks, tables, solr, locals, history
  <1>1. CASE Receive(r)
    BY <1>1 DEF Receive
  <1>2. CASE TakeInfo(r)
    BY <1>2 DEF TakeInfo, StartNewSensor, SkipInvalidSensor, StartReferences, StartDelete,
                DeleteReferences, UpdateSensor, Generate, NextInfo
  <1>3. CASE Respond(r)
    BY <1>3 DEF Respond
  <1>4. CASE SolrAdd(r)
    BY <1>4 DEF SolrAdd, SolrReturnsNull, SolrRejects
  <1>5. CASE SolrCommit(r)
    BY <1>5 DEF SolrCommit, SolrReturnsNull, SolrRejects, PublishAdded
  <1>6. CASE InsertSensor(r)
    BY <1>6 DEF InsertSensor
  <1>8. CASE LookupSensor(r)
    BY <1>8 DEF LookupSensor
  <1>9. CASE BeginInsertService(r)
    BY <1>9 DEF BeginInsertService
  <1>10. CASE EndInsertService(r)
    BY <1>10 DEF EndInsertService
  <1>11. CASE BeginInsertLink(r)
    BY <1>11 DEF BeginInsertLink
  <1>12. CASE EndInsertLink(r)
    BY <1>12 DEF EndInsertLink, ReferenceInserted, NextReference, NextInfo
  <1>13. CASE DeleteSensor(r)
    BY <1>13 DEF DeleteSensor, NextInfo
  <1>14. CASE StatementFails(r)
    BY <1>14 DEF StatementFails
  <1>15. CASE WriteAnswer(r)
    BY <1>15 DEF WriteAnswer, Answering
  <1> QED
    BY <1>1, <1>2, <1>3, <1>4, <1>5, <1>6, <1>8, <1>9, <1>10, <1>11, <1>12,
       <1>13, <1>14, <1>15 DEF Step

\* No statement loses a Solr document, a sensor, a link or a deletion.
LEMMA StepForgetsNothing ==
  ASSUME Inductive, NEW r \in Requests, Receive(r) \/ Step(r)
  PROVE  NothingForgotten
  <1> USE DEF Inductive, NothingForgotten, TypeOK, tables, solr, history
  <1>1. CASE Receive(r)
    BY <1>1 DEF Receive
  <1>2. CASE TakeInfo(r)
    BY <1>2 DEF TakeInfo, StartNewSensor, SkipInvalidSensor, StartReferences, StartDelete,
                DeleteReferences, UpdateSensor, Generate
  <1>3. CASE Respond(r)
    BY <1>3 DEF Respond
  <1>4. CASE SolrAdd(r)
    BY <1>4 DEF SolrAdd, SolrReturnsNull, SolrRejects
  <1>5. CASE SolrCommit(r)
    BY <1>5 DEF SolrCommit, SolrReturnsNull, SolrRejects, PublishAdded
  <1>6. CASE InsertSensor(r)
    BY <1>6 DEF InsertSensor
  <1>8. CASE LookupSensor(r)
    BY <1>8 DEF LookupSensor
  <1>9. CASE BeginInsertService(r)
    BY <1>9 DEF BeginInsertService
  <1>10. CASE EndInsertService(r)
    BY <1>10 DEF EndInsertService
  <1>11. CASE BeginInsertLink(r)
    BY <1>11 DEF BeginInsertLink
  <1>12. CASE EndInsertLink(r)
    BY <1>12 DEF EndInsertLink
  <1>13. CASE DeleteSensor(r)
    BY <1>13 DEF DeleteSensor, LinksPointToSensors
  <1>14. CASE StatementFails(r)
    BY <1>14 DEF StatementFails
  <1>15. CASE WriteAnswer(r)
    BY <1>15 DEF WriteAnswer, Answering
  <1> QED
    BY <1>1, <1>2, <1>3, <1>4, <1>5, <1>6, <1>8, <1>9, <1>10, <1>11, <1>12,
       <1>13, <1>14, <1>15 DEF Step

-----------------------------------------------------------------------------
(* Types *)

\* Empty stores and idle servlet threads satisfy the invariant.
LEMMA InitInductive ==
  Init => Inductive
  <1> SUFFICES ASSUME Init PROVE Inductive
    OBVIOUS
  <1>1. TypeOK
    BY DEF Init, TypeOK, EmptyReply, Reply
  <1>2. GeneratedOnce
    BY DEF Init, GeneratedOnce, InsertingSensor
  <1>3. \A r \in Requests : RemembersWell(r)
    BY DEF Init, RemembersWell, Working, InsertingSensor, AddingReference
  <1>4. LinksPointToSensors /\ ReportedDeletionsLast /\ ReportedReferencesStored
    BY DEF Init, LinksPointToSensors, ReportedDeletionsLast, ReportedReferencesStored, EmptyReply
  <1>5. IndexedBeforeOffered
    BY DEF Init, IndexedBeforeOffered
  <1> QED
    BY <1>1, <1>2, <1>3, <1>4, <1>5 DEF Inductive

\* While an info is being worked on, it and its identifier are there; while
\* references are added, the next one is there.
LEMMA Current ==
  ASSUME Inductive, NEW r \in Requests
  PROVE  /\ todo[r] \in Seq(Info) /\ refs[r] \in Seq(References)
         /\ todo[r] # <<>> => Head(todo[r]) \in Info /\ Tail(todo[r]) \in Seq(Info)
         /\ refs[r] # <<>> => Head(refs[r]) \in References /\ Tail(refs[r]) \in Seq(References)
         /\ pc[r] \in Working \ {"next"} => todo[r] # <<>> /\ cur[r] \in SensorIds
         /\ pc[r] \in AddingReference => refs[r] # <<>> /\ Link(r) \in SensorIds \X References
                                         /\ ServiceOf(r) \in Services
  <1>1. todo[r] \in Seq(Info) /\ refs[r] \in Seq(References)
    BY DEF Inductive, TypeOK
  <1>2. todo[r] # <<>> => Head(todo[r]) \in Info /\ Tail(todo[r]) \in Seq(Info)
    BY <1>1, HeadTail
  <1>3. refs[r] # <<>> => Head(refs[r]) \in References /\ Tail(refs[r]) \in Seq(References)
    BY <1>1, HeadTail
  <1>4. pc[r] \in Working \ {"next"} => todo[r] # <<>> /\ cur[r] \in SensorIds
    BY DEF Inductive, RemembersWell
  <1>5. pc[r] \in AddingReference => pc[r] \in Working \ {"next"} /\ refs[r] # <<>>
    BY DEF Inductive, RemembersWell, Working, AddingReference
  <1> QED
    BY <1>1, <1>2, <1>3, <1>4, <1>5 DEF Link, ServiceOf, References

\* Going on with the next info, or the next reference, keeps the types.
LEMMA GoOnType ==
  ASSUME TypeOK, NEW r \in Requests, todo[r] # <<>>, NextInfo(r) \/ NextReference(r)
  PROVE  /\ pc' \in [Requests -> {"idle", "lost"} \union Working \union Answering \union Answered]
         /\ todo' \in [Requests -> Seq(Info)]
  <1>1. Tail(todo[r]) \in Seq(Info)
    BY HeadTail DEF TypeOK
  <1>2. \/ pc' = [pc EXCEPT ![r] = "next"] /\ todo' = [todo EXCEPT ![r] = Tail(todo[r])]
        \/ pc' = [pc EXCEPT ![r] = "lookup"] /\ todo' = todo
    BY DEF NextReference, NextInfo, Goto
  <1> QED
    BY <1>1, <1>2 DEF TypeOK, Working, AddingReference

\* Every step of a request keeps the types.
LEMMA StepType ==
  ASSUME Inductive, NEW r \in Requests, Receive(r) \/ Step(r)
  PROVE  TypeOK'
  <1> USE NoneAssumption, InputAssumption
  <1> USE DEF Inductive, TypeOK, Goto, Throw, Breaks, tables, solr, locals, history,
              Working, InsertingSensor, AddingReference, Answering, Answered
  <1>0. /\ todo[r] # <<>> => Head(todo[r]) \in Info /\ Tail(todo[r]) \in Seq(Info)
        /\ refs[r] # <<>> => Head(refs[r]) \in References /\ Tail(refs[r]) \in Seq(References)
        /\ pc[r] \in Working \ {"next"} => todo[r] # <<>> /\ cur[r] \in SensorIds
        /\ pc[r] \in AddingReference => refs[r] # <<>> /\ Link(r) \in SensorIds \X References
                                        /\ ServiceOf(r) \in Services
    BY Current
  <1>1. CASE Receive(r)
    BY <1>1 DEF Receive
  <1>2. CASE TakeInfo(r)
    <2>1. Head(todo[r]) \in Info /\ Tail(todo[r]) \in Seq(Info)
      BY <1>0, <1>2 DEF TakeInfo
    <2>2. CASE StartNewSensor(r)
      BY <1>2, <2>2 DEF TakeInfo, StartNewSensor, Generate
    <2>3. CASE SkipInvalidSensor(r)
      BY <1>2, <2>1, <2>3 DEF TakeInfo, SkipInvalidSensor, Generate, NextInfo
    <2>4. CASE StartReferences(r)
      <3>1. Head(todo[r]).id \in SensorIds /\ Head(todo[r]).refs \in Seq(References)
        BY <2>1, <2>4, InfoFields DEF StartReferences
      <3>2. /\ pc' \in [Requests -> {"idle", "lost"} \union Working \union Answering \union Answered]
            /\ todo' \in [Requests -> Seq(Info)]
        BY <1>2, <2>4, GoOnType DEF TakeInfo, StartReferences
      <3> QED
        BY <1>2, <2>4, <3>1, <3>2 DEF TakeInfo, StartReferences
    <2>5. CASE StartDelete(r)
      BY <1>2, <2>1, <2>5, InfoFields DEF TakeInfo, StartDelete
    <2>6. CASE DeleteReferences(r)
      BY <1>2, <2>1, <2>6 DEF TakeInfo, DeleteReferences, NextInfo
    <2>7. CASE UpdateSensor(r)
      BY <1>2, <2>1, <2>7 DEF TakeInfo, UpdateSensor, NextInfo
    <2> QED
      BY <1>2, <2>2, <2>3, <2>4, <2>5, <2>6, <2>7 DEF TakeInfo
  <1>3. CASE Respond(r)
    BY <1>3 DEF Respond
  <1>4. CASE SolrAdd(r)
    BY <1>0, <1>4 DEF SolrAdd, SolrReturnsNull, SolrRejects
  <1>5. CASE SolrCommit(r)
    BY <1>0, <1>5 DEF SolrCommit, SolrReturnsNull, SolrRejects, PublishAdded
  <1>6. CASE InsertSensor(r)
    BY <1>6 DEF InsertSensor
  <1>8. CASE LookupSensor(r)
    BY <1>8 DEF LookupSensor
  <1>9. CASE BeginInsertService(r)
    BY <1>9 DEF BeginInsertService
  <1>10. CASE EndInsertService(r)
    BY <1>0, <1>10 DEF EndInsertService
  <1>11. CASE BeginInsertLink(r)
    BY <1>11 DEF BeginInsertLink
  <1>12. CASE EndInsertLink(r)
    <2>1. /\ Head(todo[r]) \in Info /\ Tail(todo[r]) \in Seq(Info)
          /\ Link(r) \in SensorIds \X References /\ Tail(refs[r]) \in Seq(References)
      BY <1>0, <1>12 DEF EndInsertLink
    <2>3. [reply EXCEPT ![r].refs = reply[r].refs \union {Link(r)}] \in [Requests -> Reply]
      <3>1. {Link(r)} \in SUBSET (SensorIds \X References)
        BY <2>1
      <3> QED
        BY <3>1, ReplyType
    <2>4. reply' \in [Requests -> Reply]
      BY <1>12, <2>3 DEF EndInsertLink, ReferenceInserted
    <2>5. /\ pc' \in [Requests -> {"idle", "lost"} \union Working \union Answering \union Answered]
          /\ todo' \in [Requests -> Seq(Info)]
      BY <1>0, <1>12, GoOnType DEF EndInsertLink, ReferenceInserted
    <2>6. refs' \in [Requests -> Seq(References)]
      BY <1>12, <2>1 DEF EndInsertLink, ReferenceInserted
    <2>7. sensorService' \in [SensorIds \X References -> Nat]
      <3>1. sensorService[Link(r)] + 1 \in Nat
        BY <2>1
      <3> QED
        BY <1>12, <3>1 DEF EndInsertLink
    <2> QED
      BY <1>12, <2>4, <2>5, <2>6, <2>7 DEF EndInsertLink
  <1>13. CASE DeleteSensor(r)
    <2>1. cur[r] \in SensorIds /\ Head(todo[r]) \in Info /\ Tail(todo[r]) \in Seq(Info)
      BY <1>0, <1>13 DEF DeleteSensor
    <2>2. [reply EXCEPT ![r].deleted = reply[r].deleted \union ({cur[r]} \intersect sensor)]
            \in [Requests -> Reply]
      BY <2>1, ReplyType
    <2>3. reply' \in [Requests -> Reply]
      BY <1>13, <2>2 DEF DeleteSensor
    <2>4. /\ pc' \in [Requests -> {"idle", "lost"} \union Working \union Answering \union Answered]
          /\ todo' \in [Requests -> Seq(Info)]
      BY <1>0, <1>13, GoOnType DEF DeleteSensor
    <2>5. sensorService' \in [SensorIds \X References -> Nat]
      BY <1>13 DEF DeleteSensor
    <2> QED
      BY <1>13, <2>1, <2>3, <2>4, <2>5 DEF DeleteSensor
  <1>14. CASE StatementFails(r)
    BY <1>14 DEF StatementFails
  <1>15. CASE WriteAnswer(r)
    BY <1>15 DEF WriteAnswer, Answering
  <1> QED
    BY <1>1, <1>2, <1>3, <1>4, <1>5, <1>6, <1>8, <1>9, <1>10, <1>11, <1>12,
       <1>13, <1>14, <1>15 DEF Step

-----------------------------------------------------------------------------
(* An identifier is generated once *)

\* A step that generates no identifier, stores no new one and takes nobody
\* into the insertion of a sensor.
LEMMA OnceFrame ==
  ASSUME GeneratedOnce, NEW r \in Requests, OthersUntouched(r),
         issued' = issued,
         sensor' \union removed' = sensor \union removed,
         sensor' \intersect removed' = {},
         solrAdded' \union solrIndex' \subseteq
           solrAdded \union solrIndex
             \union {id \in {cur[r]} : pc[r] \in InsertingSensor},
         pc'[r] \in InsertingSensor => pc[r] \in InsertingSensor /\ cur'[r] = cur[r]
  PROVE  GeneratedOnce'
  <1>1. \A q \in Requests : pc'[q] \in InsertingSensor =>
          pc[q] \in InsertingSensor /\ cur'[q] = cur[q]
    BY DEF OthersUntouched
  <1>2. /\ (sensor \union removed \union solrAdded \union solrIndex \subseteq issued)'
        /\ ((solrAdded \union solrIndex) \intersect (sensor \union removed) = {})'
    BY DEF GeneratedOnce
  <1>3. ASSUME NEW q \in Requests, pc'[q] \in InsertingSensor
        PROVE  /\ cur'[q] \in issued'
               /\ cur'[q] \notin sensor' \union removed'
               /\ \A p \in Requests \ {q} : pc'[p] \in InsertingSensor => cur'[p] # cur'[q]
    BY <1>1, <1>3 DEF GeneratedOnce
  <1> QED
    BY <1>2, <1>3 DEF GeneratedOnce

\* No step gives an identifier to a second sensor or request.
LEMMA StepGeneratedOnce ==
  ASSUME Inductive, NEW r \in Requests, Receive(r) \/ Step(r)
  PROVE  GeneratedOnce'
  <1>0. /\ GeneratedOnce
        /\ OthersUntouched(r)
        /\ pc \in [Requests -> {"idle", "lost"} \union Working \union Answering \union Answered]
        /\ cur \in [Requests -> SensorIds \union {None}]
    BY StepFrame DEF Inductive, TypeOK
  <1>a. sensor \intersect removed = {}
    BY <1>0 DEF GeneratedOnce
  <1> USE <1>0, <1>a DEF Goto, Throw, Breaks, tables, solr, locals, history, InsertingSensor
  <1>1. CASE Receive(r)
    BY <1>1, OnceFrame DEF Receive
  <1>2. CASE TakeInfo(r)
    <2>1. CASE StartNewSensor(r) \/ SkipInvalidSensor(r)
      <3>1. PICK id \in SensorIds \ issued :
              issued' = issued \union {id} /\ cur' = [cur EXCEPT ![r] = id]
        BY <2>1 DEF StartNewSensor, SkipInvalidSensor, Generate
      <3>2. UNCHANGED <<sensor, removed, solrAdded, solrIndex>>
        BY <1>2, <2>1 DEF TakeInfo, StartNewSensor, SkipInvalidSensor, Generate
      <3>3. cur'[r] = id
        BY <3>1
      <3>4. \A q \in Requests \ {r} : pc'[q] = pc[q] /\ cur'[q] = cur[q]
        BY DEF OthersUntouched
      <3>5. id \notin sensor \union removed
        BY DEF GeneratedOnce
      <3>6. \A q \in Requests \ {r} : pc[q] \in InsertingSensor => cur[q] # id
        BY DEF GeneratedOnce
      <3>7. ASSUME NEW q \in Requests, pc'[q] \in InsertingSensor
            PROVE  /\ cur'[q] \in issued'
                   /\ cur'[q] \notin sensor' \union removed'
                   /\ \A p \in Requests \ {q} : pc'[p] \in InsertingSensor => cur'[p] # cur'[q]
        BY <3>1, <3>2, <3>3, <3>4, <3>5, <3>6, <3>7 DEF GeneratedOnce
      <3> QED
        BY <3>1, <3>2, <3>7 DEF GeneratedOnce
    <2>2. CASE StartReferences(r)
      BY <1>2, <2>2, OnceFrame DEF TakeInfo, StartReferences, NextInfo
    <2>3. CASE StartDelete(r)
      BY <1>2, <2>3, OnceFrame DEF TakeInfo, StartDelete
    <2>4. CASE DeleteReferences(r)
      BY <1>2, <2>4, OnceFrame DEF TakeInfo, DeleteReferences, NextInfo
    <2>5. CASE UpdateSensor(r)
      BY <1>2, <2>5, OnceFrame DEF TakeInfo, UpdateSensor, NextInfo
    <2> QED
      BY <1>2, <2>1, <2>2, <2>3, <2>4, <2>5 DEF TakeInfo
  <1>3. CASE Respond(r)
    BY <1>3, OnceFrame DEF Respond
  <1>4. CASE SolrAdd(r)
    BY <1>4, OnceFrame DEF SolrAdd, SolrReturnsNull, SolrRejects
  <1>5. CASE SolrCommit(r)
    BY <1>5, OnceFrame DEF SolrCommit, SolrReturnsNull, SolrRejects, PublishAdded
  <1>6. CASE InsertSensor(r)
    BY <1>6, OnceFrame DEF InsertSensor
  <1>8. CASE LookupSensor(r)
    BY <1>8, OnceFrame DEF LookupSensor
  <1>9. CASE BeginInsertService(r)
    BY <1>9, OnceFrame DEF BeginInsertService
  <1>10. CASE EndInsertService(r)
    BY <1>10, OnceFrame DEF EndInsertService
  <1>11. CASE BeginInsertLink(r)
    BY <1>11, OnceFrame DEF BeginInsertLink
  <1>12. CASE EndInsertLink(r)
    BY <1>12, OnceFrame DEF EndInsertLink, ReferenceInserted, NextReference, NextInfo
  <1>13. CASE DeleteSensor(r)
    <2>1. /\ sensor' \union removed' = sensor \union removed
          /\ sensor' \intersect removed' = {}
      BY <1>13 DEF DeleteSensor
    <2>2. pc'[r] \notin InsertingSensor /\ issued' = issued
      BY <1>13 DEF DeleteSensor, NextInfo
    <2>3. UNCHANGED solr
      BY <1>13 DEF DeleteSensor
    <2> QED
      BY <2>1, <2>2, <2>3, OnceFrame
  <1>14. CASE StatementFails(r)
    BY <1>14, OnceFrame DEF StatementFails
  <1>15. CASE WriteAnswer(r)
    BY <1>15, OnceFrame DEF WriteAnswer
  <1> QED
    BY <1>1, <1>2, <1>3, <1>4, <1>5, <1>6, <1>8, <1>9, <1>10, <1>11, <1>12,
       <1>13, <1>14, <1>15 DEF Step

-----------------------------------------------------------------------------
(* What a request remembers *)

\* What the other requests remember survives a step of r.
LEMMA OthersRemember ==
  ASSUME Inductive, NEW r \in Requests, OthersUntouched(r), NothingForgotten,
         NEW q \in Requests \ {r}
  PROVE  RemembersWell(q)'
  <1>1. /\ pc'[q] = pc[q] /\ todo'[q] = todo[q] /\ cur'[q] = cur[q]
        /\ refs'[q] = refs[q] /\ found'[q] = found[q] /\ absent'[q] = absent[q]
    BY DEF OthersUntouched
  <1>2. RemembersWell(q)
    BY DEF Inductive
  <1>3. pc[q] = "linkEnd" => Link(q) \in SensorIds \X References /\ Link(q)[1] = cur[q]
    BY Current DEF AddingReference, Link
  <1>4. Link(q)' = Link(q)
    BY <1>1 DEF Link
  <1>5. pc[q] = "linkEnd" /\ ~absent[q] =>
          sensorService'[Link(q)] > 0 \/ cur[q] \in removed'
    BY <1>2, <1>3 DEF RemembersWell, NothingForgotten
  <1>6. /\ pc[q] = "solrCommit" => cur[q] \in solrAdded' \union solrIndex'
        /\ pc[q] \in AddingReference \ {"lookup"} /\ found[q] => cur[q] \in sensor' \union removed'
    BY <1>2 DEF RemembersWell, NothingForgotten
  <1>7. /\ pc[q] \in Working \ {"next"} => todo[q] # <<>> /\ cur[q] \in SensorIds
        /\ pc[q] \in AddingReference => refs[q] # <<>>
    BY <1>2 DEF RemembersWell
  <1> QED
    BY <1>1, <1>4, <1>5, <1>6, <1>7 DEF RemembersWell

\* A request that goes on with the next info or reference, that ends, or that
\* looks the sensor up next, has nothing to remember but the current info.
LEMMA NothingToRemember ==
  ASSUME NEW r \in Requests,
         pc'[r] \in {"next", "lookup"} \union Answering \union Answered,
         pc'[r] = "lookup" => todo'[r] # <<>> /\ cur'[r] \in SensorIds /\ refs'[r] # <<>>
  PROVE  RemembersWell(r)'
  BY DEF RemembersWell, Working, InsertingSensor, AddingReference, Answering, Answered

\* After its step, a request remembers what the stores know.
LEMMA StepRemembers ==
  ASSUME Inductive, NEW r \in Requests, Receive(r) \/ Step(r)
  PROVE  RemembersWell(r)'
  <1>0. /\ pc \in [Requests -> {"idle", "lost"} \union Working \union Answering \union Answered]
        /\ todo \in [Requests -> Seq(Info)]
        /\ cur \in [Requests -> SensorIds \union {None}]
        /\ refs \in [Requests -> Seq(References)]
        /\ found \in [Requests -> BOOLEAN]
        /\ absent \in [Requests -> BOOLEAN]
        /\ RemembersWell(r)
    BY DEF Inductive, TypeOK
  <1> USE <1>0 DEF Goto, Throw, Breaks, locals, Answering, Answered
  <1>1. CASE Receive(r)
    BY <1>1, NothingToRemember DEF Receive
  <1>2. CASE TakeInfo(r)
    <2>1. CASE StartNewSensor(r)
      <3>1. pc'[r] = "solrAdd" /\ todo'[r] # <<>> /\ cur'[r] \in SensorIds
        BY <1>2, <2>1 DEF TakeInfo, StartNewSensor, Generate
      <3> QED
        BY <3>1 DEF RemembersWell, Working, AddingReference
    <2>2. CASE SkipInvalidSensor(r)
      BY <1>2, <2>2, NothingToRemember DEF TakeInfo, SkipInvalidSensor, NextInfo
    <2>3. CASE StartReferences(r)
      <3>1. Head(todo[r]) \in Info
        BY <1>2, Current DEF TakeInfo
      <3>2. Head(todo[r]).id \in SensorIds
        BY <2>3, <3>1, InfoFields DEF StartReferences
      <3> QED
        BY <1>2, <2>3, <3>2, NothingToRemember DEF TakeInfo, StartReferences, NextInfo
    <2>4. CASE StartDelete(r)
      <3>1. CASE Head(todo[r]).id = None
        BY <2>4, <3>1, NothingToRemember DEF StartDelete
      <3>2. CASE Head(todo[r]).id # None
        <4>1. Head(todo[r]).id \in SensorIds
          BY <1>2, <3>2, Current, InfoFields DEF TakeInfo
        <4>2. pc'[r] = "delete" /\ todo'[r] # <<>> /\ cur'[r] \in SensorIds
          BY <1>2, <2>4, <3>2, <4>1 DEF TakeInfo, StartDelete
        <4> QED
          BY <4>2 DEF RemembersWell, Working, AddingReference
      <3> QED
        BY <3>1, <3>2
    <2>5. CASE DeleteReferences(r)
      BY <1>2, <2>5, NothingToRemember DEF TakeInfo, DeleteReferences, NextInfo
    <2>6. CASE UpdateSensor(r)
      BY <1>2, <2>6, NothingToRemember DEF TakeInfo, UpdateSensor, NextInfo
    <2> QED
      BY <1>2, <2>1, <2>2, <2>3, <2>4, <2>5, <2>6 DEF TakeInfo
  <1>3. CASE Respond(r)
    BY <1>3, NothingToRemember DEF Respond
  <1>4. CASE SolrAdd(r)
    <2>1. todo'[r] # <<>> /\ cur'[r] \in SensorIds
      BY <1>4 DEF SolrAdd, RemembersWell, Working, InsertingSensor
    <2>2. \/ pc'[r] = "solrCommit" /\ cur'[r] \in solrAdded'
          \/ pc'[r] = "insertSensor"
          \/ pc'[r] = "exception"
      BY <1>4 DEF SolrAdd, SolrReturnsNull, SolrRejects
    <2> QED
      BY <2>1, <2>2 DEF RemembersWell, Working, AddingReference
  <1>5. CASE SolrCommit(r)
    <2>1. todo'[r] # <<>> /\ cur'[r] \in SensorIds
      BY <1>5 DEF SolrCommit, RemembersWell, Working, InsertingSensor
    <2>2. pc'[r] = "insertSensor" \/ pc'[r] = "exception"
      BY <1>5 DEF SolrCommit, SolrReturnsNull, SolrRejects, PublishAdded
    <2> QED
      BY <2>1, <2>2 DEF RemembersWell, Working, AddingReference
  <1>6. CASE InsertSensor(r)
    BY <1>6, NothingToRemember DEF InsertSensor
  <1>8. CASE LookupSensor(r)
    BY <1>8 DEF LookupSensor, RemembersWell, Working, AddingReference, tables, history
  <1>9. CASE BeginInsertService(r)
    BY <1>9 DEF BeginInsertService, RemembersWell, Working, AddingReference, tables, history
  <1>10. CASE EndInsertService(r)
    <2>1. /\ todo[r] # <<>> /\ cur[r] \in SensorIds /\ refs[r] # <<>>
          /\ found[r] => cur[r] \in sensor \union removed
      BY <1>10 DEF EndInsertService, RemembersWell, Working, AddingReference
    <2>2. CASE pc'[r] = "link"
      BY <1>10, <2>1, <2>2 DEF EndInsertService, RemembersWell, AddingReference, history
    <2>3. CASE pc'[r] = "exception"
      BY <2>3, NothingToRemember
    <2> QED
      BY <1>10, <2>2, <2>3 DEF EndInsertService
  <1>11. CASE BeginInsertLink(r)
    <2>1. /\ todo[r] # <<>> /\ cur[r] \in SensorIds /\ refs[r] # <<>>
          /\ found[r] => cur[r] \in sensor \union removed
      BY <1>11 DEF BeginInsertLink, RemembersWell, Working, AddingReference
    <2>2. CASE found[r]
      <3>1. /\ UNCHANGED <<todo, cur, refs, found, sensor, removed, sensorService>>
            /\ pc'[r] = "linkEnd"
            /\ absent'[r] <=> sensorService[Link(r)] = 0
        BY <1>11, <2>2 DEF BeginInsertLink, tables, history
      <3>2. Link(r) \in SensorIds \X References /\ Link(r)' = Link(r)
        BY <1>11, <3>1, Current DEF BeginInsertLink, AddingReference, Link
      <3>3. sensorService[Link(r)] \in Nat
        BY <3>2 DEF Inductive, TypeOK
      <3>4. ~absent'[r] => sensorService[Link(r)] > 0
        BY <3>1, <3>3
      <3>5. sensorService'[Link(r)'] = sensorService[Link(r)]
        BY <3>1, <3>2
      <3> QED
        BY <2>1, <3>1, <3>4, <3>5 DEF RemembersWell
    <2>3. CASE ~found[r]
      BY <1>11, <2>3, NothingToRemember DEF BeginInsertLink
    <2> QED
      BY <2>2, <2>3
  <1>12. CASE EndInsertLink(r)
    <2>1. todo[r] # <<>> /\ cur[r] \in SensorIds
      BY <1>12 DEF EndInsertLink, RemembersWell, Working, AddingReference
    <2>2. CASE ReferenceInserted(r)
      BY <1>12, <2>1, <2>2, NothingToRemember
         DEF EndInsertLink, ReferenceInserted, NextReference, NextInfo
    <2>3. CASE Throw(r)
      BY <2>3, NothingToRemember
    <2> QED
      BY <1>12, <2>2, <2>3 DEF EndInsertLink
  <1>13. CASE DeleteSensor(r)
    BY <1>13, NothingToRemember DEF DeleteSensor, NextInfo
  <1>14. CASE StatementFails(r)
    BY <1>14, NothingToRemember DEF StatementFails
  <1>15. CASE WriteAnswer(r)
    BY <1>15, NothingToRemember DEF WriteAnswer
  <1> QED
    BY <1>1, <1>2, <1>3, <1>4, <1>5, <1>6, <1>8, <1>9, <1>10, <1>11, <1>12,
       <1>13, <1>14, <1>15 DEF Step

-----------------------------------------------------------------------------
(* The safety invariants *)

\* Only two steps of a request write a sensor, a link or the response.
LEMMA OthersWriteNothing ==
  ASSUME NEW r \in Requests, Receive(r) \/ Step(r),
         ~EndInsertLink(r), ~DeleteSensor(r)
  PROVE  UNCHANGED <<sensor, sensorService, removed, reply>>
  BY DEF Step, Receive, TakeInfo, StartNewSensor, SkipInvalidSensor, StartReferences,
         StartDelete, DeleteReferences, UpdateSensor, Generate, Respond, SolrAdd, SolrCommit,
         SolrReturnsNull, SolrRejects, InsertSensor, LookupSensor, BeginInsertService,
         EndInsertService, BeginInsertLink, StatementFails, WriteAnswer, tables, locals, history

\* A link goes in only next to its sensor and leaves together with it.
LEMMA StepLinks ==
  ASSUME Inductive, NEW r \in Requests, Receive(r) \/ Step(r)
  PROVE  LinksPointToSensors'
  <1> USE DEF Inductive, LinksPointToSensors
  <1>0. sensorService \in [SensorIds \X References -> Nat]
    BY DEF TypeOK
  <1>2. CASE EndInsertLink(r)
    <2>1. UNCHANGED sensor
      BY <1>2 DEF EndInsertLink
    <2>2. CASE absent[r] /\ cur[r] \in sensor
                /\ sensorService' = [sensorService EXCEPT ![Link(r)] = @ + 1]
      <3>1. \A x \in SensorIds \X References : x # Link(r) => sensorService'[x] = sensorService[x]
        BY <1>0, <2>2
      <3>2. Link(r)[1] \in sensor
        BY <2>2 DEF Link
      <3> QED
        BY <2>1, <3>1, <3>2
    <2>3. CASE UNCHANGED sensorService
      BY <2>1, <2>3
    <2> QED
      BY <1>2, <2>2, <2>3 DEF EndInsertLink
  <1>3. CASE DeleteSensor(r)
    BY <1>0, <1>3 DEF DeleteSensor
  <1> QED
    BY <1>2, <1>3, OthersWriteNothing

\* The response gains a sensor in the step that deletes its row, and no step of
\* a request stores a sensor.
LEMMA StepReportedDeletions ==
  ASSUME Inductive, NEW r \in Requests, Receive(r) \/ Step(r)
  PROVE  ReportedDeletionsLast'
  <1> USE DEF Inductive, ReportedDeletionsLast
  <1>0. /\ reply \in [Requests -> Reply]
        /\ \A q \in Requests \ {r} : reply'[q] = reply[q]
    BY StepFrame DEF TypeOK, OthersUntouched
  <1>2. CASE EndInsertLink(r)
    <2>1. UNCHANGED <<sensor, removed>>
      BY <1>2 DEF EndInsertLink, history
    <2>2. reply'[r].deleted = reply[r].deleted
      BY <1>0, <1>2 DEF EndInsertLink, ReferenceInserted, Reply
    <2> QED
      BY <1>0, <2>1, <2>2
  <1>3. CASE DeleteSensor(r)
    <2>1. /\ sensor' = sensor \ {cur[r]}
          /\ removed' = removed \union ({cur[r]} \intersect sensor)
      BY <1>3 DEF DeleteSensor
    <2>2. reply'[r].deleted \subseteq reply[r].deleted \union ({cur[r]} \intersect sensor)
      BY <1>0, <1>3 DEF DeleteSensor, Reply
    <2> QED
      BY <1>0, <2>1, <2>2
  <1> QED
    BY <1>2, <1>3, OthersWriteNothing

\* A counted reference is linked, by this request or, if the subquery saw a
\* row, by another one.
LEMMA StepReportedReferences ==
  ASSUME Inductive, NEW r \in Requests, Receive(r) \/ Step(r)
  PROVE  ReportedReferencesStored'
  <1>0. /\ reply \in [Requests -> Reply]
        /\ sensorService \in [SensorIds \X References -> Nat]
        /\ \A q \in Requests \ {r} : reply'[q] = reply[q]
        /\ \A q \in Requests : reply[q].refs \subseteq SensorIds \X References
        /\ ReportedReferencesStored
    BY StepFrame DEF Inductive, TypeOK, OthersUntouched, Reply
  \* What was counted before stays linked, or its sensor is deleted.
  <1>1. \A q \in Requests : \A x \in reply[q].refs :
          sensorService'[x] > 0 \/ x[1] \in removed'
    BY <1>0, StepForgetsNothing DEF NothingForgotten, ReportedReferencesStored
  <1>3. CASE EndInsertLink(r)
    <2>1. reply'[r].refs = reply[r].refs \/
            (ReferenceInserted(r) /\ reply'[r].refs = reply[r].refs \union {Link(r)})
      BY <1>0, <1>3 DEF EndInsertLink, ReferenceInserted, Reply
    <2>2. ASSUME ReferenceInserted(r)
          PROVE  sensorService'[Link(r)] > 0 \/ Link(r)[1] \in removed'
      <3>1. Link(r) \in SensorIds \X References /\ Link(r)[1] = cur[r]
        BY <1>3, Current DEF EndInsertLink, AddingReference, Link
      <3>2. sensorService[Link(r)] \in Nat
        BY <1>0, <3>1
      <3>3. CASE absent[r] /\ sensorService' = [sensorService EXCEPT ![Link(r)] = @ + 1]
        BY <1>0, <3>1, <3>2, <3>3
      <3>4. CASE ~absent[r] /\ sensorService' = sensorService
        <4>1. sensorService[Link(r)] > 0 \/ cur[r] \in removed
          BY <1>3, <3>4 DEF Inductive, RemembersWell, EndInsertLink
        <4>2. UNCHANGED removed
          BY <1>3 DEF EndInsertLink, history
        <4> QED
          BY <3>1, <3>4, <4>1, <4>2
      <3>5. absent[r] /\ cur[r] \notin sensor /\ Throw(r) => ~ReferenceInserted(r)
        BY <1>3 DEF ReferenceInserted, NextReference, NextInfo, Goto, Throw, EndInsertLink,
                    Inductive, TypeOK
      <3> QED
        BY <1>3, <2>2, <3>3, <3>4, <3>5 DEF EndInsertLink
    <2> QED
      BY <1>0, <1>1, <2>1, <2>2 DEF ReportedReferencesStored
  <1>4. CASE DeleteSensor(r)
    <2>1. reply'[r].refs = reply[r].refs
      BY <1>0, <1>4 DEF DeleteSensor, Reply
    <2> QED
      BY <1>0, <1>1, <2>1 DEF ReportedReferencesStored
  <1>5. CASE UNCHANGED reply
    BY <1>1, <1>5 DEF ReportedReferencesStored
  <1> QED
    BY <1>3, <1>4, <1>5, OthersWriteNothing

\* The listener turns to the database after a commit that published the
\* document, its own or an earlier one, or after the DAO returned null.
LEMMA StepIndexed ==
  ASSUME Inductive, NEW r \in Requests, Receive(r) \/ Step(r)
  PROVE  IndexedBeforeOffered'
  <1>0. /\ solrIndex \union unindexed \subseteq solrIndex' \union unindexed'
        /\ \A q \in Requests \ {r} : pc'[q] = pc[q] /\ cur'[q] = cur[q]
        /\ pc \in [Requests -> {"idle", "lost"} \union Working \union Answering \union Answered]
    BY StepForgetsNothing, StepFrame DEF NothingForgotten, OthersUntouched, Inductive, TypeOK
  <1>1. ASSUME pc'[r] = "insertSensor"
        PROVE  cur'[r] \in solrIndex' \union unindexed'
    <2>1. CASE SolrAdd(r)
      BY <1>0, <1>1, <2>1 DEF SolrAdd, SolrReturnsNull, SolrRejects, Goto, locals
    <2>2. CASE SolrCommit(r)
      <3>1. cur[r] \in solrAdded \union solrIndex
        BY <2>2 DEF SolrCommit, Inductive, RemembersWell
      <3> QED
        BY <1>0, <1>1, <2>2, <3>1
           DEF SolrCommit, SolrReturnsNull, SolrRejects, PublishAdded, Goto, locals
    <2>3. CASE ~SolrAdd(r) /\ ~SolrCommit(r)
      BY <1>0, <1>1, <2>3
         DEF Step, Receive, TakeInfo, StartNewSensor, SkipInvalidSensor, StartReferences,
             StartDelete, DeleteReferences, UpdateSensor, Respond, InsertSensor,
             LookupSensor, BeginInsertService, EndInsertService, BeginInsertLink,
             EndInsertLink, ReferenceInserted, NextReference, DeleteSensor, StatementFails,
             WriteAnswer, NextInfo, Throw, Breaks, Goto
    <2> QED
      BY <2>1, <2>2, <2>3
  <1> QED
    BY <1>0, <1>1 DEF Inductive, IndexedBeforeOffered

-----------------------------------------------------------------------------
(* The invariant *)

\* A crash of the container leaves the stores as they are.
LEMMA CrashInductive ==
  ASSUME Inductive, Crash
  PROVE  Inductive'
  <1> USE DEF Crash, Inductive, tables, solr, locals, history
  <1>1. \A q \in Requests :
          pc'[q] = pc[q] \/ pc'[q] = "lost"
    OBVIOUS
  <1>2. TypeOK'
    BY DEF TypeOK
  <1>3. GeneratedOnce'
    BY <1>1 DEF GeneratedOnce, InsertingSensor
  <1>4. ASSUME NEW q \in Requests PROVE RemembersWell(q)'
    <2>1. CASE pc'[q] = "lost"
      BY <2>1 DEF RemembersWell, Working, InsertingSensor, AddingReference
    <2>2. CASE pc'[q] = pc[q]
      BY <2>2 DEF RemembersWell, Link
    <2> QED
      BY <1>1, <2>1, <2>2
  <1>5. LinksPointToSensors' /\ ReportedDeletionsLast' /\ ReportedReferencesStored'
    BY DEF LinksPointToSensors, ReportedDeletionsLast, ReportedReferencesStored
  <1>6. IndexedBeforeOffered'
    BY DEF IndexedBeforeOffered
  <1> QED
    BY <1>2, <1>3, <1>4, <1>5, <1>6

\* A harvest on another thread adds a service, or a sensor under an identifier
\* that nothing in either store or in a request has.
LEMMA HarvestInductive ==
  ASSUME Inductive,
         (\E s \in Services : HarvestService(s)) \/ (\E id \in Harvested : HarvestSensor(id))
  PROVE  Inductive'
  <1> USE DEF solr, locals
  <1>1. CASE \E s \in Services : HarvestService(s)
    <2>1. TypeOK'
      BY <1>1 DEF HarvestService, Inductive, TypeOK, history
    <2>2. GeneratedOnce' /\ LinksPointToSensors' /\ ReportedDeletionsLast'
          /\ ReportedReferencesStored' /\ IndexedBeforeOffered'
      BY <1>1 DEF HarvestService, Inductive, GeneratedOnce, LinksPointToSensors,
                  ReportedDeletionsLast, ReportedReferencesStored, IndexedBeforeOffered, history
    <2>3. ASSUME NEW q \in Requests PROVE RemembersWell(q)'
      BY <1>1 DEF HarvestService, Inductive, RemembersWell, Link, history
    <2> QED
      BY <2>1, <2>2, <2>3 DEF Inductive
  <1>2. CASE \E id \in Harvested : HarvestSensor(id)
    <2>1. PICK id \in SensorIds : HarvestSensor(id)
      BY <1>2, HarvestedAssumption
    <2>2. TypeOK'
      BY <2>1 DEF HarvestSensor, Inductive, TypeOK
    <2>3. GeneratedOnce'
      BY <2>1 DEF HarvestSensor, Inductive, GeneratedOnce
    <2>4. LinksPointToSensors' /\ ReportedReferencesStored' /\ IndexedBeforeOffered'
      BY <2>1 DEF HarvestSensor, Inductive, LinksPointToSensors, ReportedReferencesStored,
                  IndexedBeforeOffered
    <2>5. id \notin removed
      BY <2>1 DEF HarvestSensor, Inductive, GeneratedOnce
    <2>6. ReportedDeletionsLast'
      BY <2>1, <2>5 DEF HarvestSensor, Inductive, ReportedDeletionsLast
    <2>7. ASSUME NEW q \in Requests PROVE RemembersWell(q)'
      BY <2>1 DEF HarvestSensor, Inductive, RemembersWell, Link
    <2> QED
      BY <2>2, <2>3, <2>4, <2>6, <2>7 DEF Inductive
  <1> QED
    BY <1>1, <1>2

\* The invariant reads nothing but the variables.
LEMMA StutterInductive ==
  ASSUME Inductive, UNCHANGED vars
  PROVE  Inductive'
  BY DEF Inductive, TypeOK, GeneratedOnce, RemembersWell, Link, LinksPointToSensors,
         ReportedDeletionsLast, ReportedReferencesStored, IndexedBeforeOffered,
         vars, tables, solr, locals, history

\* Every step keeps the invariant.
LEMMA NextInductive ==
  Inductive /\ [Next]_vars => Inductive'
  <1> SUFFICES ASSUME Inductive, [Next]_vars PROVE Inductive'
    OBVIOUS
  <1>1. ASSUME NEW r \in Requests, Receive(r) \/ Step(r) PROVE Inductive'
    <2>1. OthersUntouched(r) /\ NothingForgotten
      BY <1>1, StepFrame, StepForgetsNothing DEF Inductive
    <2>2. \A q \in Requests : RemembersWell(q)'
      BY <1>1, <2>1, StepRemembers, OthersRemember
    <2> QED
      BY <1>1, <2>2, StepType, StepGeneratedOnce, StepLinks, StepReportedDeletions,
         StepReportedReferences, StepIndexed DEF Inductive
  <1> QED
    BY <1>1, HarvestInductive, CrashInductive, StutterInductive DEF Next, Terminated

\* Inductive holds in every state the registry can reach.
THEOREM InductiveHolds == Spec => []Inductive
  BY InitInductive, NextInductive, PTL DEF Spec

\* Every listener call stays in the states its code has, and every store holds
\* what its columns may hold.
THEOREM TypeCorrect == Spec => []TypeOK
  BY InductiveHolds, PTL DEF Inductive

\* No interleaving of addNewReference() and deleteSensor() leaves a row of
\* sensor_service whose sensor is gone.
THEOREM LinksCorrect == Spec => []LinksPointToSensors
  BY InductiveHolds, PTL DEF Inductive

\* The sensors that the responses of DeleteSensorInfo report were really
\* removed, and never come back.
THEOREM ReportedDeletionsCorrect == Spec => []ReportedDeletionsLast
  BY InductiveHolds, PTL DEF Inductive

\* The service references that the responses count are linked.
THEOREM ReportedReferencesCorrect == Spec => []ReportedReferencesStored
  BY InductiveHolds, PTL DEF Inductive

\* A sensor is offered to the database only after Solr published it, unless
\* the DAO had returned null.
THEOREM IndexedCorrect == Spec => []IndexedBeforeOffered
  BY InductiveHolds, PTL DEF Inductive

-----------------------------------------------------------------------------
(* The registry implements the catalogue *)

\* The empty stores are the empty catalogue.
LEMMA InitCatalogue ==
  Init => Catalogue!Init
  BY DEF Init, Catalogue!Init

\* A statement of a request is one step of the catalogue, or none.
LEMMA StepCatalogue ==
  ASSUME Inductive, NEW r \in Requests, Receive(r) \/ Step(r)
  PROVE  [Catalogue!Next]_(Catalogue!vars)
  <1> DEFINE linked == {x \in SensorIds \X References : sensorService[x] > 0}
  <1>0. sensorService \in [SensorIds \X References -> Nat]
    BY DEF Inductive, TypeOK
  <1>2. CASE EndInsertLink(r)
    <2>1. /\ cur[r] \in SensorIds /\ Head(refs[r]) \in References
          /\ Link(r) \in SensorIds \X References /\ sensorService[Link(r)] \in Nat
      BY <1>0, <1>2, Current DEF EndInsertLink, Working, AddingReference
    <2>2. UNCHANGED <<sensor, removed>>
      BY <1>2 DEF EndInsertLink, history
    <2>3. CASE cur[r] \in sensor /\ sensorService' = [sensorService EXCEPT ![Link(r)] = @ + 1]
      <3>1. sensorService'[Link(r)] > 0
        BY <1>0, <2>1, <2>3
      <3>2. \A x \in SensorIds \X References : x # Link(r) => sensorService'[x] = sensorService[x]
        BY <1>0, <2>3
      <3>3. linked' = linked \union {Link(r)}
        BY <2>1, <3>1, <3>2
      <3>4. \E id \in SensorIds : \E ref \in References : Catalogue!LinkTo(id, ref)
        BY <2>1, <2>2, <2>3, <3>3 DEF Catalogue!LinkTo, Link
      <3> QED
        BY <3>4 DEF Catalogue!Next
    <2>4. CASE UNCHANGED sensorService
      BY <2>2, <2>4 DEF Catalogue!vars
    <2> QED
      BY <1>2, <2>3, <2>4 DEF EndInsertLink
  <1>3. CASE DeleteSensor(r)
    <2>1. cur[r] \in SensorIds
      BY <1>3, Current DEF DeleteSensor, Working
    <2>2. linked' = {x \in linked : x[1] # cur[r]}
      BY <1>0, <1>3 DEF DeleteSensor
    <2>3. CASE cur[r] \in sensor
      <3>1. sensor' = sensor \ {cur[r]} /\ removed' = removed \union {cur[r]}
        BY <1>3, <2>3 DEF DeleteSensor
      <3>2. \E id \in SensorIds : Catalogue!Retire(id)
        BY <2>1, <2>2, <2>3, <3>1 DEF Catalogue!Retire
      <3> QED
        BY <3>2 DEF Catalogue!Next
    <2>4. CASE cur[r] \notin sensor
      <3>1. \A x \in linked : x[1] # cur[r]
        BY <2>4 DEF Inductive, LinksPointToSensors
      <3>2. linked' = linked
        BY <2>2, <3>1
      <3>3. sensor' = sensor /\ removed' = removed
        BY <1>3, <2>4 DEF DeleteSensor
      <3> QED
        BY <3>2, <3>3 DEF Catalogue!vars
    <2> QED
      BY <2>3, <2>4
  <1> QED
    BY <1>2, <1>3, OthersWriteNothing DEF Catalogue!vars

\* A harvested sensor is registered, under an identifier never in use.
LEMMA HarvestCatalogue ==
  ASSUME Inductive, NEW id \in SensorIds, HarvestSensor(id)
  PROVE  Catalogue!Next
  <1>1. id \notin sensor \union removed
    BY DEF HarvestSensor, Inductive, GeneratedOnce
  <1>2. Catalogue!Register(id)
    BY <1>1 DEF HarvestSensor, Catalogue!Register
  <1> QED
    BY <1>2 DEF Catalogue!Next

\* Whatever the requests do at the same time, the database is a catalogue in
\* which a sensor is registered, linked and retired in single steps.
THEOREM RegistryImplementsCatalogue == Spec => RefinesCatalogue
  <1>1. Inductive /\ [Next]_vars => [Catalogue!Next]_(Catalogue!vars)
    <2> SUFFICES ASSUME Inductive, [Next]_vars PROVE [Catalogue!Next]_(Catalogue!vars)
      OBVIOUS
    <2>1. CASE Crash \/ UNCHANGED vars
      BY <2>1 DEF Crash, vars, tables, history, Catalogue!vars
    <2>2. CASE \E s \in Services : HarvestService(s)
      BY <2>2 DEF HarvestService, history, Catalogue!vars
    <2> QED
      BY <2>1, <2>2, StepCatalogue, HarvestCatalogue, HarvestedAssumption DEF Next, Terminated
  <1> QED
    BY <1>1, InitCatalogue, InductiveHolds, PTL DEF Spec, RefinesCatalogue, Catalogue!Spec
=============================================================================
