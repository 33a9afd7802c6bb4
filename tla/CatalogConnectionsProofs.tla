----------------------- MODULE CatalogConnectionsProofs -----------------------
(***************************************************************************)
(* For every number of threads, catalogues, slots and documents, and every *)
(* order of requests, failures and restarts: what a catalogue has that     *)
(* passed the check, what the table holds, and how long the list of events *)
(* gets.                                                                   *)
(***************************************************************************)
EXTENDS CatalogConnections, FiniteSetTheorems, TLAPS

\* What a request carries at each stage, which the types alone do not say.
PlacedRequest(r) ==
  /\ r.stage \in Checking \union Storing \union {"verdict", "lookup", "submitted"} => r.url \in Urls
  /\ r.stage \in Checking \union {"verdict"} => r.interval # Null
  /\ r.stage \in Storing \union {"lookup"} => r.interval \in Intervals
  /\ r.stage = "loading" => r.todo \subseteq Slots
  /\ r.stage = "update" => r.id # Null

Placed == \A t \in Threads : PlacedRequest(request[t])

Typed == TypeOK /\ Placed

\* An idle thread is a request like any other.
LEMMA IdleType == Idle \in Requests /\ PlacedRequest(Idle)
BY DEF Idle, Requests, PlacedRequest, Stages, Checking, Storing

\* One thread goes on: it is enough to look at its request.
LEMMA OneGoesOn ==
  ASSUME Typed, NEW t \in Threads, NEW r \in Requests, PlacedRequest(r),
         request' = [request EXCEPT ![t] = r]
  PROVE  request' \in [Threads -> Requests] /\ Placed'
<1>1. request' \in [Threads -> Requests]
  BY DEF Typed, TypeOK
<1>2. \A u \in Threads : PlacedRequest(request'[u])
  BY DEF Typed, TypeOK, Placed
<1> QED BY <1>1, <1>2 DEF Placed

\* The first state has its types.
LEMMA InitTyped == Init => Typed
<1> SUFFICES ASSUME Init PROVE Typed
  OBVIOUS
<1>1. TypeOK
  <2>1. request \in [Threads -> Requests]
    BY IdleType DEF Init
  <2>2. /\ lastId \in 0 .. MaxId /\ infoSize \in Nat
        /\ table \in [Urls -> Rows \union {Null}] /\ wish \in [Urls -> Intervals \union {Null, Unknown}]
    BY NumbersAssumption DEF Init
  <2> QED BY <2>1, <2>2 DEF Init, TypeOK
<1>2. Placed
  BY IdleType DEF Init, Placed
<1> QED BY <1>1, <1>2 DEF Typed

\* The steps of the check.
LEMMA CheckTyped ==
  ASSUME Typed, NEW t \in Threads, Check(t)
  PROVE  Typed'
<1> DEFINE r == request[t]
<1>1. r \in Requests /\ PlacedRequest(r)
  BY DEF Typed, TypeOK, Placed
<1>2. /\ r.stage \in Stages /\ r.url \in Urls \union {Null} /\ r.has \in SUBSET Features
      /\ r.todo \in SUBSET Elements
  BY <1>1 DEF Requests
<1>3. CASE CheckCapabilities(t)
  <2>1. PICK sufficient \in SUBSET {"capabilities"} :
          request' = [request EXCEPT ![t].stage = "classification", ![t].has = sufficient]
    BY <1>3 DEF CheckCapabilities
  <2> DEFINE s == [r EXCEPT !.stage = "classification", !.has = sufficient]
  <2>2. s \in Requests /\ PlacedRequest(s)
    BY <1>1, <1>3 DEF CheckCapabilities, At, Requests, PlacedRequest, Stages, Checking, Storing, Features
  <2>3. request' = [request EXCEPT ![t] = s]
    BY <2>1 DEF Typed, TypeOK
  <2> QED BY <1>3, <2>2, <2>3, OneGoesOn DEF CheckCapabilities, Typed, TypeOK, database, history
<1>4. CASE CheckForClassificationSchemes(t)
  <2>1. PICK stage \in {"classification", "reclassification"} :
          /\ At(t, stage)
          /\ request' = [request EXCEPT
               ![t].stage = IF stage = "classification" THEN "slots" ELSE "verdict",
               ![t].has = @ \union (IF Docs \subseteq Has(t) THEN {"classification"} ELSE {})]
    BY <1>4 DEF CheckForClassificationSchemes
  <2> DEFINE s == [r EXCEPT !.stage = IF stage = "classification" THEN "slots" ELSE "verdict",
                            !.has = @ \union (IF Docs \subseteq Has(t) THEN {"classification"} ELSE {})]
  <2>2. s \in Requests /\ PlacedRequest(s)
    BY <1>1, <2>1 DEF At, Requests, PlacedRequest, Stages, Checking, Storing, Features
  <2>3. request' = [request EXCEPT ![t] = s]
    BY <2>1 DEF Typed, TypeOK
  <2> QED BY <1>4, <2>2, <2>3, OneGoesOn DEF CheckForClassificationSchemes, Typed, TypeOK, database, history
<1>5. CASE ComeToRequiredSlots(t)
  <2> DEFINE s == [r EXCEPT !.stage = IF required = {} THEN "loading" ELSE "asking",
                            !.todo = IF required = {} THEN Slots ELSE {}]
  <2>1. s \in Requests /\ PlacedRequest(s)
    BY <1>1, <1>5 DEF ComeToRequiredSlots, At, Requests, PlacedRequest, Stages, Checking, Storing, Elements
  <2>2. request' = [request EXCEPT ![t] = s]
    BY <1>5 DEF ComeToRequiredSlots, Typed, TypeOK
  <2> QED BY <1>5, <2>1, <2>2, OneGoesOn DEF ComeToRequiredSlots, Typed, TypeOK, database
<1>6. CASE LoadSlot(t)
  <2>1. PICK slot \in r.todo, lost \in SUBSET required :
          /\ required' = (required \union {slot}) \ lost
          /\ request' = [request EXCEPT
               ![t].todo = @ \ {slot},
               ![t].stage = IF request[t].todo = {slot} THEN "asking" ELSE "loading"]
    BY <1>6 DEF LoadSlot
  <2> DEFINE s == [r EXCEPT !.todo = @ \ {slot}, !.stage = IF r.todo = {slot} THEN "asking" ELSE "loading"]
  <2>2. r.todo \subseteq Slots
    BY <1>1, <1>6 DEF LoadSlot, At, PlacedRequest
  <2>3. s \in Requests /\ PlacedRequest(s)
    BY <1>1, <1>6, <2>2 DEF LoadSlot, At, Requests, PlacedRequest, Stages, Checking, Storing
  <2>4. request' = [request EXCEPT ![t] = s]
    BY <2>1 DEF Typed, TypeOK
  <2> QED BY <1>6, <2>1, <2>2, <2>3, <2>4, OneGoesOn DEF LoadSlot, Typed, TypeOK, database, history
<1>7. CASE CheckForSlots(t)
  <2> DEFINE has == r.has \union (IF SlotsSuffice(Has(t) \ Docs) THEN {"slots"} ELSE {})
             next == AfterSlots(has, r.again)
             s == [r EXCEPT !.has = has, !.stage = next, !.todo = IF next = "insertDocs" THEN Docs ELSE {}]
  <2>1. next \in {"insertSlots", "insertDocs", "verdict"}
    BY DEF AfterSlots
  <2>2. s \in Requests /\ PlacedRequest(s)
    BY <1>1, <1>2, <1>7, <2>1 DEF CheckForSlots, At, Requests, PlacedRequest, Stages, Checking, Storing, Elements, Features
  <2>3. request' = [request EXCEPT ![t] = s]
    BY <1>7 DEF CheckForSlots, Typed, TypeOK
  <2> QED BY <1>7, <2>2, <2>3, OneGoesOn DEF CheckForSlots, Typed, TypeOK, database, history
<1>8. CASE InsertSlots(t)
  <2>1. remote' \in [Urls -> SUBSET Elements]
    BY <1>8 DEF InsertSlots, Typed, TypeOK, Elements
  <2> DEFINE s == [r EXCEPT !.stage = "slots", !.again = TRUE]
  <2>2. s \in Requests /\ PlacedRequest(s)
    BY <1>1, <1>8 DEF InsertSlots, At, Requests, PlacedRequest, Stages, Checking, Storing
  <2>3. request' = [request EXCEPT ![t] = s] \/ request' = [request EXCEPT ![t] = Idle]
    BY <1>8 DEF InsertSlots, Reply, Typed, TypeOK
  <2> QED BY <1>8, <2>1, <2>2, <2>3, IdleType, OneGoesOn DEF InsertSlots, Typed, TypeOK, database, history
<1>9. CASE InsertDoc(t)
  <2>1. PICK doc \in r.todo, inserted \in SUBSET Docs :
          /\ remote' = [remote EXCEPT ![request[t].url] = @ \union inserted]
          /\ \/ request' = [request EXCEPT
                  ![t].todo = @ \ {doc},
                  ![t].stage = IF request[t].todo = {doc} THEN "reclassification" ELSE "insertDocs"]
             \/ Reply(t)
    BY <1>9 DEF InsertDoc
  <2> DEFINE s == [r EXCEPT !.todo = @ \ {doc},
                            !.stage = IF r.todo = {doc} THEN "reclassification" ELSE "insertDocs"]
  <2>2. s \in Requests /\ PlacedRequest(s)
    BY <1>1, <1>9 DEF InsertDoc, At, Requests, PlacedRequest, Stages, Checking, Storing
  <2>3. request' = [request EXCEPT ![t] = s] \/ request' = [request EXCEPT ![t] = Idle]
    BY <2>1 DEF Reply, Typed, TypeOK
  <2>4. remote' \in [Urls -> SUBSET Elements]
    BY <2>1 DEF Typed, TypeOK, Elements
  <2> QED BY <1>9, <2>2, <2>3, <2>4, IdleType, OneGoesOn DEF InsertDoc, Typed, TypeOK, database, history
<1>10. CASE BreakOff(t)
  BY <1>10, IdleType, OneGoesOn DEF BreakOff, Reply, Typed, TypeOK, database, history
<1>11. CASE Verdict(t)
  <2> DEFINE s == [r EXCEPT !.stage = "lookup", !.has = {}]
  <2>1. CASE r.has = Features /\ r.interval # NoPush
    <3>1. r.interval \in Intervals /\ r.url \in Urls
      BY <1>1, <1>11, <2>1 DEF Verdict, At, Requests, PlacedRequest
    <3>2. s \in Requests /\ PlacedRequest(s)
      BY <1>1, <3>1 DEF Requests, PlacedRequest, Stages, Checking, Storing
    <3>3. request' = [request EXCEPT ![t] = s]
      BY <1>11, <2>1 DEF Verdict, Typed, TypeOK
    <3> QED BY <1>11, <3>2, <3>3, OneGoesOn DEF Verdict, Typed, TypeOK, database, history
  <2>2. CASE ~(r.has = Features /\ r.interval # NoPush)
    BY <1>11, <2>2, IdleType, OneGoesOn DEF Verdict, Reply, Typed, TypeOK, database, history
  <2> QED BY <2>1, <2>2
<1> QED BY <1>3, <1>4, <1>5, <1>6, <1>7, <1>8, <1>9, <1>10, <1>11 DEF Check

\* A thread that enters the table marks its rivals, which changes neither types nor places.
LEMMA EnterTyped ==
  ASSUME Typed, NEW t \in Threads, request[t].url \in Urls, request[t].interval \in Intervals,
         NEW stage \in Storing, NEW id \in 1 .. MaxId \union {Null}, NEW clean \in BOOLEAN,
         stage = "update" => id # Null, Enter(t, stage, id, clean)
  PROVE  request' \in [Threads -> Requests] /\ Placed'
<1> DEFINE s == [request[t] EXCEPT !.stage = stage, !.id = id, !.clean = clean /\ Rivals(t) = {}]
<1>1. s \in Requests /\ PlacedRequest(s)
  BY DEF Typed, TypeOK, Requests, PlacedRequest, Stages, Storing, Checking
<1>2. ASSUME NEW other \in Threads \ {t}
      PROVE  LET o == [request[other] EXCEPT !.clean = @ /\ other \notin Rivals(t)]
             IN  o \in Requests /\ PlacedRequest(o)
  BY DEF Typed, TypeOK, Placed, Requests, PlacedRequest
<1>3. \A u \in Threads : request'[u] \in Requests /\ PlacedRequest(request'[u])
  BY <1>1, <1>2 DEF Enter
<1>4. request' = [u \in Threads |-> request'[u]]
  BY DEF Enter
<1> QED BY <1>3, <1>4 DEF Placed

\* The steps that reach the table.
LEMMA StoreTyped ==
  ASSUME Typed, NEW t \in Threads, Store(t)
  PROVE  Typed'
<1> DEFINE r == request[t]
<1>1. r \in Requests /\ PlacedRequest(r)
  BY DEF Typed, TypeOK, Placed
<1>2. ASSUME NEW asked \in Intervals \union {Null}, NEW clean \in BOOLEAN, Wished(t, asked, clean)
      PROVE  wish' \in [Urls -> Intervals \union {Null, Unknown}]
  BY <1>2 DEF Wished, Typed, TypeOK
<1>3. r.clean \in BOOLEAN /\ r.id \in 1 .. MaxId \union {Null}
  BY <1>1 DEF Requests
<1>4. CASE GetConnectionID(t)
  <2>1. r.url \in Urls /\ r.interval \in Intervals
    BY <1>1, <1>4 DEF GetConnectionID, At, PlacedRequest
  <2>2. RowOf(t) # Null => RowOf(t).id \in 1 .. MaxId /\ RowOf(t).id # Null
    BY <2>1, NumbersAssumption DEF RowOf, Typed, TypeOK, Rows
  <2>3. request' \in [Threads -> Requests] /\ Placed'
    BY <1>4, <2>1, <2>2, EnterTyped DEF GetConnectionID, Storing
  <2> QED BY <1>2, <1>4, <2>3 DEF GetConnectionID, Typed, TypeOK, database
<1>5. CASE InsertConnection(t)
  <2>1. r.url \in Urls /\ r.interval \in Intervals
    BY <1>1, <1>5 DEF InsertConnection, At, PlacedRequest, Storing
  <2>2. lastId' \in 1 .. MaxId
    BY <1>5, NumbersAssumption DEF InsertConnection, Typed, TypeOK
  <2>3. table' \in [Urls -> Rows \union {Null}]
    <3>1. AddRow(t) => table' \in [Urls -> Rows \union {Null}]
      BY <1>5, <2>1, <2>2 DEF AddRow, InsertConnection, Typed, TypeOK, Rows
    <3> QED BY <1>5, <3>1 DEF InsertConnection, Typed, TypeOK
  <2>4. wish' \in [Urls -> Intervals \union {Null, Unknown}]
    BY <1>2, <1>3, <1>5, <2>1 DEF InsertConnection
  <2>5. request' \in [Threads -> Requests] /\ Placed'
    <3>1. \E s \in {[r EXCEPT !.stage = "submitted", !.id = lastId'],
                    [r EXCEPT !.stage = "submitted"],
                    [r EXCEPT !.stage = "submitted", !.clean = FALSE]} :
            request' = [request EXCEPT ![t] = s]
      BY <1>5 DEF InsertConnection, Goto, Typed, TypeOK
    <3>2. \A s \in {[r EXCEPT !.stage = "submitted", !.id = lastId'],
                    [r EXCEPT !.stage = "submitted"],
                    [r EXCEPT !.stage = "submitted", !.clean = FALSE]} :
            s \in Requests /\ PlacedRequest(s)
      BY <1>1, <2>1, <2>2 DEF Requests, PlacedRequest, Stages, Storing, Checking
    <3> QED BY <3>1, <3>2, OneGoesOn
  <2> QED BY <1>5, <2>2, <2>3, <2>4, <2>5 DEF InsertConnection, Typed, TypeOK
<1>6. CASE UpdateConnection(t)
  <2>1. r.url \in Urls /\ r.interval \in Intervals
    BY <1>1, <1>6 DEF UpdateConnection, At, PlacedRequest, Storing
  <2>2. table' \in [Urls -> Rows \union {Null}]
    <3>1. SetInterval(t) => table' \in [Urls -> Rows \union {Null}]
      BY <2>1 DEF SetInterval, Typed, TypeOK, Rows
    <3> QED BY <1>6, <3>1 DEF UpdateConnection, Typed, TypeOK
  <2>3. wish' \in [Urls -> Intervals \union {Null, Unknown}]
    BY <1>2, <1>3, <1>6, <2>1 DEF UpdateConnection
  <2>4. request' \in [Threads -> Requests] /\ Placed'
    <3>1. \E s \in {[r EXCEPT !.stage = "submitted"], [r EXCEPT !.stage = "submitted", !.clean = FALSE]} :
            request' = [request EXCEPT ![t] = s]
      BY <1>6 DEF UpdateConnection, Goto, Typed, TypeOK
    <3>2. \A s \in {[r EXCEPT !.stage = "submitted"], [r EXCEPT !.stage = "submitted", !.clean = FALSE]} :
            s \in Requests /\ PlacedRequest(s)
      BY <1>1, <2>1 DEF Requests, PlacedRequest, Stages, Storing, Checking
    <3> QED BY <3>1, <3>2, OneGoesOn
  <2> QED BY <1>6, <2>2, <2>3, <2>4 DEF UpdateConnection, Typed, TypeOK
<1>7. CASE Answer(t)
  BY <1>7, IdleType, OneGoesOn DEF Answer, Reply, Typed, TypeOK, database, history
<1> QED BY <1>4, <1>5, <1>6, <1>7 DEF Store

\* The requests that begin.
LEMMA BeginTyped ==
  ASSUME Typed, NEW t \in Threads,
         (\E ask \in Asks : Connect(t, ask[1], ask[2])) \/ (\E u \in Urls : Disconnect(t, u))
  PROVE  Typed'
<1>1. ASSUME NEW u \in Urls, NEW interval \in Intervals \union {NoPush}, Connect(t, u, interval)
      PROVE  Typed'
  <2> DEFINE s == [Idle EXCEPT !.stage = IF u \in Trusted THEN "verdict" ELSE "capabilities",
                               !.url = u, !.interval = interval,
                               !.has = IF u \in Trusted THEN Features ELSE {}]
  <2>1. s \in Requests /\ PlacedRequest(s)
    BY IdleType, IntervalsAssumption DEF Idle, Requests, PlacedRequest, Stages, Checking, Storing
  <2> QED BY <1>1, <2>1, OneGoesOn DEF Connect, Typed, TypeOK, database, history
<1>2. ASSUME NEW u \in Urls, Disconnect(t, u)
      PROVE  Typed'
  <2>1. PICK failed \in BOOLEAN, deleted \in BOOLEAN :
          /\ deleted \/ failed
          /\ table' = IF deleted THEN [table EXCEPT ![u] = Null] ELSE table
          /\ wish' = [wish EXCEPT ![u] =
               IF failed \/ \E other \in Others(t) : request[other].stage \in Storing
                                                       /\ request[other].url = u
                 THEN Unknown ELSE Null]
          /\ request' = [other \in Threads |->
               IF other = t
                 THEN IF failed \/ table[u] = Null THEN Idle
                      ELSE [Idle EXCEPT !.stage = "status", !.id = table[u].id]
                 ELSE [request[other] EXCEPT
                         !.clean = @ /\ ~(request[other].stage \in Storing /\ request[other].url = u)]]
    BY <1>2 DEF Disconnect
  <2>2. table' \in [Urls -> Rows \union {Null}] /\ wish' \in [Urls -> Intervals \union {Null, Unknown}]
    BY <2>1 DEF Typed, TypeOK
  <2>3. ASSUME table[u] # Null
        PROVE  LET s == [Idle EXCEPT !.stage = "status", !.id = table[u].id]
               IN  s \in Requests /\ PlacedRequest(s)
    BY <2>3, IdleType DEF Idle, Typed, TypeOK, Rows, Requests, PlacedRequest, Stages, Checking, Storing
  <2>4. ASSUME NEW other \in Threads
        PROVE  LET o == [request[other] EXCEPT
                           !.clean = @ /\ ~(request[other].stage \in Storing /\ request[other].url = u)]
               IN  o \in Requests /\ PlacedRequest(o)
    BY DEF Typed, TypeOK, Placed, Requests, PlacedRequest
  <2>5. \A v \in Threads : request'[v] \in Requests /\ PlacedRequest(request'[v])
    BY <2>1, <2>3, <2>4, IdleType
  <2>6. request' = [v \in Threads |-> request'[v]]
    BY <2>1
  <2> QED BY <1>2, <2>2, <2>5, <2>6 DEF Disconnect, Typed, TypeOK, Placed
<1> QED BY <1>1, <1>2, AsksAssumption

\* The status and the list of events.
LEMMA NoteTyped ==
  ASSUME Typed, NEW t \in Threads, Note(t)
  PROVE  Typed'
<1> DEFINE r == request[t]
<1>1. r \in Requests /\ PlacedRequest(r)
  BY DEF Typed, TypeOK, Placed
<1>2. ASSUME NEW stage \in {"remove", "add"}, Goto(t, stage)
      PROVE  request' \in [Threads -> Requests] /\ Placed'
  <2> DEFINE s == [r EXCEPT !.stage = stage]
  <2>1. s \in Requests /\ PlacedRequest(s)
    BY <1>1 DEF Requests, PlacedRequest, Stages, Checking, Storing, Listing
  <2>2. request' = [request EXCEPT ![t] = s]
    BY <1>2 DEF Goto, Typed, TypeOK
  <2> QED BY <2>1, <2>2, OneGoesOn
<1>3. CASE SetNewStatus(t)
  <2> DEFINE s == [r EXCEPT !.stage = "test", !.id = Null]
  <2>1. s \in Requests /\ PlacedRequest(s)
    BY <1>1 DEF Requests, PlacedRequest, Stages, Checking, Storing
  <2>2. request' = [request EXCEPT ![t] = s]
    BY <1>3 DEF SetNewStatus, Typed, TypeOK
  <2>3. table' \in [Urls -> Rows \union {Null}]
    BY <1>3 DEF SetNewStatus, Typed, TypeOK, Rows
  <2> QED BY <1>3, <2>1, <2>2, <2>3, OneGoesOn DEF SetNewStatus, Typed, TypeOK, history
<1>4. CASE TestSize(t)
  BY <1>2, <1>4 DEF TestSize, Typed, TypeOK, database
<1>5. CASE RemoveInfo(t)
  BY <1>2, <1>5, IdleType, OneGoesOn DEF RemoveInfo, Reply, Typed, TypeOK, database, history
<1>6. CASE AddInfo(t)
  <2>1. infoSize' \in Nat
    BY <1>6 DEF AddInfo, Typed, TypeOK
  <2> QED BY <1>6, <2>1, IdleType, OneGoesOn DEF AddInfo, Reply, Typed, TypeOK, database, history
<1> QED BY <1>3, <1>4, <1>5, <1>6 DEF Note

\* Every step keeps the types.
LEMMA NextTyped ==
  ASSUME Typed, [Next]_vars
  PROVE  Typed'
<1>1. CASE Restart
  <2>1. request' \in [Threads -> Requests] /\ Placed'
    BY <1>1, IdleType DEF Restart, Placed
  <2> QED BY <1>1, <2>1 DEF Restart, Typed, TypeOK, database
<1>2. CASE UNCHANGED vars
  BY <1>2 DEF vars, history, database, Typed, TypeOK, Placed
<1> QED BY <1>1, <1>2, CheckTyped, StoreTyped, BeginTyped, NoteTyped DEF Next

\* The types hold in every reachable state.
LEMMA TypedAlways == Spec => []Typed
<1>1. Typed /\ [Next]_vars => Typed'
  BY NextTyped
<1> QED BY InitTyped, <1>1, PTL DEF Spec

\* Types hold throughout; above all a row never gets the interval that means a single
\* push, for such a connection is not stored.
THEOREM TypeCorrect == Spec => []TypeOK
<1>1. Typed => TypeOK
  BY DEF Typed
<1> QED BY <1>1, TypedAlways, PTL

-----------------------------------------------------------------------------
(* Where each kind of step begins and leads to, and what it leaves alone. *)

\* Another thread's step may at most mark a request as disturbed.
Kin(u) ==
  /\ request'[u].stage = request[u].stage
  /\ request'[u].url = request[u].url
  /\ request'[u].interval = request[u].interval
  /\ request'[u].has = request[u].has
  /\ request'[u].todo = request[u].todo
  /\ request'[u].id = request[u].id
  /\ request'[u].clean => request[u].clean

\* Marking a request as disturbed changes neither its place nor what it asks.
LEMMA MarkedIsKin ==
  ASSUME NEW u, request[u] \in Requests, NEW undisturbed \in BOOLEAN,
         request'[u] = [request[u] EXCEPT !.clean = @ /\ undisturbed]
  PROVE  Kin(u)
<1>1. CASE undisturbed
  <2>1. request'[u].clean = request[u].clean
    BY <1>1 DEF Requests
  <2> QED BY <2>1 DEF Kin, Requests
<1>2. CASE ~undisturbed
  <2>1. request'[u].clean = FALSE
    BY <1>2 DEF Requests
  <2> QED BY <2>1 DEF Kin, Requests
<1> QED BY <1>1, <1>2

\* What a step of the capability check can change: the request of its thread only,
\* and neither the table nor the list of status entries.
LEMMA CheckGoes ==
  ASSUME Typed, NEW t \in Threads, Check(t)
  PROVE  /\ \A u \in Threads \ {t} : request'[u] = request[u]
         /\ request[t].stage \in Checking \union {"verdict"}
         /\ request'[t].stage \in Checking \union {"idle", "verdict", "lookup"}
         /\ UNCHANGED <<table, lastId, wish, infoSize, infoRaced>>
<1> USE DEF Typed, TypeOK, Requests, At, Checking, database, history
<1>1. CASE CheckCapabilities(t) \/ CheckForClassificationSchemes(t)
  BY <1>1 DEF CheckCapabilities, CheckForClassificationSchemes
<1>2. CASE ComeToRequiredSlots(t) \/ LoadSlot(t)
  BY <1>2 DEF ComeToRequiredSlots, LoadSlot
<1>3. CASE CheckForSlots(t)
  BY <1>3 DEF CheckForSlots, AfterSlots
<1>4. CASE InsertSlots(t) \/ InsertDoc(t)
  <2>1. CASE InsertSlots(t)
    BY <2>1 DEF InsertSlots, Reply, Idle
  <2>2. CASE InsertDoc(t)
    BY <2>2 DEF InsertDoc, Reply, Idle
  <2> QED BY <1>4, <2>1, <2>2
<1>5. CASE BreakOff(t) \/ Verdict(t)
  BY <1>5 DEF BreakOff, Verdict, Reply, Idle
<1> QED BY <1>1, <1>2, <1>3, <1>4, <1>5 DEF Check

\* What a step that looks up, inserts, updates or answers can change: places of its
\* own thread, and at most the marks of the others.
LEMMA StoreGoes ==
  ASSUME Typed, NEW t \in Threads, Store(t)
  PROVE  /\ \A u \in Threads \ {t} : Kin(u)
         /\ request[t].stage \in Storing \union {"lookup", "submitted"}
         /\ request'[t].stage \in Storing \union {"submitted", "idle"}
         /\ UNCHANGED <<required, remote, infoSize, loadRaced, infoRaced>>
<1> USE DEF Typed, TypeOK, Requests, At, Storing, database, history
<1>1. CASE GetConnectionID(t)
  <2>1. ASSUME NEW stage \in Storing, NEW id, NEW clean, Enter(t, stage, id, clean)
        PROVE  /\ \A u \in Threads \ {t} : Kin(u)
               /\ request'[t].stage = stage
    <3>1. \A u \in Threads \ {t} : request'[u] = [request[u] EXCEPT !.clean = @ /\ u \notin Rivals(t)]
      BY <2>1 DEF Enter
    <3>2. \A u \in Threads : request[u] \in Requests
      OBVIOUS
    <3>3. \A u \in Threads \ {t} : Kin(u)
      BY <3>1, <3>2, MarkedIsKin
    <3> QED BY <2>1, <3>2, <3>3 DEF Enter, Requests
  <2> QED BY <1>1, <2>1 DEF GetConnectionID
<1>2. CASE InsertConnection(t) \/ UpdateConnection(t)
  BY <1>2 DEF InsertConnection, UpdateConnection, Goto, Kin
<1>3. CASE Answer(t)
  BY <1>3 DEF Answer, Reply, Idle, Kin
<1> QED BY <1>1, <1>2, <1>3 DEF Store

\* A request that begins takes an idle thread and leaves the remote catalogue alone.
LEMMA BeginGoes ==
  ASSUME Typed, NEW t \in Threads,
         (\E ask \in Asks : Connect(t, ask[1], ask[2])) \/ (\E u \in Urls : Disconnect(t, u))
  PROVE  /\ \A u \in Threads \ {t} : Kin(u)
         /\ request[t].stage = "idle"
         /\ request'[t].stage \in {"idle", "status", "verdict", "capabilities"}
         /\ request'[t].stage = "verdict" => request'[t].url \in Trusted
         /\ request'[t].stage = "capabilities" => request'[t].has = {}
         /\ UNCHANGED <<required, remote, infoSize, loadRaced, infoRaced>>
<1> USE DEF Typed, TypeOK, Requests, At, database, history
<1>1. ASSUME NEW u, NEW interval, Connect(t, u, interval)
      PROVE  /\ \A v \in Threads \ {t} : Kin(v)
             /\ request[t].stage = "idle"
             /\ request'[t].stage \in {"verdict", "capabilities"}
             /\ request'[t].stage = "verdict" => request'[t].url \in Trusted
             /\ request'[t].stage = "capabilities" => request'[t].has = {}
             /\ UNCHANGED <<required, remote, infoSize, loadRaced, infoRaced>>
  <2>1. request'[t] = [Idle EXCEPT !.stage = IF u \in Trusted THEN "verdict" ELSE "capabilities",
                                   !.url = u, !.interval = interval,
                                   !.has = IF u \in Trusted THEN Features ELSE {}]
    BY <1>1 DEF Connect
  <2>2. \A v \in Threads \ {t} : request'[v] = request[v]
    BY <1>1 DEF Connect
  <2> QED BY <1>1, <2>1, <2>2 DEF Connect, Idle, Kin
<1>2. ASSUME NEW u \in Urls, Disconnect(t, u)
      PROVE  /\ \A v \in Threads \ {t} : Kin(v)
             /\ request[t].stage = "idle"
             /\ request'[t].stage \in {"idle", "status"}
             /\ UNCHANGED <<required, remote, infoSize, loadRaced, infoRaced>>
  <2>1. \A v \in Threads \ {t} : request'[v] = [request[v] EXCEPT
            !.clean = @ /\ ~(request[v].stage \in Storing /\ request[v].url = u)]
    BY <1>2 DEF Disconnect
  <2>2. \A v \in Threads \ {t} : Kin(v)
    BY <2>1, MarkedIsKin
  <2>3. request'[t] = Idle \/ \E id : request'[t] = [Idle EXCEPT !.stage = "status", !.id = id]
    BY <1>2 DEF Disconnect
  <2>4. request'[t].stage \in {"idle", "status"}
    <3>1. CASE request'[t] = Idle
      BY <3>1 DEF Idle
    <3>2. ASSUME NEW id, request'[t] = [Idle EXCEPT !.stage = "status", !.id = id]
          PROVE  request'[t].stage = "status"
      BY <3>2 DEF Idle
    <3> QED BY <2>3, <3>1, <3>2
  <2> QED BY <1>2, <2>2, <2>4 DEF Disconnect
<1> QED BY <1>1, <1>2

\* What a step of the status handler can change.
LEMMA NoteGoes ==
  ASSUME Typed, NEW t \in Threads, Note(t)
  PROVE  /\ \A u \in Threads \ {t} : request'[u] = request[u]
         /\ request[t].stage \in Listing \union {"status", "test"}
         /\ request'[t].stage \in Listing \union {"test", "idle"}
         /\ UNCHANGED <<required, remote, lastId, loadRaced, wish>>
<1> USE DEF Typed, TypeOK, Requests, At, Listing, database, history, Goto, Reply, Idle
<1>1. CASE SetNewStatus(t)
  BY <1>1 DEF SetNewStatus
<1>2. CASE TestSize(t)
  BY <1>2 DEF TestSize
<1>3. CASE RemoveInfo(t)
  BY <1>3 DEF RemoveInfo
<1>4. CASE AddInfo(t)
  BY <1>4 DEF AddInfo
<1> QED BY <1>1, <1>2, <1>3, <1>4 DEF Note

-----------------------------------------------------------------------------
(* The list of events *)

\* As long as two requests were never at the list at once, one is there at most, and it
\* removes only from a full list and adds only to one that is not.
ListKept ==
  ~infoRaced =>
    /\ infoSize <= MaxInfo
    /\ \A t \in Threads : At(t, "remove") => infoSize = MaxInfo
    /\ \A t \in Threads : At(t, "add") => infoSize < MaxInfo
    /\ \A t, u \in Threads : request[t].stage \in Listing /\ request[u].stage \in Listing => t = u

\* A step that leaves the list alone and brings no request to it.
LEMMA ListUntouched ==
  ASSUME ListKept, UNCHANGED <<infoSize, infoRaced>>,
         \A u \in Threads : request'[u].stage \in Listing => request'[u].stage = request[u].stage
  PROVE  ListKept'
BY DEF ListKept, At, Listing

\* The status handler keeps the bound of the list.
LEMMA NoteKeepsList ==
  ASSUME Typed, ListKept, NEW t \in Threads, Note(t)
  PROVE  ListKept'
<1> USE NumbersAssumption DEF Typed, TypeOK
<1>1. \A u \in Threads \ {t} : request'[u] = request[u]
  BY NoteGoes
<1>2. CASE SetNewStatus(t)
  <2>1. request'[t].stage = "test"
    BY <1>2 DEF SetNewStatus
  <2> QED BY <1>1, <1>2, <2>1, ListUntouched DEF SetNewStatus, history, Listing
<1>3. CASE TestSize(t)
  <2>1. /\ request'[t].stage = IF infoSize = MaxInfo THEN "remove" ELSE "add"
        /\ infoSize' = infoSize
    BY <1>3 DEF TestSize, Goto
  <2>2. ~infoRaced' => ~infoRaced /\ \A u \in Threads \ {t} : request[u].stage \notin Listing
    BY <1>3 DEF TestSize, Listers, Others
  <2> QED BY <1>1, <2>1, <2>2 DEF ListKept, At, Listing
<1>4. ASSUME RemoveInfo(t) \/ AddInfo(t), ~infoRaced
      PROVE  ListKept'
  <2>1. Listers(t) = {} /\ \A u \in Threads \ {t} : request[u].stage \notin Listing
    BY <1>4 DEF ListKept, RemoveInfo, AddInfo, Listers, Others, At, Listing
  <2>2. CASE RemoveInfo(t)
    <3>1. infoSize = MaxInfo /\ infoSize' = infoSize - 1 /\ request'[t].stage = "add"
      BY <1>4, <2>1, <2>2 DEF ListKept, RemoveInfo, Goto, Requests, At
    <3> QED BY <1>1, <2>1, <3>1 DEF ListKept, At, Listing
  <2>3. CASE AddInfo(t)
    <3>1. infoSize < MaxInfo /\ infoSize' = infoSize + 1 /\ request'[t].stage = "idle"
      BY <1>4, <2>1, <2>3 DEF ListKept, AddInfo, Reply, Idle
    <3> QED BY <1>1, <2>1, <3>1 DEF ListKept, At, Listing
  <2> QED BY <1>4, <2>2, <2>3
<1>5. CASE (RemoveInfo(t) \/ AddInfo(t)) /\ infoRaced
  BY <1>5 DEF RemoveInfo, AddInfo, history, ListKept
<1> QED BY <1>2, <1>3, <1>4, <1>5 DEF Note

\* Every step keeps the bound of the list.
LEMMA NextKeepsList ==
  ASSUME Typed, ListKept, [Next]_vars
  PROVE  ListKept'
<1>1. ASSUME NEW t \in Threads, Check(t) PROVE ListKept'
  BY <1>1, CheckGoes, ListUntouched DEF Checking, Listing
<1>2. ASSUME NEW t \in Threads, Store(t) PROVE ListKept'
  <2>1. \A u \in Threads : request'[u].stage \in Listing => request'[u].stage = request[u].stage
    BY <1>2, StoreGoes DEF Storing, Listing, Kin
  <2> QED BY <1>2, <2>1, StoreGoes, ListUntouched
<1>3. ASSUME NEW t \in Threads,
             (\E ask \in Asks : Connect(t, ask[1], ask[2])) \/ (\E u \in Urls : Disconnect(t, u))
      PROVE  ListKept'
  <2>1. \A u \in Threads : request'[u].stage \in Listing => request'[u].stage = request[u].stage
    BY <1>3, BeginGoes DEF Listing, Kin
  <2> QED BY <1>3, <2>1, BeginGoes, ListUntouched
<1>4. CASE Restart
  BY <1>4, NumbersAssumption DEF Restart, ListKept, Idle, At, Listing
<1>5. CASE UNCHANGED vars
  BY <1>5, ListUntouched DEF vars, history
<1> QED BY <1>1, <1>2, <1>3, <1>4, <1>5, NoteKeepsList DEF Next

\* The list of events keeps its bound for every number of requests, as long as no two
\* are at it at once.
THEOREM ListIsBounded == Spec => []InfoListBounded
<1>1. Init => ListKept
  BY NumbersAssumption DEF Init, ListKept, Idle, At, Listing
<1>2. Typed /\ ListKept /\ [Next]_vars => ListKept'
  BY NextKeepsList
<1>3. ListKept => InfoListBounded
  BY DEF ListKept, InfoListBounded
<1> QED BY <1>1, <1>2, <1>3, TypedAlways, PTL DEF Spec

-----------------------------------------------------------------------------
(* The table *)

\* Of the requests that have looked a URL up and not yet written it, none that shares
\* the URL is clean.
RivalsDisturbed ==
  \A t, u \in Threads :
    t # u /\ request[t].stage \in Storing /\ request[u].stage \in Storing
        /\ request[t].url = request[u].url
      => ~request[t].clean

\* A clean request knows whether there is a row.
StoreKept ==
  /\ \A t \in Threads : At(t, "insert") /\ request[t].clean => RowOf(t) = Null
  /\ \A t \in Threads : At(t, "update") /\ request[t].clean => RowOf(t) # Null
  /\ RivalsDisturbed
  /\ ConnectionAsAsked
  /\ NullIdOnlyAfterRace

\* A step that leaves table and wishes alone and brings no request to them.
LEMMA StoreUntouched ==
  ASSUME Typed, StoreKept, NEW t \in Threads, UNCHANGED <<table, wish>>,
         \A u \in Threads \ {t} : Kin(u),
         request'[t].stage \notin Storing \union {"submitted"}
  PROVE  StoreKept'
<1>1. \A u \in Threads : request'[u].stage \in Storing \union {"submitted"} => u # t /\ Kin(u)
  OBVIOUS
<1>2. ConnectionAsAsked'
  BY DEF StoreKept, ConnectionAsAsked
<1>3. NullIdOnlyAfterRace'
  BY <1>1 DEF StoreKept, NullIdOnlyAfterRace, At, Kin
<1>4. /\ \A u \in Threads : (At(u, "insert") /\ request[u].clean => RowOf(u) = Null)'
      /\ \A u \in Threads : (At(u, "update") /\ request[u].clean => RowOf(u) # Null)'
  BY <1>1 DEF StoreKept, At, Kin, RowOf, Storing
<1>5. RivalsDisturbed'
  BY <1>1 DEF RivalsDisturbed, StoreKept, Kin
<1> QED BY <1>2, <1>3, <1>4, <1>5 DEF StoreKept

\* Looking a URL up disturbs the requests that did so before, and is disturbed by them.
LEMMA LookupKeepsStore ==
  ASSUME Typed, StoreKept, NEW t \in Threads, GetConnectionID(t)
  PROVE  StoreKept'
<1> USE DEF At
<1>1. PICK stage \in Storing, id \in 1 .. MaxId \union {Null}, clean \in BOOLEAN :
        /\ Enter(t, stage, id, clean)
        /\ stage = "insert" /\ clean => RowOf(t) = Null
        /\ stage = "update" => RowOf(t) # Null
  <2>1. request[t].url \in Urls
    BY DEF GetConnectionID, Typed, Placed, PlacedRequest
  <2>2. RowOf(t) # Null => RowOf(t).id \in 1 .. MaxId
    BY <2>1 DEF RowOf, Typed, TypeOK, Rows
  <2> QED BY <2>2 DEF GetConnectionID, Storing
<1>2. \A u \in Threads \ {t} : Kin(u) /\ (u \in Rivals(t) => ~request'[u].clean)
  <2>1. ASSUME NEW u \in Threads \ {t}
        PROVE  request'[u] = [request[u] EXCEPT !.clean = @ /\ u \notin Rivals(t)] /\ request[u] \in Requests
    BY <1>1 DEF Enter, Typed, TypeOK
  <2>2. ASSUME NEW u \in Threads \ {t} PROVE Kin(u)
    BY <2>1, MarkedIsKin
  <2>3. ASSUME NEW u \in Threads \ {t}, u \in Rivals(t) PROVE ~request'[u].clean
    BY <2>1, <2>3 DEF Requests
  <2> QED BY <2>2, <2>3
<1>3. /\ request'[t].stage = stage /\ request'[t].url = request[t].url
      /\ request'[t].clean => clean /\ Rivals(t) = {}
  <2>1. request'[t] = [request[t] EXCEPT !.stage = stage, !.id = id, !.clean = clean /\ Rivals(t) = {}]
    BY <1>1 DEF Enter
  <2>2. request[t] \in Requests
    BY DEF Typed, TypeOK
  <2> QED BY <2>1, <2>2 DEF Requests
<1>4. table' = table /\ wish' = [wish EXCEPT ![request[t].url] = Unknown]
  BY DEF GetConnectionID, Wished, database
<1>5. ConnectionAsAsked'
  BY <1>4 DEF StoreKept, ConnectionAsAsked, Typed, TypeOK
<1>6. NullIdOnlyAfterRace'
  BY <1>2, <1>3 DEF StoreKept, NullIdOnlyAfterRace, Kin, Storing
<1>7. /\ \A u \in Threads : (At(u, "insert") /\ request[u].clean => RowOf(u) = Null)'
      /\ \A u \in Threads : (At(u, "update") /\ request[u].clean => RowOf(u) # Null)'
  BY <1>1, <1>2, <1>3, <1>4 DEF StoreKept, Kin, RowOf
<1>8. RivalsDisturbed'
  <2>1. ASSUME NEW u \in Threads \ {t}, request'[u].stage \in Storing, request'[u].url = request[t].url
        PROVE  u \in Rivals(t)
    BY <1>2, <2>1 DEF RivalsDisturbed, Kin, Rivals, Others
  <2> QED BY <1>2, <1>3, <2>1 DEF RivalsDisturbed, StoreKept, Kin
<1> QED BY <1>5, <1>6, <1>7, <1>8 DEF StoreKept

\* A row is written by a request that goes on to "submitted".  The hypotheses are what
\* INSERT and UPDATE have in common.
LEMMA WriteKeepsStore ==
  ASSUME Typed, StoreKept, NEW t \in Threads, request[t].stage \in Storing,
         \A u \in Threads \ {t} : request'[u] = request[u],
         request'[t].stage = "submitted",
         request'[t].clean => request'[t].id # Null,
         \A x \in Urls \ {request[t].url} : table'[x] = table[x],
         NEW asked, NEW clean \in BOOLEAN, Wished(t, asked, clean),
         clean => table'[request[t].url] # Null /\ table'[request[t].url].interval = asked
  PROVE  StoreKept'
<1>1. \A u \in Threads \ {t} : request[u].stage \in Storing /\ request[u].clean
        => request[u].url # request[t].url /\ RowOf(u)' = RowOf(u)
  BY DEF RivalsDisturbed, StoreKept, RowOf, Typed, Placed, PlacedRequest
<1>2. ConnectionAsAsked'
  <2>1. \A x \in Urls : wish'[x] = IF x = request[t].url THEN IF clean THEN asked ELSE Unknown ELSE wish[x]
    BY DEF Wished, Typed, TypeOK
  <2> QED BY <2>1 DEF StoreKept, ConnectionAsAsked
<1>3. NullIdOnlyAfterRace'
  BY DEF StoreKept, NullIdOnlyAfterRace, At
<1>4. /\ \A u \in Threads : (At(u, "insert") /\ request[u].clean => RowOf(u) = Null)'
      /\ \A u \in Threads : (At(u, "update") /\ request[u].clean => RowOf(u) # Null)'
  BY <1>1 DEF StoreKept, At, Storing
<1>5. RivalsDisturbed'
  BY DEF RivalsDisturbed, StoreKept, Storing
<1> QED BY <1>2, <1>3, <1>4, <1>5 DEF StoreKept

\* An insertion stores what was asked.
LEMMA InsertKeepsStore ==
  ASSUME Typed, StoreKept, NEW t \in Threads, InsertConnection(t)
  PROVE  StoreKept'
<1> DEFINE r == request[t]
<1>1. r \in Requests /\ r.url \in Urls /\ r.stage \in Storing /\ r.clean \in BOOLEAN
  BY DEF InsertConnection, At, Storing, Typed, TypeOK, Placed, PlacedRequest, Requests
<1>0. r.interval \in Intervals /\ lastId + 1 \in 1 .. MaxId
  BY NumbersAssumption DEF InsertConnection, At, Storing, Typed, TypeOK, Placed, PlacedRequest
<1>2. r.clean => RowOf(t) = Null
  BY DEF InsertConnection, StoreKept
<1>3. /\ AddRow(t) => /\ \A x \in Urls \ {r.url} : table'[x] = table[x]
                      /\ table'[r.url] # Null /\ table'[r.url].interval = r.interval
  <2>1. [id |-> lastId + 1, interval |-> r.interval, status |-> "new"] # Null
    BY <1>1, <1>0, RowsAssumption DEF Rows
  <2> QED BY <1>1, <2>1 DEF AddRow, Typed, TypeOK
<1>4. CASE /\ AddRow(t)
           /\ request' = [request EXCEPT ![t].stage = "submitted", ![t].id = lastId']
           /\ Wished(t, r.interval, r.clean)
  <2>1. lastId' # Null
    BY NumbersAssumption DEF InsertConnection, Typed, TypeOK
  <2>2. /\ request'[t].stage = "submitted" /\ request'[t].id = lastId'
        /\ \A u \in Threads \ {t} : request'[u] = request[u]
    BY <1>1, <1>4 DEF Typed, TypeOK, Requests
  <2> QED BY <1>1, <1>3, <1>4, <2>1, <2>2, WriteKeepsStore
<1>5. CASE RowOf(t) # Null /\ Goto(t, "submitted") /\ Wished(t, r.interval, r.clean) /\ UNCHANGED table
  <2>1. ~r.clean
    BY <1>2, <1>5
  <2>2. request'[t].stage = "submitted" /\ request'[t].clean = r.clean
    BY <1>1, <1>5 DEF Goto, Typed, TypeOK, Requests
  <2> QED BY <1>1, <1>5, <2>1, <2>2, WriteKeepsStore DEF Goto
<1>6. CASE /\ AddRow(t) \/ UNCHANGED table
           /\ request' = [request EXCEPT ![t].stage = "submitted", ![t].clean = FALSE]
           /\ Wished(t, Null, FALSE)
  <2>1. /\ request'[t].stage = "submitted" /\ ~request'[t].clean
        /\ \A u \in Threads \ {t} : request'[u] = request[u]
    BY <1>1, <1>6 DEF Typed, TypeOK, Requests
  <2> QED BY <1>1, <1>3, <1>6, <2>1, WriteKeepsStore
<1> QED BY <1>4, <1>5, <1>6 DEF InsertConnection

\* An update stores what was asked.
LEMMA UpdateKeepsStore ==
  ASSUME Typed, StoreKept, NEW t \in Threads, UpdateConnection(t)
  PROVE  StoreKept'
<1> DEFINE r == request[t]
<1>1. r \in Requests /\ r.url \in Urls /\ r.stage \in Storing /\ r.clean \in BOOLEAN /\ r.id # Null
  BY DEF UpdateConnection, At, Storing, Typed, TypeOK, Placed, PlacedRequest, Requests
<1>0. r.interval \in Intervals
  BY DEF UpdateConnection, At, Storing, Typed, Placed, PlacedRequest
<1>2. r.clean => RowOf(t) # Null
  BY DEF UpdateConnection, StoreKept
<1>3. SetInterval(t) => \A x \in Urls \ {r.url} : table'[x] = table[x]
  BY DEF SetInterval, Typed, TypeOK
<1>4. CASE SetInterval(t) /\ Goto(t, "submitted") /\ Wished(t, r.interval, r.clean)
  <2>1. request'[t].stage = "submitted" /\ request'[t].id = r.id
    BY <1>1, <1>4 DEF Goto, Typed, TypeOK, Requests
  <2>2. r.clean => table'[r.url] # Null /\ table'[r.url].interval = r.interval
    <3>1. SUFFICES ASSUME r.clean PROVE table'[r.url] # Null /\ table'[r.url].interval = r.interval
      OBVIOUS
    <3>2. table[r.url] \in Rows
      BY <1>1, <1>2, <3>1 DEF RowOf, Typed, TypeOK
    <3>3. table'[r.url] = [table[r.url] EXCEPT !.interval = r.interval]
      BY <1>1, <1>2, <1>4, <3>1 DEF SetInterval, RowOf, Typed, TypeOK
    <3> QED BY <1>0, <3>2, <3>3, RowsAssumption DEF Rows
  <2> QED BY <1>1, <1>3, <1>4, <2>1, <2>2, WriteKeepsStore DEF Goto
<1>5. CASE /\ SetInterval(t) \/ UNCHANGED table
           /\ request' = [request EXCEPT ![t].stage = "submitted", ![t].clean = FALSE]
           /\ Wished(t, Null, FALSE)
  <2>1. /\ request'[t].stage = "submitted" /\ ~request'[t].clean
        /\ \A u \in Threads \ {t} : request'[u] = request[u]
    BY <1>1, <1>5 DEF Typed, TypeOK, Requests
  <2> QED BY <1>1, <1>3, <1>5, <2>1, WriteKeepsStore
<1> QED BY <1>4, <1>5 DEF UpdateConnection

\* Deleting a connection changes no other one.
LEMMA DisconnectKeepsStore ==
  ASSUME Typed, StoreKept, NEW t \in Threads, NEW x \in Urls, Disconnect(t, x)
  PROVE  StoreKept'
<1>1. /\ \A u \in Threads \ {t} : Kin(u)
      /\ request'[t].stage \in {"idle", "status"}
  <2>1. (\E u \in Urls : Disconnect(t, u)) /\ request'[t].stage \in {"idle", "status"}
    <3>1. request'[t] = Idle \/ \E id : request'[t] = [Idle EXCEPT !.stage = "status", !.id = id]
      BY DEF Disconnect
    <3>2. ASSUME NEW id, request'[t] = [Idle EXCEPT !.stage = "status", !.id = id]
          PROVE  request'[t].stage = "status"
      BY <3>2 DEF Idle
    <3>3. request'[t] = Idle => request'[t].stage = "idle"
      BY DEF Idle
    <3> QED BY <3>1, <3>2, <3>3
  <2> QED BY <2>1, BeginGoes
<1>2. ASSUME NEW u \in Threads \ {t}, request'[u].stage \in Storing, request'[u].url = x
      PROVE  ~request'[u].clean
  <2>1. request'[u] = [request[u] EXCEPT
          !.clean = @ /\ ~(request[u].stage \in Storing /\ request[u].url = x)]
    BY DEF Disconnect
  <2>2. request[u] \in Requests /\ request[u].stage \in Storing /\ request[u].url = x
    BY <1>1, <1>2 DEF Kin, Typed, TypeOK
  <2> QED BY <2>1, <2>2 DEF Requests
<1>3. /\ \A y \in Urls \ {x} : table'[y] = table[y] /\ wish'[y] = wish[y]
      /\ wish'[x] = Unknown \/ (table'[x] = Null /\ wish'[x] = Null)
  BY DEF Disconnect, Typed, TypeOK
<1>4. ConnectionAsAsked'
  BY <1>3 DEF StoreKept, ConnectionAsAsked
<1>5. NullIdOnlyAfterRace'
  BY <1>1 DEF StoreKept, NullIdOnlyAfterRace, At, Kin
<1>6. /\ \A u \in Threads : (At(u, "insert") /\ request[u].clean => RowOf(u) = Null)'
      /\ \A u \in Threads : (At(u, "update") /\ request[u].clean => RowOf(u) # Null)'
  BY <1>1, <1>2, <1>3 DEF StoreKept, At, Kin, RowOf, Storing, Typed, Placed, PlacedRequest
<1>7. RivalsDisturbed'
  BY <1>1 DEF RivalsDisturbed, StoreKept, Kin, Storing
<1> QED BY <1>4, <1>5, <1>6, <1>7 DEF StoreKept

\* The status is written under the identifier of the deleted row; nothing here depends
\* on which row that finds.
LEMMA StatusKeepsStore ==
  ASSUME Typed, StoreKept, NEW t \in Threads, SetNewStatus(t)
  PROVE  StoreKept'
<1>1. \A u \in Threads \ {t} : request'[u] = request[u]
  BY DEF SetNewStatus, Typed, TypeOK
<1>2. request'[t].stage = "test"
  BY DEF SetNewStatus, Typed, TypeOK, Requests
<1>3. \A x \in Urls : /\ table'[x] = Null <=> table[x] = Null
                      /\ table[x] # Null => table'[x].interval = table[x].interval
  <2>1. ASSUME NEW x \in Urls, table[x] # Null, table'[x] = [table[x] EXCEPT !.status = "disconnected"]
        PROVE  table'[x] # Null /\ table'[x].interval = table[x].interval
    <3>1. table[x] \in Rows
      BY <2>1 DEF Typed, TypeOK
    <3>2. table'[x] \in Rows
      BY <2>1, <3>1 DEF Rows
    <3> QED BY <2>1, <3>1, <3>2, RowsAssumption DEF Rows
  <2>2. \A x \in Urls : \/ table'[x] = table[x]
                        \/ table[x] # Null /\ table'[x] = [table[x] EXCEPT !.status = "disconnected"]
    BY DEF SetNewStatus
  <2> QED BY <2>1, <2>2
<1>4. wish' = wish
  BY DEF SetNewStatus, history
<1>5. ConnectionAsAsked'
  BY <1>3, <1>4 DEF StoreKept, ConnectionAsAsked
<1>6. NullIdOnlyAfterRace'
  BY <1>1, <1>2 DEF StoreKept, NullIdOnlyAfterRace, At
<1>7. /\ \A u \in Threads : (At(u, "insert") /\ request[u].clean => RowOf(u) = Null)'
      /\ \A u \in Threads : (At(u, "update") /\ request[u].clean => RowOf(u) # Null)'
  BY <1>1, <1>2, <1>3 DEF StoreKept, At, RowOf, Storing, Typed, Placed, PlacedRequest
<1>8. RivalsDisturbed'
  BY <1>1, <1>2 DEF RivalsDisturbed, StoreKept, Storing
<1> QED BY <1>5, <1>6, <1>7, <1>8 DEF StoreKept

\* Every step keeps what the table says of undisturbed requests.
LEMMA NextKeepsStore ==
  ASSUME Typed, StoreKept, [Next]_vars
  PROVE  StoreKept'
<1>1. ASSUME NEW t \in Threads, Check(t) PROVE StoreKept'
  <2>1. \A u \in Threads \ {t} : Kin(u)
    BY <1>1, CheckGoes DEF Kin
  <2> QED BY <1>1, <2>1, CheckGoes, StoreUntouched DEF Checking, Storing
<1>2. ASSUME NEW t \in Threads, Answer(t) PROVE StoreKept'
  <2>1. \A u \in Threads \ {t} : Kin(u)
    BY <1>2, StoreGoes DEF Store
  <2>2. request'[t].stage = "idle"
    BY <1>2 DEF Answer, Reply, Idle, Typed, TypeOK
  <2> QED BY <1>2, <2>1, <2>2, StoreUntouched DEF Answer, Storing, database, history
<1>3. ASSUME NEW t \in Threads, NEW u, NEW interval, Connect(t, u, interval),
             \E ask \in Asks : Connect(t, ask[1], ask[2])
      PROVE  StoreKept'
  <2>1. request'[t].stage \in {"verdict", "capabilities"}
    BY <1>3 DEF Connect, Idle, Typed, TypeOK
  <2> QED BY <1>3, <2>1, BeginGoes, StoreUntouched DEF Connect, Storing, database, history
<1>4. ASSUME NEW t \in Threads, TestSize(t) \/ RemoveInfo(t) \/ AddInfo(t) PROVE StoreKept'
  <2>1. \A u \in Threads \ {t} : Kin(u)
    BY <1>4, NoteGoes DEF Note, Kin
  <2>2. Note(t) /\ UNCHANGED <<table, wish>>
    BY <1>4 DEF Note, TestSize, RemoveInfo, AddInfo, database, history
  <2> QED BY <2>1, <2>2, NoteGoes, StoreUntouched DEF Storing, Listing
<1>5. CASE Restart
  BY <1>5 DEF Restart, database, StoreKept, RivalsDisturbed, ConnectionAsAsked, NullIdOnlyAfterRace, Idle, At, Storing
<1>6. CASE UNCHANGED vars
  BY <1>6 DEF vars, history, database, StoreKept, RivalsDisturbed, ConnectionAsAsked,
              NullIdOnlyAfterRace, At, RowOf
<1> QED BY <1>1, <1>2, <1>3, <1>4, <1>5, <1>6, LookupKeepsStore, InsertKeepsStore, UpdateKeepsStore,
           DisconnectKeepsStore, StatusKeepsStore DEF Next, Store, Note

\* The statement about the table holds in every reachable state.
LEMMA StoreAlways == Spec => []StoreKept
<1>1. Init => StoreKept
  <2> SUFFICES ASSUME Init PROVE StoreKept
    OBVIOUS
  <2>1. \A t \in Threads : request[t].stage = "idle"
    BY DEF Init, Idle
  <2>2. ConnectionAsAsked
    BY DEF Init, ConnectionAsAsked
  <2>3. \A t \in Threads : request[t].stage \notin Storing \union {"submitted", "insert", "update"}
    BY <2>1 DEF Storing
  <2> QED BY <2>2, <2>3 DEF StoreKept, RivalsDisturbed, NullIdOnlyAfterRace, At
<1>2. Typed /\ StoreKept /\ [Next]_vars => StoreKept'
  BY NextKeepsStore
<1> QED BY <1>1, <1>2, TypedAlways, PTL DEF Spec

\* Whatever other requests, failures and restarts there were, the row of a URL is what
\* the last undisturbed request on it asked for.
THEOREM TableIsAsAsked == Spec => []ConnectionAsAsked
<1>1. StoreKept => ConnectionAsAsked
  BY DEF StoreKept
<1> QED BY <1>1, StoreAlways, PTL

\* An undisturbed request submits its connection with an identifier.
THEOREM IdentifierIsKnown == Spec => []NullIdOnlyAfterRace
<1>1. StoreKept => NullIdOnlyAfterRace
  BY DEF StoreKept
<1> QED BY <1>1, StoreAlways, PTL

-----------------------------------------------------------------------------
(* The check *)

\* As long as the required slots were filled by one request alone: while it fills them
\* nobody compares with them, and whoever compares does so with all of them.
LoadKept ==
  ~loadRaced =>
    /\ \A t \in Threads : At(t, "loading") =>
         /\ required = Slots \ request[t].todo
         /\ \A u \in Threads \ {t} : request[u].stage \notin {"loading", "asking"}
    /\ \A t \in Threads : At(t, "asking") => required = Slots
    /\ (\A t \in Threads : ~At(t, "loading")) => required \in {{}, Slots}

\* What a request believes of a catalogue with no other slots is so, and a request that
\* got through the check believes all.
Sound(t) ==
  request[t].url \notin Trusted /\ Has(t) \intersect OldSlots = {} =>
    /\ request[t].stage \in Checking \union {"verdict", "lookup"} /\ "slots" \in request[t].has
         => Slots \subseteq Has(t)
    /\ request[t].stage \in Checking \union {"verdict", "lookup"} /\ "classification" \in request[t].has
         => Docs \subseteq Has(t)
    /\ At(t, "lookup") => Slots \union Docs \subseteq Has(t)

CheckKept == LoadKept /\ (loadRaced \/ \A t \in Threads : Sound(t))

\* A step that leaves the slots alone and brings no request to them.
LEMMA LoadUntouched ==
  ASSUME LoadKept, NEW t \in Threads, UNCHANGED <<required, loadRaced>>,
         \A u \in Threads \ {t} : Kin(u),
         request[t].stage # "loading",
         request'[t].stage \notin {"loading", "asking"}
  PROVE  LoadKept'
<1>1. \A u \in Threads : request'[u].stage \in {"loading", "asking"} =>
        u # t /\ request'[u].stage = request[u].stage /\ request'[u].todo = request[u].todo
  BY DEF Kin
<1>2. \A u \in Threads : At(u, "loading") => At(u, "loading")'
  BY DEF Kin, At
<1> QED BY <1>1, <1>2 DEF LoadKept, At

\* The slots are loaded by one, and come to by others.
LEMMA LoadKeeps ==
  ASSUME Typed, LoadKept, NEW t \in Threads, ComeToRequiredSlots(t) \/ LoadSlot(t)
  PROVE  LoadKept'
<1>1. \A u \in Threads \ {t} : request'[u] = request[u]
  BY CheckGoes DEF Check
<1>2. request[t] \in Requests
  BY DEF Typed, TypeOK
<1>3. CASE ComeToRequiredSlots(t) /\ ~loadRaced'
  <2>1. ~loadRaced /\ \A u \in Threads : ~At(u, "loading")
    BY <1>3 DEF ComeToRequiredSlots, Others, At
  <2>2. required' = required /\ required \in {{}, Slots}
    BY <1>3, <2>1 DEF ComeToRequiredSlots, LoadKept
  <2>3. CASE required = {}
    <3>1. request'[t].stage = "loading" /\ request'[t].todo = Slots
      BY <1>2, <1>3, <2>3 DEF ComeToRequiredSlots, Typed, TypeOK, Requests
    <3>2. \A u \in Threads \ {t} : request'[u].stage \notin {"loading", "asking"}
      BY <1>1, <2>1, <2>3, ElementsAssumption DEF LoadKept, At
    <3> QED BY <1>1, <2>2, <2>3, <3>1, <3>2 DEF LoadKept, At
  <2>4. CASE required = Slots /\ required # {}
    <3>1. request'[t].stage = "asking"
      BY <1>2, <1>3, <2>4 DEF ComeToRequiredSlots, Typed, TypeOK, Requests
    <3>2. \A u \in Threads : request'[u].stage # "loading"
      BY <1>1, <2>1, <3>1 DEF At
    <3> QED BY <2>2, <2>4, <3>2 DEF LoadKept, At
  <2> QED BY <2>2, <2>3, <2>4
<1>4. CASE LoadSlot(t) /\ ~loadRaced'
  <2>1. ~loadRaced /\ request[t].stage = "loading"
    BY <1>4 DEF LoadSlot, history, At
  <2>2. /\ required = Slots \ request[t].todo
        /\ \A u \in Threads \ {t} : request[u].stage \notin {"loading", "asking"}
    BY <2>1 DEF LoadKept, At
  <2>3. PICK slot \in request[t].todo :
          /\ required' = required \union {slot}
          /\ request'[t].todo = request[t].todo \ {slot}
          /\ request'[t].stage = IF request[t].todo = {slot} THEN "asking" ELSE "loading"
    <3>1. PICK slot \in request[t].todo, lost \in SUBSET required :
            /\ lost # {} => \E other \in Others(t) : At(other, "loading")
            /\ required' = (required \union {slot}) \ lost
            /\ request' = [request EXCEPT
                 ![t].todo = @ \ {slot},
                 ![t].stage = IF request[t].todo = {slot} THEN "asking" ELSE "loading"]
      BY <1>4 DEF LoadSlot
    <3>2. lost = {}
      BY <2>2, <3>1 DEF Others, At
    <3> QED BY <1>2, <3>1, <3>2 DEF Typed, TypeOK, Requests
  <2>4. request[t].todo \subseteq Slots
    BY <2>1 DEF Typed, Placed, PlacedRequest
  <2>5. required' = Slots \ request'[t].todo
    BY <2>2, <2>3, <2>4
  <2> QED BY <1>1, <2>2, <2>3, <2>5 DEF LoadKept, At
<1> QED BY <1>3, <1>4 DEF LoadKept

\* Every step keeps what the list of required slots holds while it is loaded.
LEMMA NextKeepsLoad ==
  ASSUME Typed, LoadKept, [Next]_vars
  PROVE  LoadKept'
<1>1. ASSUME NEW t \in Threads, Check(t), ~ComeToRequiredSlots(t), ~LoadSlot(t)
      PROVE  LoadKept'
  <2>1. \A u \in Threads \ {t} : Kin(u)
    BY <1>1, CheckGoes DEF Kin
  <2>2. UNCHANGED <<required, loadRaced>>
    BY <1>1 DEF Check, CheckCapabilities, CheckForClassificationSchemes, CheckForSlots, InsertSlots,
                InsertDoc, BreakOff, Verdict, history
  <2>3. request[t].stage # "loading"
    BY <1>1 DEF Check, CheckCapabilities, CheckForClassificationSchemes, CheckForSlots, InsertSlots,
                InsertDoc, BreakOff, Verdict, At, Checking
  <2>4. request'[t].stage \notin {"loading", "asking"}
    <3> USE DEF Typed, TypeOK, Requests, At
    <3>1. CASE CheckCapabilities(t) \/ CheckForClassificationSchemes(t)
      BY <3>1 DEF CheckCapabilities, CheckForClassificationSchemes
    <3>2. CASE CheckForSlots(t)
      BY <3>2 DEF CheckForSlots, AfterSlots
    <3>3. CASE InsertSlots(t)
      BY <3>3 DEF InsertSlots, Reply, Idle
    <3>4. CASE InsertDoc(t)
      BY <3>4 DEF InsertDoc, Reply, Idle
    <3>5. CASE BreakOff(t) \/ Verdict(t)
      BY <3>5 DEF BreakOff, Verdict, Reply, Idle
    <3> QED BY <1>1, <3>1, <3>2, <3>3, <3>4, <3>5 DEF Check
  <2> QED BY <2>1, <2>2, <2>3, <2>4, LoadUntouched
<1>2. ASSUME NEW t \in Threads, Store(t) PROVE LoadKept'
  BY <1>2, StoreGoes, LoadUntouched DEF Storing
<1>3. ASSUME NEW t \in Threads,
             (\E ask \in Asks : Connect(t, ask[1], ask[2])) \/ (\E u \in Urls : Disconnect(t, u))
      PROVE  LoadKept'
  BY <1>3, BeginGoes, LoadUntouched
<1>4. ASSUME NEW t \in Threads, Note(t) PROVE LoadKept'
  <2>1. \A u \in Threads \ {t} : Kin(u)
    BY <1>4, NoteGoes DEF Kin
  <2> QED BY <1>4, <2>1, NoteGoes, LoadUntouched DEF Listing
<1>5. CASE Restart
  BY <1>5 DEF Restart, LoadKept, Idle, At
<1>6. CASE UNCHANGED vars
  BY <1>6 DEF vars, history, LoadKept, At
<1> QED BY <1>1, <1>2, <1>3, <1>4, <1>5, <1>6, LoadKeeps DEF Next

\* Nothing is ever taken from a catalogue.
LEMMA RemoteGrows ==
  ASSUME Typed, [Next]_vars
  PROVE  \A x \in Urls : remote[x] \subseteq remote'[x]
<1>1. ASSUME NEW t \in Threads, Check(t) PROVE \A x \in Urls : remote[x] \subseteq remote'[x]
  <2>1. CASE InsertSlots(t)
    BY <2>1 DEF InsertSlots, Typed, TypeOK
  <2>2. CASE InsertDoc(t)
    <3>1. PICK inserted \in SUBSET Docs : remote' = [remote EXCEPT ![request[t].url] = @ \union inserted]
      BY <2>2 DEF InsertDoc
    <3> QED BY <3>1 DEF Typed, TypeOK
  <2>3. CASE ~InsertSlots(t) /\ ~InsertDoc(t)
    <3>1. remote' = remote
      BY <1>1, <2>3 DEF Check, CheckCapabilities, CheckForClassificationSchemes, ComeToRequiredSlots,
                        LoadSlot, CheckForSlots, BreakOff, Verdict
    <3> QED BY <3>1
  <2> QED BY <2>1, <2>2, <2>3
<1>2. CASE \E t \in Threads : \/ \E ask \in Asks : Connect(t, ask[1], ask[2])
                              \/ \E u \in Urls : Disconnect(t, u)
                              \/ Store(t) \/ Note(t)
  BY <1>2, BeginGoes, StoreGoes, NoteGoes
<1>3. CASE Restart \/ UNCHANGED vars
  BY <1>3 DEF Restart, vars
<1> QED BY <1>1, <1>2, <1>3 DEF Next

\* What others do to a catalogue does not make a belief wrong.
LEMMA OthersKeepSound ==
  ASSUME Typed, NEW u \in Threads, Sound(u), Kin(u),
         \A x \in Urls : remote[x] \subseteq remote'[x]
  PROVE  Sound(u)'
<1>1. CASE request[u].stage \in Checking \union {"verdict", "lookup"}
  <2>1. request[u].url \in Urls
    BY <1>1 DEF Typed, Placed, PlacedRequest
  <2>2. Has(u) \subseteq Has(u)'
    BY <2>1 DEF Has, Kin
  <2> QED BY <2>2 DEF Sound, Kin, At
<1>2. CASE request[u].stage \notin Checking \union {"verdict", "lookup"}
  BY <1>2 DEF Sound, Kin, At
<1> QED BY <1>1, <1>2

\* Slots that are enough in number are all, if there are no others and all of the
\* required ones are loaded.
LEMMA CountingSuffices ==
  ASSUME NEW has \in SUBSET Elements, has \intersect OldSlots = {}, required = Slots,
         SlotsSuffice(has \ Docs)
  PROVE  Slots \subseteq has
<1>1. has \ Docs \subseteq Slots
  BY DEF Elements
<1>2. IsFiniteSet(Slots)
  BY ElementsAssumption
<1>3. Cardinality(has \ Docs) >= Cardinality(Slots)
  BY DEF SlotsSuffice
<1>4. has \ Docs = Slots
  <2>1. /\ Cardinality(has \ Docs) <= Cardinality(Slots)
        /\ Cardinality(has \ Docs) = Cardinality(Slots) => has \ Docs = Slots
    BY <1>1, <1>2, FS_Subset
  <2>2. Cardinality(has \ Docs) \in Nat /\ Cardinality(Slots) \in Nat
    BY <1>1, <1>2, FS_Subset, FS_CardinalityType
  <2> QED BY <1>3, <2>1, <2>2
<1> QED BY <1>4

\* A request believes no more than it found out.
LEMMA CheckKeepsSound ==
  ASSUME Typed, LoadKept, ~loadRaced, NEW t \in Threads, Sound(t), Check(t),
         \A x \in Urls : remote[x] \subseteq remote'[x]
  PROVE  Sound(t)'
<1> DEFINE r == request[t]
           s == request'[t]
<1>1. r \in Requests /\ r.stage \in Checking \union {"verdict"} /\ r.url \in Urls
  BY CheckGoes DEF Typed, TypeOK, Placed, PlacedRequest
<1>2. ASSUME s.url = r.url, s.stage # "lookup",
             "slots" \in s.has => "slots" \in r.has \/ (Has(t) \intersect OldSlots = {} => Slots \subseteq Has(t)),
             "classification" \in s.has => "classification" \in r.has \/ Docs \subseteq Has(t)
      PROVE  Sound(t)'
  <2>1. Has(t) \subseteq Has(t)'
    BY <1>1, <1>2 DEF Has
  <2> QED BY <1>1, <1>2, <2>1 DEF Sound, At
<1>3. s = Idle => Sound(t)'
  BY DEF Sound, Idle, At, Checking
<1> USE DEF Typed, TypeOK, Requests, At
<1>4. CASE CheckCapabilities(t)
  BY <1>1, <1>2, <1>4 DEF CheckCapabilities
<1>5. CASE CheckForClassificationSchemes(t)
  BY <1>1, <1>2, <1>5 DEF CheckForClassificationSchemes
<1>6. CASE ComeToRequiredSlots(t) \/ LoadSlot(t)
  <2>1. s.url = r.url /\ s.has = r.has /\ s.stage # "lookup"
    <3>1. CASE ComeToRequiredSlots(t)
      BY <1>1, <3>1 DEF ComeToRequiredSlots
    <3>2. CASE LoadSlot(t)
      BY <1>1, <3>2 DEF LoadSlot
    <3> QED BY <1>6, <3>1, <3>2
  <2> QED BY <1>2, <2>1
<1>7. CASE CheckForSlots(t)
  <2>1. required = Slots
    BY <1>7 DEF CheckForSlots, LoadKept
  <2>2. Has(t) \in SUBSET Elements
    BY <1>1 DEF Has
  <2>3. SlotsSuffice(Has(t) \ Docs) => (Has(t) \intersect OldSlots = {} => Slots \subseteq Has(t))
    BY <2>1, <2>2, CountingSuffices
  <2>4. /\ s.has = r.has \union (IF SlotsSuffice(Has(t) \ Docs) THEN {"slots"} ELSE {})
        /\ s.url = r.url
        /\ s.stage # "lookup"
    BY <1>1, <1>7 DEF CheckForSlots, AfterSlots
  <2> QED BY <1>2, <2>3, <2>4
<1>8. CASE InsertSlots(t)
  BY <1>1, <1>2, <1>3, <1>8 DEF InsertSlots, Reply
<1>9. CASE InsertDoc(t)
  <2>1. s = Idle \/ (s.url = r.url /\ s.has = r.has /\ s.stage # "lookup")
    BY <1>1, <1>9 DEF InsertDoc, Reply
  <2> QED BY <1>2, <1>3, <2>1
<1>10. CASE BreakOff(t)
  BY <1>1, <1>3, <1>10 DEF BreakOff, Reply
<1>11. CASE Verdict(t)
  <2>1. CASE r.has = Features /\ r.interval # NoPush
    <3>1. s.url = r.url /\ s.has = {} /\ s.stage = "lookup" /\ remote' = remote
      BY <1>1, <1>11, <2>1 DEF Verdict
    <3>2. r.stage = "verdict" /\ "slots" \in r.has /\ "classification" \in r.has
      BY <1>11, <2>1 DEF Verdict, Features
    <3> QED BY <3>1, <3>2 DEF Sound, Has
  <2>2. CASE ~(r.has = Features /\ r.interval # NoPush)
    BY <1>1, <1>3, <1>11, <2>2 DEF Verdict, Reply
  <2> QED BY <2>1, <2>2
<1> QED BY <1>4, <1>5, <1>6, <1>7, <1>8, <1>9, <1>10, <1>11 DEF Check

\* Every step keeps what is known of a request that is being checked.
LEMMA NextKeepsCheck ==
  ASSUME Typed, CheckKept, [Next]_vars
  PROVE  CheckKept'
<1>1. LoadKept'
  BY NextKeepsLoad DEF CheckKept
<1>2. CASE Restart
  BY <1>1, <1>2 DEF Restart, CheckKept, Sound, Idle, At, Checking
<1>3. CASE UNCHANGED vars
  BY <1>1, <1>3 DEF vars, history, CheckKept, Sound, Has, At
<1>4. ASSUME NEW t \in Threads, \A u \in Threads \ {t} : Kin(u), loadRaced => loadRaced',
             ~loadRaced => Sound(t)'
      PROVE  CheckKept'
  <2>1. CASE loadRaced
    BY <1>1, <1>4, <2>1 DEF CheckKept
  <2>2. CASE ~loadRaced
    <3>1. ASSUME NEW u \in Threads \ {t} PROVE Sound(u)'
      BY <1>4, <2>2, RemoteGrows, OthersKeepSound DEF CheckKept
    <3>2. \A u \in Threads : Sound(u)'
      BY <1>4, <2>2, <3>1
    <3> QED BY <1>1, <3>2 DEF CheckKept
  <2> QED BY <2>1, <2>2
<1>5. ASSUME NEW t \in Threads, Check(t) PROVE CheckKept'
  <2>1. \A u \in Threads \ {t} : Kin(u)
    BY <1>5, CheckGoes DEF Kin
  <2>2. loadRaced => loadRaced'
    BY <1>5 DEF Check, CheckCapabilities, CheckForClassificationSchemes, ComeToRequiredSlots, LoadSlot,
                CheckForSlots, InsertSlots, InsertDoc, BreakOff, Verdict, history
  <2>3. ~loadRaced => Sound(t)'
    BY <1>5, RemoteGrows, CheckKeepsSound DEF CheckKept
  <2> QED BY <1>4, <2>1, <2>2, <2>3
<1>6. ASSUME NEW t \in Threads, Store(t) PROVE CheckKept'
  <2>1. Sound(t)'
    BY <1>6, StoreGoes DEF Sound, At, Storing, Checking
  <2> QED BY <1>4, <1>6, <2>1, StoreGoes
<1>7. ASSUME NEW t \in Threads,
             (\E ask \in Asks : Connect(t, ask[1], ask[2])) \/ (\E u \in Urls : Disconnect(t, u))
      PROVE  CheckKept'
  <2>1. Sound(t)'
    BY <1>7, BeginGoes DEF Sound, At, Checking
  <2> QED BY <1>4, <1>7, <2>1, BeginGoes
<1>8. ASSUME NEW t \in Threads, Note(t) PROVE CheckKept'
  <2>1. Sound(t)' /\ \A u \in Threads \ {t} : Kin(u)
    BY <1>8, NoteGoes DEF Sound, At, Listing, Checking, Kin
  <2> QED BY <1>4, <1>8, <2>1, NoteGoes
<1> QED BY <1>2, <1>3, <1>5, <1>6, <1>7, <1>8 DEF Next

\* A catalogue that gets through the check is complete, for every number of slots and
\* documents, although slots are only counted: as long as one request alone filled the
\* static map, and the catalogue has no other slots.
THEOREM AcceptedIsCompleteAlways == Spec => []AcceptedIsComplete
<1>1. Init => CheckKept
  <2> SUFFICES ASSUME Init PROVE CheckKept
    OBVIOUS
  <2>1. \A t \in Threads : request[t].stage = "idle"
    BY DEF Init, Idle
  <2>2. LoadKept
    BY <2>1 DEF Init, LoadKept, At
  <2> QED BY <2>1, <2>2 DEF CheckKept, Sound, At, Checking
<1>2. Typed /\ CheckKept /\ [Next]_vars => CheckKept'
  BY NextKeepsCheck
<1>3. CheckKept => AcceptedIsComplete
  BY DEF CheckKept, Sound, AcceptedIsComplete
<1> QED BY <1>1, <1>2, <1>3, TypedAlways, PTL DEF Spec

=============================================================================
