------------------------- MODULE CatalogConnections -------------------------
(***************************************************************************)
(* The operations ConnectToCatalog and DisconnectFromCatalog.  To connect  *)
(* a catalogue is to examine it (does it offer the needed capabilities,    *)
(* classification documents and slots?), to insert into it what it lacks,  *)
(* to examine it again, and to keep its URL and push interval in the table *)
(* catalog.  To disconnect it is to delete the row and to note the event   *)
(* in a list of bounded length.  Both listeners and the status handler are *)
(* shared by all requests; no statement is in a transaction with another.  *)
(*                                                                         *)
(* The scheduler's submit() and cancel() only log, so that a row is all    *)
(* there is of a connection, and the task that pushes never runs.          *)
(*                                                                         *)
(* Of a catalogue the model keeps which of the needed documents and slots  *)
(* it has; OldSlots are others of its slot definition record, for instance *)
(* of an earlier version of the service.  Nobody else takes anything from  *)
(* a catalogue, and its capabilities, asked for once, are up to chance.    *)
(* An exchange with it may fail before or after it took effect, and so may *)
(* a statement.  The servlet threads serve any number of requests.         *)
(***************************************************************************)
EXTENDS Naturals, FiniteSets

CONSTANTS
  Threads,     \* servlet threads
  Urls,        \* of catalogues
  Trusted,     \* the list oss.catalogconnection.doNotCheckCatalogs
  Contents,    \* what each catalogue may have at first
  Docs,        \* documents of classification schemes
  Slots,       \* slots of the slot initialisation document
  OldSlots,    \* other slots
  Intervals,   \* push intervals
  NoPush,      \* NO_PUSH_INTERVAL
  Asks,        \* the catalogues and intervals of ConnectToCatalog requests
  Null,
  MaxInfo,     \* MAXIMUM_INFOLIST_SIZE
  MaxId        \* bound on catalog_id_sir

Elements == Docs \union Slots \union OldSlots

ASSUME ElementsAssumption ==
  /\ IsFiniteSet(Slots) /\ IsFiniteSet(OldSlots) /\ Slots # {}
  /\ Docs \intersect Slots = {} /\ OldSlots \intersect (Slots \union Docs) = {}
ASSUME ContentsAssumption == Contents \in [Urls -> SUBSET SUBSET Elements]
ASSUME UrlsAssumption == Trusted \subseteq Urls /\ Null \notin Urls
ASSUME IntervalsAssumption == NoPush \notin Intervals /\ Null \notin Intervals \union {NoPush}
ASSUME AsksAssumption == Asks \subseteq Urls \X (Intervals \union {NoPush})
ASSUME NumbersAssumption == MaxInfo \in Nat \ {0} /\ MaxId \in Nat /\ Null \notin Nat

VARIABLES
  request,    \* what each thread is at
  required,   \* CswCatalogChecker.requiredSlots, static and filled on first use
  remote,     \* what each catalogue has
  table,      \* table catalog by its primary key, catalog_url
  lastId,     \* its sequence
  infoSize,   \* runtimeInfo.size()
  (* History. *)
  loadRaced,  \* a request came to the required slots while another filled them
  infoRaced,  \* two requests were at the list of events at once
  wish        \* what the last request on a URL asked for, if it had the URL for
              \* itself and no statement of it failed

history == <<loadRaced, infoRaced, wish>>
vars == <<request, required, remote, table, lastId, infoSize, history>>

Checking == {"capabilities", "classification", "slots", "loading", "asking",
             "insertSlots", "insertDocs", "reclassification"}
Storing == {"insert", "update"}
Listing == {"remove", "add"}
Stages == {"idle", "verdict", "lookup", "submitted", "status", "test"}
            \union Checking \union Storing \union Listing

Features == {"capabilities", "classification", "slots"}
Rows == [id : 1 .. MaxId, interval : Intervals, status : {"new", "disconnected"}]
Unknown == "unknown"

ASSUME RowsAssumption == Null \notin Rows

Requests == [stage : Stages, url : Urls \union {Null}, interval : Intervals \union {NoPush, Null},
             has : SUBSET Features, todo : SUBSET Elements, again : BOOLEAN,
             id : 1 .. MaxId \union {Null}, clean : BOOLEAN]

Idle == [stage |-> "idle", url |-> Null, interval |-> Null, has |-> {}, todo |-> {},
         again |-> FALSE, id |-> Null, clean |-> TRUE]

TypeOK ==
  /\ request \in [Threads -> Requests]
  /\ required \subseteq Slots
  /\ remote \in [Urls -> SUBSET Elements]
  /\ table \in [Urls -> Rows \union {Null}]
  /\ lastId \in 0 .. MaxId
  /\ infoSize \in Nat
  /\ loadRaced \in BOOLEAN
  /\ infoRaced \in BOOLEAN
  /\ wish \in [Urls -> Intervals \union {Null, Unknown}]

Init ==
  /\ request = [t \in Threads |-> Idle]
  /\ required = {}
  /\ remote \in [Urls -> SUBSET Elements] /\ \A u \in Urls : remote[u] \in Contents[u]
  /\ table = [u \in Urls |-> Null]
  /\ lastId = 0
  /\ infoSize = 0
  /\ loadRaced = FALSE
  /\ infoRaced = FALSE
  /\ wish = [u \in Urls |-> Null]

-----------------------------------------------------------------------------
At(t, stage) == request[t].stage = stage
Others(t) == Threads \ {t}
database == <<table, lastId>>

\* Continue t at a stage.
Goto(t, stage) == request' = [request EXCEPT ![t].stage = stage]

\* The answer, or an exception report, is sent and the thread is free.
Reply(t) == request' = [request EXCEPT ![t] = Idle]

\* receiveRequest() of ConnectToCatalogListener; a listed catalogue is not checked.
Connect(t, u, interval) ==
  /\ At(t, "idle")
  /\ request' = [request EXCEPT ![t] =
       [Idle EXCEPT !.stage = IF u \in Trusted THEN "verdict" ELSE "capabilities",
                    !.url = u, !.interval = interval,
                    !.has = IF u \in Trusted THEN Features ELSE {}]]
  /\ UNCHANGED <<required, remote, database, infoSize, history>>

-----------------------------------------------------------------------------
(* CswCatalogChecker *)

Has(t) == remote[request[t].url]

CheckCapabilities(t) ==
  /\ At(t, "capabilities")
  /\ \E sufficient \in SUBSET {"capabilities"} :
       request' = [request EXCEPT ![t].stage = "classification", ![t].has = sufficient]
  /\ UNCHANGED <<required, remote, database, infoSize, history>>

\* checkForClassificationSchemes(), at first and again after an insertion.  The
\* documents are asked for one by one; as contents only grow, one step does.
CheckForClassificationSchemes(t) ==
  /\ \E stage \in {"classification", "reclassification"} :
       /\ At(t, stage)
       /\ request' = [request EXCEPT
            ![t].stage = IF stage = "classification" THEN "slots" ELSE "verdict",
            ![t].has = @ \union (IF Docs \subseteq Has(t) THEN {"classification"} ELSE {})]
  /\ UNCHANGED <<required, remote, database, infoSize, history>>

\* The head of checkForSlots(): the slots are loaded by whoever finds none.
ComeToRequiredSlots(t) ==
  /\ At(t, "slots")
  /\ request' = [request EXCEPT
       ![t].stage = IF required = {} THEN "loading" ELSE "asking",
       ![t].todo = IF required = {} THEN Slots ELSE {}]
  /\ loadRaced' = (loadRaced \/ \E other \in Others(t) : At(other, "loading"))
  /\ UNCHANGED <<required, remote, database, infoSize, infoRaced, wish>>

\* put(): two threads in an unsynchronised HashMap may lose entries.
LoadSlot(t) ==
  /\ At(t, "loading")
  /\ \E slot \in request[t].todo, lost \in SUBSET required :
       /\ lost # {} => \E other \in Others(t) : At(other, "loading")
       /\ required' = (required \union {slot}) \ lost
       /\ request' = [request EXCEPT
            ![t].todo = @ \ {slot},
            ![t].stage = IF request[t].todo = {slot} THEN "asking" ELSE "loading"]
  /\ UNCHANGED <<remote, database, infoSize, history>>

\* The slots that are found are counted, and no required one is looked up.
SlotsSuffice(found) == found # {} /\ Cardinality(found) >= Cardinality(required)

\* What checkAndUpdateClient() does once it knows of the slots.
AfterSlots(has, again) ==
  IF "slots" \notin has /\ ~again THEN "insertSlots"
  ELSE IF "classification" \notin has THEN "insertDocs"
  ELSE "verdict"

\* The rest of checkForSlots().
CheckForSlots(t) ==
  /\ At(t, "asking")
  /\ LET has == request[t].has \union
                  (IF SlotsSuffice(Has(t) \ Docs) THEN {"slots"} ELSE {})
         next == AfterSlots(has, request[t].again)
     IN  request' = [request EXCEPT ![t].has = has, ![t].stage = next,
                                    ![t].todo = IF next = "insertDocs" THEN Docs ELSE {}]
  /\ UNCHANGED <<required, remote, database, infoSize, history>>

\* Mutant of InsertSlots: what was inserted is not looked at again.
TrustInsertion(t) ==
  /\ At(t, "insertSlots")
  /\ \E inserted \in SUBSET Slots :
       remote' = [remote EXCEPT ![request[t].url] = @ \union inserted]
  /\ LET has == request[t].has \union {"slots"}
         next == AfterSlots(has, TRUE)
     IN  request' = [request EXCEPT ![t].has = has, ![t].stage = next, ![t].again = TRUE,
                                    ![t].todo = IF next = "insertDocs" THEN Docs ELSE {}]
  /\ UNCHANGED <<required, database, infoSize, history>>

\* The catalogue may insert fewer than it was sent, which handleResponse() only logs,
\* or answer with a fault, or its answer may be lost.
InsertSlots(t) ==
  /\ At(t, "insertSlots")
  /\ \E inserted \in SUBSET Slots :
       remote' = [remote EXCEPT ![request[t].url] = @ \union inserted]
  /\ \/ request' = [request EXCEPT ![t].stage = "slots", ![t].again = TRUE]
     \/ Reply(t)
  /\ UNCHANGED <<required, database, infoSize, history>>

\* All documents are inserted, also those that the catalogue has.
InsertDoc(t) ==
  /\ At(t, "insertDocs")
  /\ \E doc \in request[t].todo, inserted \in SUBSET Docs :
       /\ inserted \subseteq {doc}
       /\ remote' = [remote EXCEPT ![request[t].url] = @ \union inserted]
       /\ \/ request' = [request EXCEPT
               ![t].todo = @ \ {doc},
               ![t].stage = IF request[t].todo = {doc} THEN "reclassification" ELSE "insertDocs"]
          \/ Reply(t)
  /\ UNCHANGED <<required, database, infoSize, history>>

\* An OwsExceptionReport or a runtime exception ends the request.
BreakOff(t) ==
  /\ request[t].stage \in Checking \ {"loading", "slots"}
  /\ Reply(t)
  /\ UNCHANGED <<required, remote, database, infoSize, history>>

\* A connection for a single push is submitted, which does nothing.
Verdict(t) ==
  /\ At(t, "verdict")
  /\ IF request[t].has = Features /\ request[t].interval # NoPush
       THEN request' = [request EXCEPT ![t].stage = "lookup", ![t].has = {}]
       ELSE Reply(t)
  /\ UNCHANGED <<required, remote, database, infoSize, history>>

-----------------------------------------------------------------------------
(* The table *)

\* The requests that have looked the URL of t up and not yet written its row.
Rivals(t) == {other \in Others(t) : request[other].stage \in Storing
                                      /\ request[other].url = request[t].url}

\* Go to a stage with the identifier that was found, and with the URL for oneself
\* unless there are rivals, who have it no longer for themselves either.
Enter(t, stage, id, clean) ==
  request' = [other \in Threads |->
    IF other = t THEN [request[t] EXCEPT !.stage = stage, !.id = id,
                                         !.clean = clean /\ Rivals(t) = {}]
    ELSE [request[other] EXCEPT !.clean = @ /\ other \notin Rivals(t)]]

Wished(t, asked, clean) ==
  wish' = [wish EXCEPT ![request[t].url] = IF clean THEN asked ELSE Unknown]

RowOf(t) == table[request[t].url]

\* getConnectionID(): an SQLException means null.
GetConnectionID(t) ==
  /\ At(t, "lookup")
  /\ \/ RowOf(t) # Null /\ Enter(t, "update", RowOf(t).id, TRUE)
     \/ RowOf(t) = Null /\ Enter(t, "insert", Null, TRUE)
     \/ Enter(t, "insert", Null, FALSE)
  /\ Wished(t, Null, FALSE)
  /\ UNCHANGED <<required, remote, database, infoSize, loadRaced, infoRaced>>

\* The INSERT of an absent row, answered with an identifier.
AddRow(t) ==
  /\ RowOf(t) = Null
  /\ table' = [table EXCEPT ![request[t].url] =
                 [id |-> lastId + 1, interval |-> request[t].interval, status |-> "new"]]

\* Mutant of InsertConnection: the INSERT has no RETURNING.
InsertWithoutReturning(t) ==
  /\ At(t, "insert")
  /\ lastId < MaxId
  /\ lastId' = lastId + 1
  /\ \/ AddRow(t) \/ UNCHANGED table
  /\ request' = [request EXCEPT ![t].stage = "submitted"]
  /\ Wished(t, request[t].interval, request[t].clean)
  /\ UNCHANGED <<required, remote, infoSize, loadRaced, infoRaced>>

\* insertConnection() and submit(): a duplicate key or another SQLException means
\* that the connection is submitted without an identifier.
InsertConnection(t) ==
  /\ At(t, "insert")
  /\ lastId < MaxId
  /\ lastId' = lastId + 1
  /\ \/ /\ AddRow(t)
        /\ request' = [request EXCEPT ![t].stage = "submitted", ![t].id = lastId']
        /\ Wished(t, request[t].interval, request[t].clean)
     \/ /\ RowOf(t) # Null
        /\ Goto(t, "submitted")
        /\ Wished(t, request[t].interval, request[t].clean)
        /\ UNCHANGED table
     \/ /\ AddRow(t) \/ UNCHANGED table
        /\ request' = [request EXCEPT ![t].stage = "submitted", ![t].clean = FALSE]
        /\ Wished(t, Null, FALSE)
  /\ UNCHANGED <<required, remote, infoSize, loadRaced, infoRaced>>

\* Mutant of SetInterval: the UPDATE has no WHERE.
SetAllIntervals(t) ==
  table' = [u \in Urls |-> IF table[u] = Null THEN Null
                           ELSE [table[u] EXCEPT !.interval = request[t].interval]]

\* UPDATE ... WHERE catalog_url = ...
SetInterval(t) ==
  table' = [table EXCEPT ![request[t].url] =
              IF @ = Null THEN Null ELSE [@ EXCEPT !.interval = request[t].interval]]

\* updateConnection(), after submit(); an SQLException is logged.
UpdateConnection(t) ==
  /\ At(t, "update")
  /\ \/ /\ SetInterval(t)
        /\ Goto(t, "submitted")
        /\ Wished(t, request[t].interval, request[t].clean)
     \/ /\ SetInterval(t) \/ UNCHANGED table
        /\ request' = [request EXCEPT ![t].stage = "submitted", ![t].clean = FALSE]
        /\ Wished(t, Null, FALSE)
  /\ UNCHANGED <<required, remote, lastId, infoSize, loadRaced, infoRaced>>

-----------------------------------------------------------------------------
(* DisconnectFromCatalog *)

\* receiveRequest() of DisconnectFromCatalogListener begins with deleteConnection():
\* a client cannot tell an SQLException from a URL that has no connection.
Disconnect(t, u) ==
  /\ At(t, "idle")
  /\ \E failed \in BOOLEAN, deleted \in BOOLEAN :
       /\ deleted \/ failed
       /\ table' = IF deleted THEN [table EXCEPT ![u] = Null] ELSE table
       /\ wish' = [wish EXCEPT ![u] =
            IF failed \/ \E other \in Others(t) : request[other].stage \in Storing
                                                    /\ request[other].url = u
              THEN Unknown ELSE Null]
       /\ request' = [other \in Threads |->
            IF other = t
              THEN IF failed \/ table[u] = Null THEN Idle
                   ELSE [Idle EXCEPT !.stage = "status", !.id = table[u].id]
              ELSE [request[other] EXCEPT
                      !.clean = @ /\ ~(request[other].stage \in Storing /\ request[other].url = u)]]
  /\ UNCHANGED <<required, remote, lastId, infoSize, loadRaced, infoRaced>>

\* setStatus(): the UPDATE is for the identifier of the deleted row; an SQLException
\* is logged.
SetNewStatus(t) ==
  /\ At(t, "status")
  /\ \/ table' = [u \in Urls |-> IF table[u] # Null /\ table[u].id = request[t].id
                                   THEN [table[u] EXCEPT !.status = "disconnected"] ELSE table[u]]
     \/ UNCHANGED table
  /\ request' = [request EXCEPT ![t].stage = "test", ![t].id = Null]
  /\ UNCHANGED <<required, remote, lastId, infoSize, history>>

\* The test, remove() and add() of saveRuntimeInfo().
Listers(t) == {other \in Others(t) : request[other].stage \in Listing}

\* Mutant of TestSize: the list may be one longer.
TestGreater(t) ==
  /\ At(t, "test")
  /\ Goto(t, IF infoSize > MaxInfo THEN "remove" ELSE "add")
  /\ infoRaced' = (infoRaced \/ Listers(t) # {})
  /\ UNCHANGED <<required, remote, database, infoSize, loadRaced, wish>>

TestSize(t) ==
  /\ At(t, "test")
  /\ Goto(t, IF infoSize = MaxInfo THEN "remove" ELSE "add")
  /\ infoRaced' = (infoRaced \/ Listers(t) # {})
  /\ UNCHANGED <<required, remote, database, infoSize, loadRaced, wish>>

\* Nothing is left for the later of two threads if the list is that short.
RemoveInfo(t) ==
  /\ At(t, "remove")
  /\ \/ infoSize > 0 /\ infoSize' = infoSize - 1 /\ Goto(t, "add")
     \/ infoSize > 0 /\ Listers(t) # {} /\ UNCHANGED infoSize /\ Goto(t, "add")
     \/ infoSize = 0 /\ UNCHANGED infoSize /\ Reply(t)
  /\ UNCHANGED <<required, remote, database, history>>

\* Two unsynchronised add() may leave one entry, or one may throw.
AddInfo(t) ==
  /\ At(t, "add")
  /\ \/ infoSize' = infoSize + 1
     \/ Listers(t) # {} /\ UNCHANGED infoSize
  /\ Reply(t)
  /\ UNCHANGED <<required, remote, database, history>>

-----------------------------------------------------------------------------
\* The service stops at any point and starts again.
Restart ==
  /\ request' = [t \in Threads |-> Idle]
  /\ required' = {}
  /\ infoSize' = 0
  /\ loadRaced' = FALSE
  /\ infoRaced' = FALSE
  /\ UNCHANGED <<remote, database, wish>>

Check(t) ==
  \/ CheckCapabilities(t) \/ CheckForClassificationSchemes(t)
  \/ ComeToRequiredSlots(t) \/ LoadSlot(t) \/ CheckForSlots(t)
  \/ InsertSlots(t) \/ InsertDoc(t) \/ BreakOff(t) \/ Verdict(t)

\* A connection was submitted; the client is told that all went well.
Answer(t) ==
  /\ At(t, "submitted")
  /\ Reply(t)
  /\ UNCHANGED <<required, remote, database, infoSize, history>>

Store(t) == GetConnectionID(t) \/ InsertConnection(t) \/ UpdateConnection(t) \/ Answer(t)

Note(t) == SetNewStatus(t) \/ TestSize(t) \/ RemoveInfo(t) \/ AddInfo(t)

Next ==
  \/ \E t \in Threads :
       \/ \E ask \in Asks : Connect(t, ask[1], ask[2])
       \/ \E u \in Urls : Disconnect(t, u)
       \/ Check(t) \/ Store(t) \/ Note(t)
  \/ Restart

Spec == Init /\ [][Next]_vars

-----------------------------------------------------------------------------
(* Properties *)

\* A catalogue that passes the check has every needed slot and document, though the
\* check only counts slots and the catalogue need not insert what it was sent; as
\* long as the static map of needed slots was filled by one request alone, and the
\* catalogue's slot definition has no other slots that count for them.
AcceptedIsComplete ==
  \A t \in Threads :
    At(t, "lookup") /\ request[t].url \notin Trusted /\ ~loadRaced /\ Has(t) \intersect OldSlots = {}
      => Slots \union Docs \subseteq Has(t)

\* If the last request on a URL that reached the table had the URL for itself, the row
\* of the URL is what it asked for, whatever requests on other URLs, restarts and
\* failures there were.
ConnectionAsAsked ==
  \A u \in Urls : wish[u] # Unknown =>
    IF table[u] = Null THEN wish[u] = Null ELSE wish[u] = table[u].interval

\* A connection is submitted without an identifier only after a failed statement, or
\* when another request on its URL came between lookup and insertion.
NullIdOnlyAfterRace ==
  \A t \in Threads :
    At(t, "submitted") /\ request[t].clean
      => request[t].id # Null

\* However many events there are, the list of events keeps the last ones only, unless
\* two requests were at it at once.
InfoListBounded == infoRaced \/ infoSize <= MaxInfo

=============================================================================
