# A verification project for OpenSensorSearch

OpenSensorSearch is a catalogue of sensors. Clients and harvesters put sensor
descriptions into it, other clients search it. This directory holds TLA+
models of the parts of it whose correctness depends on the order in which
things happen, the TLC configurations that check them, and TLAPS proofs.
`PROJECT.json` lists the components, the runs, the mutants that each property
is tested with, the source lines of every definition, the hazards and the
findings. Paths below are relative to the repository; `sir/` stands for
`service/src/main/java/org/n52/sir/` and `oss/` for
`service/src/main/java/org/n52/oss/`.

To check: `tlc -config X.cfg M.tla` for every run of `PROJECT.json`, and
`tlapm M.tla` for the modules whose names end in `Proofs`.

## 1. The system

The web application is one servlet container with Jersey resources and Guice
injection. Each HTTP request is worked on by one servlet thread; there is no
lock and no transaction around a request. What outlives a request lives in

- PostgreSQL (`service/src/main/resources/db/datamodel_v3.sql`), reached
  through JDBC in autocommit mode, so that every statement is a transaction;
- the Solr index, shared by all requests: a commit publishes what any of them
  has added;
- objects that Guice binds once: listeners, harvesters, thread pools,
  connection pools, the catalogue status handler;
- the SOR's dictionary, in memory, and a file it is saved to;
- the Quartz scheduler, in memory.

| component | state | operations | what is hard | what makes it correct |
|---|---|---|---|---|
| Sensor registry: InsertSensorInfo, DeleteSensorInfo, UpdateSensorDescription (`sir/SIR.java`, `sir/listener/*SensorInfoListener.java`, `sir/ds/pgsql/PGSQLInsertSensorInfoDAO.java`, `sir/ds/solr`) | tables sensor, service, sensor_service; Solr index | insert a sensor, add references, delete a sensor, delete references, update | many statements per request, each committed alone; two stores; crashes between them; races behind NOT EXISTS | what is reported is true of the tables; no dangling link; every request ends |
| Connection pools (`sir/ds/AbstractConnectionPool.java`, `sir/ds/pgsql/PGConnectionPool.java`) | free and active connections | take, give up after `maxWait`, give back | calls that hold one connection and want another; calls that close none | one user per connection; none lost; nobody waits for ever |
| HarvestService (`sir/listener/HarvestServiceListener.java`, `sir/listener/harvest`, `sir/ds/pgsql/PGSQLHarvestServiceDAO.java`) | one harvester object per service type, a fixed thread pool, tables service and sensor | harvest a SOS, an SPS, an IOOS catalogue | the request and the result collections are fields of the shared harvester; one bad platform; silent servers | a harvest reports and stores its own sensors, once; every request is answered |
| Decoding of a harvested sensor (`sir/sml/SensorMLDecoder.java`, `sir-common/.../SirBoundingBox.java`, `TimePeriod.java`) | a date format shared by all threads | extent and period of a document, into the table and into search results | extremal values as initial values; an unsynchronised `SimpleDateFormat` | a sensor is found where and when its document says |
| SOR dictionary (`sor-common/.../PhenomenonManager.java`, `sor/.../listener`) | list and XML document, file, backups | insert, delete, read definitions, load, save | readers without lock; a file that is emptied and filled; two places for one path | identifiers unique; last version survives; nobody keeps the monitor |
| Catalogue connections (`sir/listener/*CatalogListener.java`, `sir/catalogconnection`, `sir/catalog`) | table catalog, list of events, static map of slots; the remote catalogue | connect (check, fill and check the catalogue), disconnect | check and insert; swallowed errors; counting instead of comparing; unsynchronised statics | what is accepted is complete; the table holds what was asked last; the list is bounded |
| Remote harvest (`sir/script/HarvestResource.java`, `sir/scheduler/RemoteHarvestJob.java`) | table of servers, Quartz triggers | register, schedule, execute every ten seconds | executions that overlap, fail or hang | a scheduled harvest begins; one that ends is not run again |
| Website: the search field (`website/.../angucomplete-alt.js`, `controllers.js`) | the directive's scope, timers, requests, the rendered page | type, choose, leave, answer, submit | timers against keys, late and lost answers, changes outside a digest | one timer; the page shows the last search and what the scope holds |
| User accounts, sensor status, scripts | tables | - | unreachable, see section 6 | - |
| Search, DescribeSensor, GetCapabilities, statistics, autocomplete, badges, AR, validation and transformation of documents | none of their own | reads and conversions | combining two engines | - |

Interactions: SIR operations, harvesters and jobs write the same tables
through DAOs of their own; the REST resources take user tokens and scripts
through the one DAO factory and so share a connection pool; search reads the
tables and the index; the suggest resource that the search field asks reads
the index. Harvests of all kinds share one thread pool, one DAO and one date
format.

## 2. The modules

| module | models | composed with |
|---|---|---|
| `SensorRegistry` | the three transactional listeners, both stores, rows that harvests bring | implements `SensorCatalogue` |
| `SensorCatalogue` | abstract: sensors register once, are linked while registered, retire with their links | - |
| `ConnectionPool` | the BasicDataSource and the shapes of DAO calls | - |
| `HarvestService` | listener, SOS and SPS harvesters, thread pool, rows | - |
| `CatalogHarvest` | the IOOS harvester on the same listener and pool | - |
| `SensorExtent` | extent and period of harvested sensors, from document to search result; its names are such that a module can extend it and `HarvestService` | - |
| `PhenomenonDictionary` | manager, listeners, file and backups | - |
| `CatalogConnections` | connect, check, disconnect, list of events | - |
| `RemoteHarvest` | registration, Quartz triggers and their executions | - |
| `SuggestBox` | the search field, the parts of AngularJS it runs on, the form | - |
| `...Proofs` | theorems about the module they are named after | extend it; `HarvestServiceProofs` extends `SensorExtent` too and ends with the theorems about it |
| `MC...` | the constants of the small instances | extend the module they name |

The remaining parts meet in the database only, and a module takes what others
do there as actions of its environment (the harvests of `SensorRegistry`) or
as a statement that may fail (the connection pool).

### SensorRegistry

A request is a listener call. `pc[r]` is its place in the code, `todo[r]` the
rest of the `for` loop of `receiveRequest()`, `cur`, `refs`, `found` and
`absent` its local variables, `reply[r]` the response object. `TakeInfo` is
the dispatch on the kind of the next info; then there is an action per
statement: `SolrAdd`, `SolrCommit`, `InsertSensor`, `LookupSensor`,
`DeleteSensor`, and two actions each (`Begin...`, `End...`) for the two
`INSERT ... WHERE NOT EXISTS`, because under READ COMMITTED the subquery reads
a snapshot and the constraints are checked when the row goes in. `uc_service`
refuses the second of two equal services; `sensor_service` has foreign keys
and no unique constraint, so that a link may be stored twice (the model counts
its rows) and a link to a sensor that is gone is refused. `StatementFails` is
a refused statement or an exhausted pool, `Breaks` a connection that breaks
after the statement committed, `Crash` the end of the container.
`HarvestService(s)` and `HarvestSensor(id)` are rows that a harvest commits at
any moment. `issued`, `removed` and `unindexed` are history.

What the code does and one would not expect is modelled as it is:

- `insertSensorCommand()` appends an `IndeterminateTime` to the statement, and
  its `toString()` is no time literal (`PGSQLInsertSensorInfoDAO.java:496`):
  PostgreSQL refuses every new sensor, after Solr has it (`InsertSensor`; run
  `insert_sensor`). All rows of the table come from harvests.
- `deleteReference()` compares the integer column `sensor_id_sir` with the
  textual identifier and returns a column that is not there
  (`PGSQLInsertSensorInfoDAO.java:606`): it always raises (`DeleteReferences`).
- `updateSensor()` writes the same `IndeterminateTime` (lines 711 and 716) and
  does not quote the identifier (line 738): it always raises (`UpdateSensor`).
- a sensor named by a service reference is resolved with a query on a missing
  column: it always raises (`StartDelete`).
- serialising a response asks `SirConfigurator.getInstance()`, whose field
  nothing sets (`SirConfigurator.java:78`); the exception is logged and the
  client reads status 200 with an empty body (`WriteAnswer`). "Answered" in
  the model therefore means that the request is over; what the response would
  have said is in `reply`.

`IndexedBeforeOffered` says that what is offered to the database is in the
Solr index unless Solr failed; the converse is not true, see section 5.

Assumptions: generated identifiers are fresh (ten random alphanumerics);
`sensor_id_sir`, a SERIAL, is not told apart from the textual identifier, as
one is written for the other once; Solr and PostgreSQL keep what they
acknowledged. Abstracted: documents, deferred foreign keys (in autocommit mode
they are checked at the end of the statement, as immediate ones are).

### ConnectionPool

`free` are idle connections or those not opened yet, `lost` those lent and
never closed. A call is `single`, `nested` (`addNewReference()` holds a
connection while `getDatabaseSensorId()` takes another) or `unclosed` (every
method of `PGSQLUserAccountDAO`; `removeAbandoned` is not set). `GiveUp` and
`GiveUpInner` are the exception after `maxWait` (5 s) or a refused
connection. Statements are left out: failed or not, the call closes the same
connections.

### HarvestService

Servlet thread and pool task of a request follow one another, so one `pc`
serves both. `request[h]` is the field of the shared harvester, `current` the
number of the three collections it holds (`reset()` replaces them together;
the model treats them as one object), `collected` the contents of all
collections that ever were. A task reads the field `request` at four places
(`NameService`, `ResolveUri`, `AddService`, and the collections in
`TakeProcedure` and `FillResponse`), and whatever was put there meanwhile is
what it gets. A race on the HashMap or ArrayList may lose an addition or
break an iteration. A row of table sensor is followed by statements that
always raise (the phenomenon, or the link whose subquery names a missing
column), so a newly stored sensor is counted as failed, and one that was
there is counted as inserted under an identifier that no row has. A sensor document is known by service and procedure;
bounding box, time and text stand for it in the code's comparison. The SPS
harvester has no client and fails at once. `overlapped` is history: the
requests that did not have their harvester to themselves.

The thread pool is also that of the IOOS catalogues, which are read from their
server without a timeout. `occupied` counts the pool threads that such
harvests hold for good, and `CatalogFallsSilent` takes one more whenever a
thread is free; the catalogue harvests that end are left out, since they only
delay what waits behind them (`CatalogHarvest` has them).

### CatalogHarvest

The same listener and pool with the third harvester, in a module of its own
because nearly everything between `setRequest()` and `reset()` differs. The
catalogue is parsed as it streams in; `EndPlatform`, `AddService`,
`BeginInsertSensor` and `EndInsertSensor` are the parts of `endElement()`. A
failure is put into whichever map the harvester holds at that moment
(`Fail`), an inserted sensor into the list it held when processing began
(`into`). An exception nobody expected in one platform ends the parse
(`Throw`), with the rows stored before it in place. `fileURL.openStream()` and
the fetching of descriptions have no timeout, hence the state `silent`, in
which a task keeps its pool thread for ever. `NextDay` lets the last
observation of live platforms advance: `buildValidTime()` closes the period of
a platform without an end with it, and the comparison with the rows includes
the period, so that each day's harvest stores a live platform once more.
`numberOfFoundSensors` is never set and stays 0. Abstracted: the 400 lines
that build a platform's document, which conforms to the profile and is known
by platform and period.

### SensorExtent

Each thread is a pool thread with one document. `DecodeBox` unites the box of
the document with `EmptyBox`, whose upper corner is `Double.MIN_VALUE`, the
least positive double; coordinates are counted in half units so that it has a
place. `EnterParse` and `LeaveParse` bracket `sdf.parse()` on the one static
`SimpleDateFormat`; a thread that was not alone in it gets any date or an
exception (`disturbed`). `Insert` writes `-infinity` or `infinity` for
"unknown" and the text `null` for "now", which is no timestamp. `Search` makes
a box of the polygon's corners, again from `MIN_VALUE`. Documents were
validated, so they have one member (`SensorML_Profile_for_Discovery.sch:75`)
and the unions over several members are left out. Their valid time is a period
whose begin and end are dates or indeterminate: a `TimeInstant` ends the
decoding in a NullPointerException (`SensorMLDecoder.java:561`), and positions
"before" and "after" a date are left out. Dates are at the grain of
`yyyy-MM-dd`, the pattern of `TimePeriod.java:42`, which drops the time of
day. That the driver hands out `PGgeometry` objects is assumed.

### PhenomenonDictionary

`monitor` is the lock of the singleton, `list` and `dictionary` its two
copies, `file` and `backups` the file system, `packaged` the class path.
`OpenFile` empties the file and `WriteFile` fills it, with restarts and disk
errors between. The iterator of a reader keeps its position (`next`) and the
modification count of its start (`seen`); as nothing synchronises it, it may
notice a modification and raise, or miss it. Found on the way and modelled:
the oldest backup is deleted by its bare name, that is, in the working
directory, so backups pile up; the class comment says a backup is made "after
every insert or delete", the code makes it before, and `LatestVersionOnDisk`
shows why that is the right order.

### CatalogConnections

`request[t]` is what a servlet thread is at, with the local variables of the
listener and of `CswCatalogChecker`. The check asks for the capabilities, for
each classification document and for the slots, inserts what is missing and
asks again (`CheckCapabilities` to `Verdict`); an exchange may fail before or
after it took effect. Slots are only counted, so that `OldSlots`
pass for needed ones; whether a slot of the right name has the right type
(`CswCatalogChecker.java:601`) is left out, so that the model lets more
catalogues pass. The static map of needed slots is filled on first use
without synchronisation (`loadRaced`). `PGSQLConnectToCatalogDAO` logs
an SQLException and goes on as if nothing had been found or written. The list
of events is trimmed by an equality test (`infoRaced`). The scheduler's
`submit()` and `cancel()` only log; so the pushing task, the update of its
status and the start-up thread are not part of any behaviour. `wish` is
history: what the table should hold for a URL.

### RemoteHarvest

`rows` is the table of servers, `scheduled` the triggers in the memory of
Quartz, `execution` what each of its threads does. `GetList` asks for the
sensors, `GetSensor` for one of them; as `HarvestResource` never assigns the
DAO it hands to the job, the first sensor that is described ends the execution
in a NullPointerException, and the trigger stays. The HTTP client has no
timeout (`hung`). A token is looked up with `LIKE`
(`PGSQLInsertRemoteHarvestServer.java:126`); clients are taken to send tokens
without wildcards, so that a trigger's token is in a row. Scripts, the other half of `HarvestResource`, are
unreachable (section 5).

### SuggestBox

`scope` is the isolate scope of the directive, `timers`, `requests` and
`hiding` what the browser holds for it, `screen` what is rendered. Each event
is an action: the change of the text and the release of the key that made it,
which runs outside a digest; focus, blur, arrow keys, Enter, Escape, mouse;
the two timers; answers and errors in any order. A digest brings the scope to
the screen in the actions that run one (`Rendered`). The parts of AngularJS
are external and modelled by what they do. `fate` and `shown` are history:
what became of the last search and where the listed results come from. The
service answers with an array of suggestions: a body that is no such thing
would raise in `processResults()` after "Searching..." is gone, and leave the
old list.

## 3. The runs

| run | instance | states | what it shows |
|---|---|---|---|
| `registry` | 2 requests, 4 identifiers of which 2 are harvested, 1 service with 2 references, 7 bodies, faults and crash | 249 606 | safety, `Inductive`, the refinement, and that every request ends |
| `insert_sensor` | 1 request, no faults | violation | a conforming sensor cannot be inserted |
| `pool` | 3 threads, 2 connections, all kinds of calls | 3 348 | safety, no waiting for ever, recovery |
| `harvest` | 2 requests, 2 services with 2 and 1 sensors, 2 pool threads of which silent servers may take 1 or 2 | 766 567 | harvests report and store their own; each is answered while a thread is left |
| `catalog_harvest` | 2 requests, 2 catalogues with 2 and 1 platforms, 2 pool threads, 2 days | 4 437 072 | each platform is accounted for, and stored once a day |
| `catalog_harvest_queue` | 2 requests, 1 pool thread | 126 194 | the queue; only silent servers keep harvests from ending |
| `extent` | 2 threads, 3 coordinates, 2 dates, every envelope, every period | 962 198 | sensors are found where and when they are described |
| `dictionary` | 3 requests, 2 identifiers, 1 restart, disk errors, document and directory present or not | 694 523 | unique identifiers, survival of the last version, progress |
| `saved_document` | 1 request, 1 restart | violation | what is saved is not what is loaded |
| `catalog` | 2 threads, 2 catalogues of which one is checked, 1 document, 2 slots, 1 other slot, a list of 1 event | 5.2 million | completeness, the table, the list |
| `remote_harvest` | 2 servers, 2 Quartz threads, 2 registrations each, 1 restart | 72 300 | harvests begin, end, and are not unscheduled early |
| `suggest_box` | 2 long texts, 1 short one, 3 searches | 194 995 | timers, honest "Searching...", screen and results |

Why these bounds. The hazards of the registry are between two requests: one
that adds and one that deletes, two that add the same link or service, one
that leaves a document uncommitted and one that commits it, and each of them
with a harvest. Two requests of up to three infos, two identifiers for them
and two for harvests, and two references make each of them happen. Three
threads on two connections make nested calls wait for each other while a third
takes or loses a connection. Two harvests make every overlap of two; a third
adds no new pair, and `AloneStoresOnce` and `OneRowADay` compare rows of two
harvests. Two pool threads let two harvests run side by side; when a silent
server holds one of them, the second waits in the queue behind the first, and
when both are held nobody gets a turn, which `EveryHarvestAnswered` names as
its only exception. A catalogue of two platforms is the least in which a harvest breaks
off after something was stored. Around the origin every sign of a coordinate
has consequences of its own, which is what three coordinates give. For the
dictionary a writer, a second writer and a reader, or three writers with a
restart between, which is what it takes to overwrite a version, tear the file
and back up the torn one. `BackupCount` is 1 there, the least that matters,
as is `MaxInfo` in `catalog`: the equality test is passed by two requests at
once whatever the number. Two slots and another one are needed for a count to
be right and a catalogue incomplete. In the search field a third search
overtakes a second whose answer is late while the first was lost. Counters
that need a bound are `MaxId`, `MaxTime`, `MaxDay`, `MaxSearches` and
`MaxRestarts`; requests of the other modules are finite and each is made once.
Deadlock is checked in all runs; `Terminated` (`AllDecoded` in
`SensorExtent`) stutters when everything is over.

Type invariants are proved (`TypeCorrect`, section 4); TLC checks those of
`SensorRegistry`, `ConnectionPool`, `HarvestService`, `CatalogHarvest` and
`SensorExtent` too, as a conjunct of the inductive invariants (`Inductive`,
`PoolInductive`, `ExtentInductive`).

Fairness. `FairSpec` assumes weak fairness of a request's next step: a thread
that can go on does. The code justifies it, as each wait ends by itself: a
connection comes or `maxWait` ends the wait, the HTTP client of the
harvesters gives up on a socket that is silent for 30 s, a pool thread is free
when its task ends, and a fixed pool replaces threads that die. Where no
timeout is set, the wait is a state without a step (`silent`, `hung`,
`occupied`) and the property says so: `CatalogFallsSilent` is not fair, but
may take every thread there is. The monitor of `PhenomenonManager` promises nothing to a
waiting thread; finitely many requests compete for it. In `RemoteHarvest`
`Fire` is strongly fair: Quartz gives a free thread to the trigger that is
overdue longest. In `SuggestBox` the browser's timers and requests are weakly
fair and the user is free to do nothing. Nothing is assumed about clients,
faults, crashes or days: a fault is never forced, nor forbidden. One thing is
assumed of the stores and not of the code: a statement of PostgreSQL or an
exchange with Solr, for which no time limit is set, ends or fails.
`CatalogConnections` and `SensorExtent` state safety only: their requests
are loops of exchanges each of which may hang without limit, or straight lines.

## 4. What is proved

Every safety property that a run checks, the invariants and the action
properties, and the refinement. For any sets of requests, identifiers,
services, threads and connections, and any inputs, from the named assumptions
on the constants only:

- `SensorRegistryProofs`: `Inductive` is an invariant, and with it `TypeOK`,
  `LinksPointToSensors`, `ReportedDeletionsLast`, `ReportedReferencesStored`
  and `IndexedBeforeOffered`; `RegistryImplementsCatalogue` is
  `Spec => RefinesCatalogue`.
- `ConnectionPoolProofs`: `PoolInductive`, `OneUser`, `AllReturned`.
- `HarvestServiceProofs`: `Inductive` and with it `TypeOK`,
  `AloneReportsOwnHarvest`, `AloneStoresOnce`. Its last part is about
  `SensorExtent`: `ExtentInductive` and with it its types,
  `FoundWhereDescribed`, `StoredWhenDescribed`.
- `CatalogHarvestProofs`: `Inductive` and with it `TypeOK`,
  `AloneAccountsForAll`, `OneRowADay`.
- `PhenomenonDictionaryProofs`: `TypeOK`, `DefinedOnce`, `LatestVersionOnDisk`.
- `CatalogConnectionsProofs`: `TypeOK` and all four safety properties.
- `RemoteHarvestProofs`: `TypeOK`, `UnfiredOnlyByOverlap`.
- `SuggestBoxProofs`: `TypeOK` and all six safety properties.

Why the invariants must be strengthened.

- Registry. `LinksPointToSensors` needs no help from memory, as the foreign
  key is checked with the insertion. But that a reported deletion is final,
  and that no identifier comes back after it was retired (which the refinement
  forbids too), needs `GeneratedOnce`: an identifier is on its way into the
  stores in one request only, in no store before, and never a harvested one.
  That a counted reference is linked, although the row may be another
  request's, needs `RemembersWell`: what a request found by a query is still
  so or the sensor was deleted since. The refinement maps `HarvestSensor` to
  `Register`, `EndInsertLink` to `LinkTo`, `DeleteSensor` to `Retire` and all
  else to stuttering.
- Pool. `Partition` ties the place of a call in its method to the connections
  it holds.
- Harvests, both kinds. A request that is alone with the harvester must find it
  as if it had been made for it, although harvests before it left early, broke
  off, or exchanged the collections. `QueueOfWaiting` and `Placed` say who is
  where, and that a request at work alone is the one the harvester holds.
  `CollectionsNumbered` counts the collections by the harvests that are over,
  so that the ones at hand were given to no earlier harvest's report;
  `OverlapsKnown` says that the harvester is shared only by requests that the
  history knows, and `CollectionsClean` that the collections at hand are empty
  before such a harvest fills them. `OwnHarvest` carries it through the loop:
  what it has processed and what is left are together what the service offers
  (`Accounts`), and the count of found ones keeps step. `OwnReport` says the
  same of the collections once the report has been taken from them, which no
  one fills any more. For the single rows, `AbsentUnlessOverlapped`: between the
  subquery and the row of an INSERT another row for the document can only come
  from a request that overlaps. In the catalogue a platform is its own document,
  and `StillInserting` names the requests that are yet to add to collections
  which a report refers to.
- Extent. `Decoded` and `Stored` follow the numbers from the document to the
  result; `OwnPeriod` says of an undisturbed thread, at each place, which of its
  two dates it has. The lemma `BoxFound` says what the two extremal searches and
  the polygon make of any envelope; its minima and maxima are those of two and
  of three numbers (`LeastAndGreatestOfTwo`, `GreatestOfThree`).
- Dictionary. `MonitorHeld` (one request is between taking and leaving the
  monitor) makes what was looked up before the backup still unknown when the
  entry goes in (`StillUnknown`); list and document are `Twins` except within
  the insertion; `SafeToWrite` says that whoever empties the file has made a
  backup of the last version.
- Catalogue connections. `StoreKept` carries the lookup of an undisturbed
  request to its insertion, with `RivalsDisturbed` for the others; `Sound`
  says what a passed step of the check proves of the catalogue, and the lemma
  `CountingSuffices` that a set of needed slots of the right size is all of
  them.
- Remote harvest. `AloneUntilFired`: no execution of a token is under way while
  a trigger of it, set in peace, has not fired.
- Search field. `Kept` ties timers, requests, `searching` and the screen.

The proofs have one step per action and under it one per conjunct the action
can disturb.

Only model-checked: all liveness (`EveryRequestAnswered`, `EveryCallEnds`,
`BusyPoolRecovers`, `EveryHarvestAnswered`, `EndsUnlessSilent`,
`HarvestBegins`, `FruitlessHarvestEnds`, `SearchingEnds`), which is beyond the
prover: it rests on fairness, and fairness on ENABLED.

## 5. Disagreements between the code and what it says of itself

Two have violation runs: `insert_sensor` and `saved_document`. Seen while
modelling, without a run:

- Registry: deleting references and updating descriptions always fail and
  response bodies are empty (section 2); a sensor the database refused or
  deleted stays in Solr, and a harvested one never gets there.
- Harvests: the ResultSet of the observed properties is closed by the next
  statement, so a stored sensor is reported as failed, and as inserted, under
  an identifier without a row, by the next harvest; overlapping harvests are
  answered about each other's service, take away each other's collections and
  store sensors twice, as no constraint stands behind the NOT EXISTS;
  `SOSServiceHarvester` returns early without the `reset()` that
  `Harvester.java:63` calls important; a sensor valid until "now" is never
  stored; a live IOOS platform is stored anew every day; silent catalogues
  take threads of the common pool for good, and once they have all ten no
  harvest of any kind is answered any more.
- Pools: no method of `PGSQLUserAccountDAO` closes its connection (line 358 for
  one), so that uploads and schedules of scripts use up the pool that they
  share with remote servers; "Please try again later!"
  (`PGConnectionPool.java:79`) does not help. `AllReturned` and
  `BusyPoolRecovers` name the exception (`lost`).
- Extent: the upper corner of a box is sought from `Double.MIN_VALUE`, which is
  positive (`SensorMLDecoder.java:204`, `SirBoundingBox.java:55`), so a sensor
  south or west of the origin is stored with a box that reaches to the equator
  or the meridian; `SensorML_Profile_for_Discovery.sch:97` says that the box of
  an in-situ sensor "only contains the position". `FoundWhereDescribed` says
  how far this goes.
- Search field: `ossSearch()` (`controllers.js:45`) looks at `$scope.q`, to
  which no input is bound (the only one is commented out,
  `partials/search.html:33`): "Empty query string." is what every submitted
  text gets (`Submit` of `SuggestBox`).
- The default end of `TimePeriod.java:108`, 2099-12-31, is in January 2100, as
  months count from 0.
- Dictionary: a reader that iterates the live list may miss a definition that
  is listed; the oldest backup is deleted by its bare name
  (`PhenomenonManager.java:117`), so none ever is; the total of
  GetDefinitionURIs is the length of the page.
- Catalogues: a refused SQL statement is logged and the client told that all
  went well; every classification document is inserted again when one is
  missing; `setDoNotCheck` is called on a client that is then discarded;
  nothing is ever pushed (`CatalogConnectionSchedulerImpl.java:101`), and the
  interval would overflow an int of milliseconds (line 90); the update of a
  status hits no row.
- Remote harvest: no sensor is ever stored, jobs that fail fire for ever; the
  token is read back by URL (`PGSQLInsertRemoteHarvestServer.java:56`), which
  several rows may have; a failed registration is answered with the token
  "null" and status 200.
- Scripts: `HarvestResource.java:161` empties the file, then every upload ends
  in a NullPointerException before its row is inserted.
- `SearchSensorListener.java:74-76` binds both of its switches to
  `oss.search.useAutocompleteEngine`.

## 6. What is not modelled, and the plan

Not modelled, and why:

- User accounts and sensor status: each of their operations asks
  `SirConfigurator.getInstance()`, which is null, before it reaches a
  statement (what the account DAO does to the pool is in `ConnectionPool`).
- Scripts and `HarvestJob`: no upload succeeds, so there is nothing to
  schedule. CSW transactions of a push: nothing runs the task.
- Components that only read or convert: search, DescribeSensor,
  GetCapabilities, statistics, autocomplete, badges, AR proxies, the Jena
  reasoner, validation and transformation. Status subscriptions are stubs, and
  `updateInPhenomenonList` has no caller.
- The rest of the website: the result list and the feedback form cannot be
  reached while no query is sent; `oss.js:141` binds its handlers before the
  partial it means exists. The bulk of the repository's JavaScript is vendored
  (AngularJS, jQuery, CodeMirror, UI Bootstrap, env.rhino): libraries of
  others, used and not maintained here. What the search field needs of them
  is modelled as external; the rest would be a model of another program, and
  this is why the map covers little of the JavaScript and most of the Java
  that keeps state.

Left to prove: lemmas towards the liveness properties that are safety in
themselves, such as that a harvest that is alone has fewer procedures left after
each pass of its loop, and that a request that waits for a connection is among
those the pool will serve.
