# A formal model of syrius-orbit-daemon

The daemon stands between a local and a cloud MQTT broker of a fleet of VDA5050
robots. It forwards the messages of each side to the other, appends every one to
an event log in SQLite, and a thread of its own copies the latest message of every
item into read tables (CQRS). This directory holds TLA+ modules of the program,
TLC configurations that check them on small instances, and theorems
about them that TLAPS checks for every value of the constants.

    tlc -config ProjectionUplink.cfg MCEventProjection.tla     # one run
    tlapm EventProjection_proofs.tla                           # one proof module

## The system

| component | source | state | operations | talks to |
|---|---|---|---|---|
| Event recorder | `Vda5050EventRecorder`, `Vda5050EventsRepository::insert` | table `vda5050_events`; `cloud_ep_`, `attached_cloud_` | one INSERT for a state, visualization, connection, factsheet, order, zone set; one INSERT **per entity** for instant actions and responses; `attach`, `attachCloud` | called on both MQTT threads; writes what the projection reads, without the database mutex |
| Projection engine, projectors | `projection/*` | `running_`, the place in the cycle, tables `robots`, `orders`, `instant_actions` | `start`, `stop`, the cycle: for each of six topics the latest row of each item, one upsert per entity | reads the log, writes the read tables, takes the mutex for a cycle |
| Repositories | `db/*Repository` | the tables, `maps` too | upserts of some columns by the projectors; `upsert`, `findById`, `listAll` of whole rows, which nobody calls yet | called by the projectors |
| VDA5050 proxy | `VDA5050Proxy` | two endpoints, `running_`, `on_cloud_connected_` | `start`, connect callback of the cloud client, bridging, `stop` | started by the gateway, two MQTT loop threads, the recorder |
| Endpoint, subscriber | `VDA5050EndPoint`, `VDA5050Subscriber`, `MqttSubscriber` | handler lists, `stopped_`, the client's subscriptions | `Subscribe*`, `On*`, `handle*` and dispatch, `Stop` | the MQTT library, proxy, recorder |
| Publishers | `VDA5050Publisher`, `TypedPublisher`, `MqttPublisher` | none | build a topic, prune a payload, publish | the MQTT library |
| Message schemas | `vda5050_schemas/*`, the macros of `nlohmann/json.hpp` | none | `from_json`, `to_json` of 64 structs and 24 enums | subscriber, recorder, projectors, publisher |
| Schema migrator | `SchemaMigrator` | table `schema_migrations`, the schema | `migrate()`: read what is applied, one transaction per migration | first thing of `Daemon::run`; possibly another process on the same file |
| Daemon | `Daemon`, `main.cpp` | `stop_requested_`, `stop_http_server_fn_`, `daemon_finished`, the threads | `run`, `stop`, the signal | everything |
| Fleet gateway, spatial service | `FleetGateway`, `SpatialService` | a flag each | `init`, `start`, `stop`, `GET /health` | the proxy, the HTTP server |
| Configuration | `RuntimeConfig`, `main.cpp` | the values | parse, convert, load, `Override` | the constructor of the daemon |
| Logging, web console | | none of the daemon's | | |

Hard here, and listed line by line under `hazards` in `PROJECT.json`:

- four threads share pointers and `std::function`s of which few are locked: the
  cloud endpoint is created inside a callback of the MQTT library while
  `Daemon::run` attaches the recorder to it, and stops it;
- rows are recorded between the SELECT of a projection and its upserts, no
  transaction spans a message or a cycle, and the process may die at any statement;
- three topics write one row of `robots`, and so does management;
- connections are lost and restored, the session being clean;
- a message is read into a struct and written again, twice: null, a missing field, an
  empty list and a number of another kind must survive both;
- `loop_stop(true)` cancels threads wherever they are;
- two daemons may be started on one database file;
- a signal may come at every moment of the start, and a start may fail before there
  is a daemon.

## The modules

| module | models | extends | abstract specification | proofs |
|---|---|---|---|---|
| `EventProjection` | recorder, event log, projection, upserts, crash and restart | | `LatestView` | `EventProjection_proofs`, `EventProjection_refinement` |
| `Proxy` | proxy, endpoints, subscribers, attachment of the recorder, MQTT sessions | | | `Proxy_proofs` |
| `Schemas` | every struct and enum of the messages | | | `Conversion_proofs` |
| `Conversion` | what `from_json` and `to_json` make of a value | `Schemas` | | `Conversion_proofs` |
| `Routing` | the way of a message: filter, payload, topic, recorder, publisher | `Conversion` | | `Routing_proofs` |
| `Migrator` | `SchemaMigrator::migrate` by any number of processes | | `SchemaUpgrade` | `Migrator_proofs` |
| `ReadModel` | the tables, their columns, the statements of the repositories | | | |
| `Storage` | the database file: tables first, then rows | `Migrator`, `ReadModel` | | `Storage_proofs` |
| `Daemon` | start, wait, stop, the signal; the threads of HTTP and projection | | | `Process_proofs` |
| `Config` | which value a configuration key gets | | | `Process_proofs` |
| `Process` | the whole of `main()` | `Config`, `Daemon` | | `Process_proofs` |

`MCEventProjection`, `MCRouting`, `MCMigrator` (of `Storage`) and `MCProcess` give the
constants small values. Operators
marked "Mutant" in the modules are not part of a specification: each is a
plausible bug of the definition below it, and a property of a run fails when it
takes that definition's place (`mutants` in `PROJECT.json`).

### EventProjection

A message is the id of the first row recorded for it (its *version*); a cell of a
read table is the version it was last written from, 0 for the column's default.
That is all its properties tell apart, and it keeps payloads out of the model. A
step is one SQL statement: the recorder's INSERT takes no lock, SQLite commits each
statement by itself, and the subquery of `findLatestByTopic` is complete after the
first `sqlite3_step`, so that the batch is one atomic read.

| code | module |
|---|---|
| rows of `vda5050_events` | `events` |
| the loop of `attachCloud`'s handlers over the entities | `RecordFirstRow`, `RecordNextRow`, `RecordRowFails`; `message`, `unrecorded` |
| the other handlers | `RecordUplink`, `RecordDownlink` |
| `ProjectionEngine::run` | `WakeUp`, `FindLatest`, `TakeEvent`, `ProjectEntity`, `NextTopic`, `LeaveLoop`; `QueryFails` and `ProjectFails` for its two `catch` blocks |
| the upserts | `Upsert` |
| `start`, `stop`, exit, kill | `Start`, `Stop`, `Exit`, `Crash` |

The zone set and the visualization are recorded and no projector asks for them.
The recorder's `instantActions` and the projector's `instant_actions` are different
names here because they are in the code.

### Proxy

The thread in `Daemon::run` and the loop threads of the two MQTT clients have a place
each (`pc`, `at`). An endpoint is a number, 0 for a null pointer: a use of a freed or
null one, a call of a `std::function` half assigned, and a cancelled thread that
unwinds through a `catch (...)` are undefined behaviour or abort, and end the
behaviour with the reason in `fate`. A message is the list of handlers copied for it. The
four `On*` of one side are registered and cleared together and are one handler
here. An `On*` tests `stopped_` and then takes the lock, and a `Stop()` may come
between: the test and the registration are two steps (`bridging` and `addingBridge`,
`bridgingBack` and `addingBack`), and where a `Stop()` falls among the four (`AddTested`)
decides whether a handler is left at the stopped endpoint and whether the setup goes on.
`attachCloud()` sets its flag first and registers then (`recordingCloud` on the daemon
thread, `addingRecord` on the cloud thread), so that the two may differ inside
the call and only there. The local client is subscribed once in `start()`, the cloud client in its
connect callback, four `subscribe` calls that may each fail; what the broker
remembers (`session`) is lost with the connection, as the clients ask for a clean
session, and an entry in the client's table (`entries`) outlives its endpoint.

### Schemas, Conversion and Routing

`Schemas` declares each struct as a function from fields to kinds (type, list or not,
optional or not) and each enum as the sequence of its names. `Conversion` is
what nlohmann's macros make of one field: a message is the *one field of
interest* and the class of JSON value in it (`integer`, `huge`, `float`, `text`, a name of an
enum, `object`, ...), all other fields having values of their types. That is sound because
a struct is converted field by field and fails if one field fails. `Parsed` is the
member as JSON would show it, `Pruned` is what `TypedPublisher` leaves out.

`Proxy` has the threads and no contents, `Routing` the contents and no threads: both
endpoints are set up, both handlers registered. A topic is a sequence of levels and a level
a sequence of characters, so that filters, parsing, building and the joined
`robot_id` are what they are in the code. `Start`
accepts or refuses a prefix (also one with a wildcard, which passes
`parse_topic_prefix` and the library, and then matches no topic in `parseTopicContext`). `Handle` is a
message from the client's thread to the recorder and to the other broker, `HandleFails`
the same when the INSERT throws (a second process holds the write lock) or the publish
fails; the row stands for the
one or more rows of the message, which share their context (`EventProjection` has them one by
one). A message whose list of actions or responses is empty, or missing, has no entity and gets no row, and
is forwarded all the same (`HasEntities`). `published` remembers where a copy came from, which the code does not.

### Migrator, ReadModel and Storage

Each process opens the file, makes `schema_migrations` if it is not there
(`LookForTable`, `CreateTable`, `CommitTable`), reads it, and runs each migration it
did not find in a transaction (`Execute`, `Insert`, `Commit`). SQLite is modelled
from how the code uses it, with the locks it takes on a file with a rollback journal:

| SQLite | module |
|---|---|
| SHARED, taken by the first read of a statement, also of the script of a migration and of `CREATE TABLE` | `Share` |
| RESERVED, taken by the first write; one process has it, and others read | `MayReserve` |
| PENDING, taken by a COMMIT, also the implicit one of `CREATE TABLE`; no new readers | `Pend` |
| EXCLUSIVE, when no reader is left: what was written is in the file | the guard of `Commit`, `CommitTable` |
| `SQLITE_BUSY`, at once, as no busy timeout is set | `Refused` |

A refused statement throws (`Refuse`) and the start is *unwinding*: a transaction keeps
its lock until `~Transaction` has rolled it back (`Unwind`), and until then another
start can be refused for it. Two starts at once may therefore both fail without any
fault: the run has such a behaviour. What the code does promise is that a start beside which no other
runs is not in anybody's way. A COMMIT that pends is refused or done in one statement of the
code; taking the lock and finding the readers gone are two steps, between which another
process can be refused. `Migrator` also proves that the script of a start that is alone
never meets its own tables. Left out: that the next reader rolls a journal back which a
crash has left, for a moment under an exclusive lock, and a daemon that has gone on to its own
statements while another starts: what it refuses a start is a `Fail` here, and a start
beside it is not `Alone`.

`ReadModel` has the rows with one cell per column. A statement is a record: the columns
it binds, those bound to NULL or to a literal, those of its `DO UPDATE SET`.
`EventProjection` knows when an upsert runs and from what; `ReadModel` what it does to the columns that
belong to another topic or to management. The reads and writes of whole rows have no
caller in the daemon, and are a client that reads a row, edits one management column and
writes it back, with the projections in between.

`Storage` composes the two: no statement before a start has seen every table.

### Daemon, Config and Process

Threads: main, `run()`, HTTP, projection. The stop function of the HTTP server captures
a local of `run()`; a call of it afterwards ends the behaviour (`fate = "stale"`).
`httplib::Server::stop` does nothing to a server that does not listen yet
(`StopServer`). `run()` stops HTTP first, then the projection, the spatial service and
the gateway, where `docs/ARCHITECTURE.md` has HTTP last; no property depends on it.

In `Config` the command line and the file are partial functions from keys to texts. Ports are
converted as in the code: `std::stoi`, which throws for a text that is no number, and a
cast to 16 bits, in `main()` and again in `from_json`, where JSON's `true` is a number too. A
file loads only if it gives every key with its type (`at()`), and the command line wins over it where
it differs from the default (`Override`).

`Process` is `main()`: parse, convert, load, construct the daemon (opening the
database may throw), then the threads of `Daemon`; a signal may come at any of these
stages.

## What the runs check

Bounds are constants in the configurations and guards in the modules.

| run | instance | shows |
|---|---|---|
| `projection_uplink` | 2 robots, connection and state, 3 rows, 2 faults | **TypeOK**, **CellsHaveProvenance**: no cell holds anything but a message that names it on that topic. **NeverRegresses**: what is shown of an item never becomes older. **RecordedIsProjected**: a recorded message, or a newer one, is shown unless the projection is stopped. **ImplementsLatestView**. |
| `projection_downlink` | 1 robot, 1 order, 2 actions, 1 zone set, collection messages of up to 2 entities, 3 rows, 1 fault | **IInv**, the inductive invariant of the proofs. **RecordedRowsArePrefix**: the rows of a collection message are its first entities, in order, whatever came between. |
| `proxy` | 2 lost connections, 1 failed library call | **IInv**. **HandlersRegisteredOnce**, **NeverHalfBridged**, **AttachedIsRecording**; **BadAccessNeedsFailedSetup**: a null or freed endpoint is used only after a cloud setup failed, while stopping, or through the unlocked swap of `on_cloud_connected_`; **ShutdownCompletes**, **ConnectedIsBridged**. |
| `routing` | 6 prefixes; 5 topics with 3 payloads, 3 messages; or any class of value in one field of each kind of each struct; 1 fault | **TypeOK**. **ForwardedAsPublished**: topic and payload are written anew and say what they said. **ConformingIsForwarded**: a value of the standard is not changed. **RecordedReadsBack**: a row can be read by the projectors, and reads the same. **FailuresCostOneMessage**: no more wanted messages are missing, from the other broker or from the log if they have an entity, than there were failures. **CrossesOnceInOrder**: no echo, no duplicate, no overtaking. **RobotIdTellsApart**: two robots share a `robot_id` only if a manufacturer has a "." in its name (`a` + `b.c` and `a.b` + `c` do, where `docs/CQRS_DESIGN.md` counts one row per robot). **ReceivedIsForwarded**, and recorded if it has an entity. |
| `migrator` | 2 processes, 5 migrations, 2 faults; then 4 statements on one table | **IInv**, **UpToDateIsComplete**; **StartEnds**: up to date, failed or killed; **LoneStartCompletes**: a start beside which no other runs ends up to date, whatever the ones before it have left by dying, failing or being refused; **ImplementsSchemaUpgrade**. **RowsFitTheirTables**: no statement breaks a constraint; **NoRowIsTorn**; **TopicsCommute**: the order of the topics does not matter to a row; **MessagesLeaveManagementAlone**, **EditsAreLocal**. |
| `daemon` | 1 port, 1 key with an option, 1 without; the texts 8080, 65535, 65536, 73616, true | **IInv**, **NothingOutlivesRun**, **RegisteredIsAlive**, **SuccessWasAskedFor**, **FailureEnds**, **SignalEnds** (but for the lost stop and the stale call). **UnaskedPortWasNoPort**: the two casts lose no port; **PrecedenceKeptWhenComplete**: within the limits that `precedence` shows, the documented precedence. |

Why the bounds are enough to be interesting. Three rows are an older and a newer
row of one item and one that comes in between, or two messages of two entities
that overlap; two faults are a failed upsert and a crash of the cycle that would
have repaired it. Two lost connections are a reconnect during the setup and one after it.
Three messages are two of one side and one of the other between them. A message with
an odd value (`LoneTraffic`) comes alone: a payload is handled without looking at any other
message, and fields of one kind are handled alike, so one of each kind per struct is taken.
Two processes are all that a lock is about, and two faults let each die once, or one
fail and the other die on what it has left. The tables of `ReadModel` share nothing, so a behaviour uses one of them, and one row
of it; four statements are all three topics of a robot and a write of management among
them; they begin after a start without faults (`Ready`), as what a failed start leaves
does not reach them. 65536 is the first number that does not fit, 73616 the one that
becomes the built-in 8080.
Every bound is large enough that the mutants of its run are found. The theorems
do not depend on any of them.

Runs that end in a violation, each a disagreement between the code and what the
repository says of it (`findings`):

| run | what it shows |
|---|---|
| `status_regresses` | Every row of a responses message has the whole payload, and every latest row is projected in any order: the row of one request writes the old status of another over the newer one. `docs/CQRS_DESIGN.md` promises independent tracking. |
| `instant_actions_lost` | Recorded as `instantActions`, projected as `instant_actions`: never projected. |
| `downlink_unrecorded` | The recorder keeps the cloud endpoint of its construction, null when the cloud connects later, and `attachCloud()` then does nothing: downlink messages are forwarded and not recorded. |
| `reconnect_deaf` | After a reconnect nothing is subscribed again, though the session was clean. |
| `lost_stop` | A stop just before `listen_after_bind()` is lost and `run()` waits for the HTTP thread for ever. |
| `precedence` | A file without all sixteen keys is ignored as a whole (the README's example lacks three), and a default cannot be asked for on the command line. |

Also met while modelling, without a run of their own:

- the array form of `actionParameters`, which the standard and the comments of
  `003_create_instant_actions.sql` have, is not read: the whole message is dropped
  (`IsExpected` excludes it);
- nulls inside a payload for optional fields that are missing, and required lists
  pruned when they are empty at the top, are not the JSON of the standard, though
  this code reads them (`ForwardedAsPublished`, `ConformingIsForwarded` say which);
- a name an enum does not know becomes its first one without a word;
- `robots.last_updated_at` is said to be `state.timestamp`
  (`src/db/migrations/README.md`), and every upsert of a robot writes it, from
  whichever topic came last;
- `orders.status` is written by no message, and `orders.site_id`, which that file
  calls immutable, is updated by `upsert()`;
- an instantActions or responses message with an empty list is forwarded and leaves
  no trace in the event log (`HasEntities`);
- two first starts at once may both fail (`Refused`);
- a whole row written back from a stale read undoes the projections in between
  (`EditsAreLocal` has that exception; there is no caller yet).

## Fairness

Weak fairness of a thread's next step is all that is assumed, and it is what an
operating system's scheduler gives a thread that can run. `EventProjection`: the projection
thread (`sleep_for` returns). `Proxy`: the daemon thread, the connect
callback, the handlers. `Routing`: the handling of a received message. `Storage`: a
process inside `migrate()`. `Process` and `Daemon`: the main thread before there is a daemon, then the four
threads. No broker has to answer, no message, signal, start, crash or fault has to
come. In `EventProjection` messages that keep coming do not delay the projection for
ever, as its batch is read once.

The runs of `EventProjection` keep the check for deadlock, as a process can always
stop and start. In `Proxy`, `Process` and `Storage` the system ends
(stopped, exited, out of statements), in `Routing` the bounded traffic does.

## What is proved

For every value of the constants, from the assumptions named in the modules:
`TopicsAssumption` (the topics sent are ones the recorder knows), `TrafficAssumption`
(a broker accepts no topic with a wildcard or without a level, and a payload has a value
in one field of one struct), `PrefixesAssumption` (a prefix is a text split at "/"),
`BoundsAssumption`, `CountAssumption`, `FaultsAssumption`, `StatementsAssumption` (bounds
are natural numbers). The theorems about `Config`, `Daemon` and
`Conversion` need no assumption.

**EventProjection.** `NeverRegresses` is not inductive: whether an upsert goes back
depends on what the thread read some steps ago. The strengthening is

- `LogOK`: rows of one message agree with its first row, which is how a version stands
  for a message; a message with one entity has one row;
- `InFlightOK`: what the recorder's loop has left to do belongs to a message in the log,
  so that `RecordNextRow` keeps `LogOK` and a row of its own message never is a message
  of one entity;
- `BatchOK`: rows still to be projected are rows of the topic at hand, one per item;
- `BatchIsFresh`: for an entity that travels alone, no row still to be projected is
  older than what is shown. It holds when the batch is read, as the batch has the
  greatest ids and `CellsHaveProvenance` makes every cell a row of the log; it survives
  an upsert, as the batch has one row per item; and a row that is recorded meanwhile
  only can end that an entity travels alone.

`IInv` conjoins them with `TypeOK` and `CellsHaveProvenance`. Theorems `Invariance`,
`TypeCorrect`, `Provenance`, `Monotonicity` (`NeverRegresses`), and in
`EventProjection_refinement` `Refinement` (`ImplementsLatestView`): an INSERT
is a `Record` of its key with a greater version, a last upsert a `Refresh`, everything
else a stutter. That the version refreshed is a recorded one of that key comes from
`LogOK`, that it is not older from `BatchIsFresh`.

`RowsArePrefix` (`RecordedRowsArePrefix`) takes one conjunct more, `UnrecordedIsRest`:
what the loop has left is the message without its first entities, and as many are
recorded as are missing from it. A next row then continues the prefix, and no row of
another thread carries this message's version.

**Proxy.** `ThreadsInOrder` says where each thread may be when another is at a place,
`Bridged` and `HandlersFollowSetup` which handlers exist at each place of the cloud setup, and
that a stopped endpoint has at most the one whose `On*` had tested `stopped_` before,
`RecorderFollowsEndpoint` that who has the recorder's handlers has its flag, and
`PointersAreLive` that a pointer to what is freed means that a setup has failed or
`stop()` has come to freeing. `IInv` is their
conjunction with `TypeOK` and the properties themselves; `NeverHalfBridged` follows from it.
Theorems `Invariance`, `RegisteredOnce`, `BothWaysOrNone` (`NeverHalfBridged`),
`AttachedRecords`, `BadAccessIsExplained`. `Quiet` adds where a thread is joined and an endpoint
gone. From it `NothingLeft` and `Final`: when `stop()` has returned no endpoint is left, no loop thread
is in a callback, and nothing of the bridge takes another step, which is what the flag
`gateway` of `Daemon` stands for after `StopGateway`.

**Conversion.** The tables of `Schemas` are data: two facts about them are shown struct by
struct, that an enum has a first name and none that means something else (`EnumsOK`) and
that a field has a kind `Conversion` knows (`StructsOK`), and nothing else of them is
used. The theorems are about any field of that form and any value: what was read and
written is read again as the same (`ParsedReadsBack`, from `MemberReadsBack`: the second
conversion of a type finds what the first one has written), the pruned copy says the same
(`PrunedSaysTheSame`), what the standard has is read (`ConformingIsRead`, but for
`actionParameters` as an array) and stays as it is (`ConformingStays`). `Member` is a chain
of `IF` because the conditions of the code overlap and their order counts. `++` is a definition of
`Schemas`: the prover cannot expand TLC's `@@`.

**Routing.** Two invariants, one on the other.

- `IInv`: an inbox is strictly increasing, holds only what others have published, and
  lies behind all that has been forwarded from its side (`InboxInOrder`). That a copy
  never gets into an inbox is two lemmas: a topic that parses is built again as it was
  (`TopicRoundTrip`), and no suffix is subscribed on both sides (`SuffixesDiffer`), so the
  copy's topic matches no filter of its new side, for every prefix, also one with a
  wildcard. From it `TypeCorrect` and `CrossesOnce` (`CrossesOnceInOrder`).
- `Contents`: what was forwarded is the pruned copy of the message it came from, under its topic
  (`IsCopy`), and a row names that message and has its payload as it was read (`IsRowOf`). The
  theorems of `Conversion_proofs` then say what a reader makes of either: `RowsReadBack`
  (`RecordedReadsBack`), `ForwardedSaysTheSame` (`ForwardedAsPublished`),
  `ConformingIsKept` (`ConformingIsForwarded`).

`FailuresCostOne` (`FailuresCostOneMessage`) counts the messages that are wanted, no
longer pending and not both recorded and forwarded (`Missed`). A step that takes a message
from an inbox adds at most that one (`MissedFew`); when it is a failure, `faults`
grows with it, and when it is `Handle`, the message is not missed: a wanted one is
accepted by the code (`WantedIsAccepted`, which needs `ConformingIsRead` and `TopicRoundTrip`)
and then done (`HandledIsDone`), and nothing undoes that (`DoneStays`).

`RobotIdIsAKey` compares two sequences at the first "." of either.

**Migrator.** `LockOK` (one process writes, has its lock where it has something
uncommitted, and has none when it does not run), `ProgressOK` (what
a process read is a subset of what is listed, everything below the migration it looks
at is listed, and the one it executes is not there yet), `CommittedIsPrefix`. Without
`ProgressOK` a stale `applied` could commit a migration twice or out of order.
Theorems `Invariance`, `UpToDate`, `Refinement` (`ImplementsSchemaUpgrade`) and
`LoneStart`: a start that is alone is *on its way* (`OnItsWay`: what it has read, and what it
has done since, is all that is listed), and stays so with every step until another one begins or there is a fault. For
nobody else holds a lock (`AloneIsNotRefused`), and what is not listed has no tables
(`KnownIsAbsent`). That it then arrives is `LoneStartCompletes`, which is for TLC.

**Storage.** `WellFormed` is what the proofs need of a statement: it binds what its
table requires, updates what it binds, and of a group of columns that come from one
message all or nothing. It is shown for each of the six statements (`EveryStatement`), and the
rest is about any statement of that form. `RowsIInv` says that every row and the one the
caller holds are whole (`RowOK`), and that what is held is the row itself unless
`last_updated_at` differs, which holds because every statement writes it with a number of its
own. Theorems `RowsFit`, `RowsAreWhole`, `ManagementIsSafe`, `EditsStayLocal`, and
`TopicsInAnyOrder` from `Independent`: two statements on one table update different columns.

`ProjectionsUpsert` and `TopicsOwnTheirColumns` are the bridge to `EventProjection`, which
has one cell per topic: whatever a row has been through, a projection writes all columns
of its topic, `last_updated_at`, and `created_at` if it inserts, and what the other columns
show stays (`Shown`: the literals an INSERT binds say as little as no row).

`StorageMigrates` puts the migrations under the rows: whatever statements are
run, the starts behave as `Migrator!Spec`, so that its theorems hold of the file that is
in use (`StorageInvariance`, `StorageUpToDate`, `StorageLoneStart`, `StorageRefinement`). With them
`UsedMigrated`: while any table has a row, all migrations are committed, tables and list alike.

**Daemon, Process.** `PartsFollowRun` says which part may run at which place of `run()`. From it
`Invariance`, `NothingOutlives`, `RegisteredAlive`, `SuccessAskedFor` of a daemon by itself. The
second half of `Process_proofs` takes them over to the whole process, with an invariant
(`ConfigIInv`) that says what `config` is at each stage: `ProcessInvariance`,
`ProcessNothingOutlives`, `ProcessRegisteredAlive`, `ProcessSuccessAskedFor`, `AskedPorts`
(`UnaskedPortWasNoPort`), `Precedence` (`PrecedenceKeptWhenComplete`).

Only model-checked: the eight liveness properties (`RecordedIsProjected`,
`ShutdownCompletes`, `ConnectedIsBridged`, `ReceivedIsForwarded`, `StartEnds`,
`LoneStartCompletes`, `SignalEnds`, `FailureEnds`), which are beyond TLAPS as it has no rule for `ENABLED`, and the six
properties that the code violates. Every other property of a run is the statement of
a theorem.

## Not modelled, and why

- `nlohmann/json.hpp` beyond the conversions the schemas use (84 % of the lines under
  `src/` are this vendored header, which is why the share of lines that is mapped stays small), `httplib`, the
  MQTT library and SQLite: external, modelled from how the code uses them.
- Two fields of interest in one message, the text of strings and the value of numbers:
  fields are converted one by one.
- Integers of JSON between 32 and 64 bits read into an `int`.
- Logging and the web console, which has no connection to the daemon.
- `--verbose`, which sets the level of the log.
- Quality of service, retained messages and the last will: the code leaves the
  library's defaults. A message lost by a broker is a message that is not received.
- `GET /health`: a constant answer.
- `SQLITE_BUSY` of a projection against a second daemon: a failed upsert of
  `EventProjection`, whoever is to blame.

## Plan

1. A composition of `Daemon` and `Proxy` as one module, in place of the flag `gateway` and of
   the theorems that justify it: the recorder's lifetime inside `run()`.
2. The violations from the other side: theorems that say when they cannot happen, as
   `NeverRegresses` does for `status_regresses`. For `lost_stop`: only when no call
   of the stop function comes after `listen_after_bind()`.
