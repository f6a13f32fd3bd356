# A verification project for sbs-logger

sbs-logger receives SBS (BaseStation) messages about aircraft over TCP and
publishes them to a NATS JetStream stream; one program writes them to daily log
files, and another keeps the state of each aircraft in Redis and its flights in
TimescaleDB. This directory holds TLA+ modules for its parts, TLC
configurations that model-check them on small instances, and proofs that TLAPS
checks for every value of the constants. `PROJECT.json` lists the runs, the
line of code each definition stands for, the hazards and the theorems.

    tlc -config MCLogger.cfg MCLogger.tla      # one run
    tlapm LoggerProofs.tla                     # one module's proofs

Contents: 1 inventory, 2 how to read the modules, 3 module by module,
4 divergences between code and documents, 5 fairness, 6 proofs, 7 what is not
modelled, 8 plan.

## 1. Inventory

| Component | Source | State | Operations | Model |
|---|---|---|---|---|
| Ingestor | `cmd/ingestor/main.go` | per source: connection, read buffer, last read deadline; the context | dial with retry, read, cut at CR LF, publish, cancel | `Ingestor`, composed in `Pipeline`, abstractly in `Delivery` |
| NATS client | `internal/nats/client.go` | connection; on the server the stream and its consumers | publish, subscribe, stream creation, close | `Pipeline` |
| Logger | `cmd/logger/main.go` | current file and its date, a channel of one rotation token, the files | Start, WriteMessage, rotation timer, rotateAndCompress, compressFile | `Logger` |
| Tracker | `cmd/tracker/main.go` | `states`, `activeFlights` (a second cache) | Start, ProcessMessage, updateFlight | `Tracker` |
| Redis client | `internal/redis/client.go` | keys for states, flights, validations, with a TTL of a day | set, get, delete | in `Tracker` |
| Database client | `internal/db/client.go` | tables flights, aircraft_states, system_stats | create, update, active flights, insert | flights and states in `Tracker`, abstractly in `FlightSessions`; system_stats in `Stats` |
| Migrations | `internal/db/migrations/` | table migrations, the schema | Migrate, Rollback | `Migrations` |
| Capture | `internal/capture/capture.go` | connections, the message channel, the stop channel | Start, captureSource, Stop | `Capture` |
| Storage | `internal/storage/storage.go` | current file, its date, stop channel | Start, WriteMessage, rotation timer, rotate, compressFile, Stop | `Storage` |
| Statistics | `internal/stats/stats.go` | atomic counters, an RWMutex, the database client | increments, snapshots, persistence | `Stats` |
| Parser | `internal/parser/parser.go` | none | ParseMessage | `Parser`, used by `Stats` |
| Configuration, test utilities, deployment | `internal/config`, `internal/testutils`, compose and Docker files | none | | not modelled |

No program imports capture, storage or config. Capture and storage are modelled
nevertheless: they are the concurrent libraries of the repository, with tests of
their own.

**How they interact.** An ingestor goroutine per source publishes lines with
subject `sbs.raw` through one NATS client. Logger and tracker subscribe to that
stream, each in its own process. The subscription has no name and no options, so
JetStream gives it a consumer of its own that begins with the oldest message the
stream keeps, a day's; the client acknowledges a message when the callback returns,
and the callback has no result, so what a handler made of the message does not
matter. JetStream delivers again what was not acknowledged in 30 seconds. A program
that starts again therefore gets the whole day again. The logger's subscription goroutine
shares the file with a timer goroutine, which it wakes over a channel of one token. The tracker's handler runs
one message at a time and makes up to eight calls to Redis and the database,
each of which may fail alone; it increments counters that two other goroutines read.
Trackers migrate the database when they start, and may do so at once. Compose
restarts every program that exits.

**What is hard.**

* *Interleaving.* The logger reads file and date under a lock and uses them after
  it let go of it; a rotation may close, archive and remove that file in between.
  Capture closes a channel that goroutines send on. Storage's Stop waits for a
  goroutine that may be waiting for Stop's mutex.
* *Partial failure and restart.* A rotation is five system calls, the end of a
  flight three calls to two stores, a new flight two. Any of them may fail or be
  the last one before the process is killed.
* *Unreliable calls.* A call to Redis or a commit may have taken effect although
  its caller was told it failed.
* *Delivery.* Pushes and acknowledgements get lost, consumers disappear, and a new
  subscription replays the day.
* *Counters without a lock.* A snapshot loads them one after the other while a message
  is being counted; only two writes of times take the lock that the readers hold.
* *Order.* Messages come late or again. The tracker judges the end of a flight by
  the message's own time.
* *Caches.* The tracker's map of flights is used only when Redis fails, and Redis
  does not keep it up to date.
* *Boundaries.* A read may end anywhere in a line. The token channel holds one,
  the capture channel 1000. A midnight may fall between two readings of a clock.

**What makes each component correct.**

* Ingestor: what is published is what the sources sent, whole lines, in order,
  none twice, wherever reads end; a vanished peer is noticed.
* Logger and Storage: an accepted message is in the day's log or its archive;
  only past days are archived; no handle leaks; writers do not hang and are not
  left with a removed file; a date change leads to a new file.
* Tracker: a session belongs to one aircraft and is found under its key; it has a
  row; an ended flight is in no cache; an ended row never comes back to life.
* Migrations: what is recorded is applied, in order, and moves by one migration at a
  time; nobody starts before the schema is complete; everybody starts in the end,
  unless the record of tables that are there is lost.
* Pipeline: what was stored reaches every program that runs, in order unless a push was
  lost, and the server forgets nothing that was not handled.
* Statistics: a snapshot adds up; readers and handler do not block each other; what
  was counted gets into the table.
* Parser: no line, however short, is indexed past its end; values come from the fields
  they are in.
* Capture: no send on a closed channel; Stop returns, and then nothing is open.

## 2. How to read the modules

A module has its CONSTANTS with a named assumption, the variables (those that
only record history say so), one action per step of the code that another
goroutine, process or failure can come between, the next-state relation, the
specification and its properties. Names are those of the code. `MC*` modules
give a module small sets of model values; every other module can be used on its own.

Some operators stand just before the action they resemble and are used by no
specification, such as `CloseForgotten` before `CloseCurrent`. They are the action
with a plausible bug (a dropped guard, a wrong order), and `PROJECT.json`
"mutants" pairs each with the property that notices it: no property holds merely
by the shape of its model.

Shared conventions:

* A *fault* is one failing system call, store call or connection; a constant
  bounds how many there are. Proofs hold for any bound.
* Days are numbers, and the clock is an action (`Tick`) that any step may meet.
* A message is a model value or a small record. Formatting, logging and counters
  are left out.
* Runs use `CHECK_DEADLOCK FALSE`: programs may stop, and the bounds on messages,
  days and faults end every behaviour. That somebody waits for ever is covered by
  the liveness properties instead.

## 3. Module by module

### Logger

`Deliver`, `Check`, `Signal`, `BeginWrite`, `WriteRefused`, `Land` and
`LandFails` are `WriteMessage` at the places where it can be overtaken: after the
read lock is released, before the send on `rotationChan`, between the date check
and the write. A write that has begun can be overtaken by the `Close` of its
handle: for a regular file Go's `Close` does not wait for a write that is inside
the system call, so `Land` may come later, and `overtaken` remembers such messages.
`TakeToken` to `ReopenFails` are `rotateAndCompress` call by call under its lock,
each with its failure and the early return that follows. `RotateFile` is the code's
helper. `Shutdown`, `TimerExit` and `Restart` are the process's end and its next
life, with whatever files the last one left. `Writers` are the goroutines inside
`WriteMessage`: one in this program (a subscription), several as the `RWMutex` of
the type allows.

A day archived once must still hold every message that was accepted for it, unless
the message's write was overtaken: `AcceptedSurvivesOneArchive`. It needs the lock,
the order archive-before-remove and the early returns to hold together across
failures and restarts. `OpenFilesOnlyCurrent` says that no handle leaks,
`CurrentFileWritable` that writers are shown an open file that still has its name.

| Run | Bounds | Shows |
|---|---|---|
| `MCLogger` | 1 writer, 3 messages (symmetric), one midnight, 1 fault, 1 restart | the invariants |
| `MCLogger_two` | 2 writers, 3 messages, one midnight, fairness | two goroutines with the same stale handle: a call returns (`CallsReturn`), and a token leads to a rotation (`RotationHappens`) |
| `MCLogger_lost` | 1 writer, no fault | a divergence, section 4 |

Three messages are what it takes for one to be accepted before, during and after
a rotation, and for two tokens to be sent for one midnight. One restart suffices
for a log to be met by a second process, one midnight for a double rotation. One
fault is enough to leave every rotation half done at each of its calls; that more
of them, or more writers, days and restarts, change nothing is proved (section 6).
`MCLogger_two` has no faults, since `CallsReturn` excuses a failed start and
`RotationHappens` any failed call.

### Tracker and FlightSessions

The tracker handles one message at a time, so `pc` walks through
`ProcessMessage` and `updateFlight`: `Receive`, `Accept`/`Skip` (the validation in
Redis), `StoreAircraftState`, `InsertState`, `GetFlight`, `FindLocalFlight`,
`NewFlight`, `CreateInRedis`, `CreateInDb`, `PutFlight`, `DeleteFlight`,
`DeleteState`, `EndFlight`. Each makes one call to a store, succeeds or fails, and
a failed write may have taken effect (`RedisWrite`, `DbWriteFails`). `Restart` may
come at any of them. `Expire` is the TTL, at any time, which over-approximates a
day's. `SetFlightValidation` stands for an operator who writes a validation: no
part of the system does. `Receive` chooses any message with a time up to now, which
over-approximates redelivery and the replay of a day's stream, which `Pipeline` has.
The columns of the tables are integers, and the tracker inserts fractional speeds and
tracks into them; so an INSERT may fail without a fault of the database
(`InsertStateFails`).

Two details of the code decide its behaviour and are modelled as they are. A
missing Redis key makes `GetFlight` return a pointer to a zero `Flight`
(`ZeroFlight`), not nil. `GetActiveFlights` scans a NULL `ended_at` into a
`time.Time`, which lib/pq refuses, so `StartOk` needs a table without open rows.

`FlightSessions` is what the flights table promises: a session is created once,
for one aircraft, for good, and once it has an end it never again looks like a
flight in the air, though the time of its end may be corrected. The tracker is shown
to implement it (`TableSpec`): the abstract sessions are the rows without what the
table says of a flight's position and altitude.

| Run | Bounds | Shows |
|---|---|---|
| `MCTracker` | 1 aircraft and messages without an address, 3 messages, 2 Redis faults, 1 database fault, 1 restart, one altitude | all invariants and the refinement |
| `MCTracker_miss`, `MCTracker_start` | 1 or 2 messages | divergences, section 4 |

A flight is created only on the path of a failing Redis read, so two Redis faults
are needed for a second flight of an aircraft to be created, or for one to be
created and its deletion to fail. Three messages create it, end it and meet what is
left of it, as a replay does. An address and no address are two keys, between which a
session could migrate; altitudes matter to one of the divergences only. One unit of time is enough
for a stale message because the constant `StaleAfter` is 0 in these runs.

### Ingestor and Pipeline

Per source: `Connect`, `ResolveFails`, `Select` (the only place that looks at the
context), `Read`, `ReadFails`, `NextLine`, `Publish`, `PublishFails`, `Resume`; around it the
source (`SendLine`, `Heartbeat`, `PeerVanishes`), the shutdown (`Cancel`) and the next
life of the process (`Restart`). Bytes are kept to what the code tells apart: contents,
CR and LF. `Split` and `TrimSpace` are the library calls; `Lines` is the reference
definition, the lines of everything received on a connection, cut as if it had been
read at once.

`Pipeline` extends `Ingestor` by what happens to `stream`. The server's side of a
subscription is external: `Push`, `PushIsLost` (the connection breaks for a moment),
`Redeliver` (AckWait), `Expire` (the stream's MaxAge), `Orphaned` (an ephemeral
consumer is deleted after five seconds without its subscriber). The program's side is
`Subscribe`, `Begin` and `Return` of the callback, one at a time and with its
acknowledgement, and `Exit`. What a handler does is in `Logger` and `Tracker`: their
`Deliver` and `Receive` take any message at any time, which covers every order in which
`Pipeline` delivers them.

`Delivery` is what a reader of the system may expect of it as a whole, without buffers,
cursors, queues and acknowledgements: sources send lines, a line may be stored if it is later
than its source's stored ones, the oldest expire, and a program handles a message
when every earlier one was handled, lost or has expired. Its `stored` is `stream`, each line told
by its number, or by 0 if it is none (`StoredLines`); its other variables are
those of the same name. That it lets lines be left out says what the system
does not promise.

| Run | Bounds | Shows |
|---|---|---|
| `MCPipeline` | 1 source, 2 lines, a heartbeat, reads of 1 to 5 units, 1 consumer with 2 unacknowledged messages at most, 2 faults, fairness | lines cut as if read at once (`CutAsIfReadAtOnce`), in order and none twice (`InOrderAtMostOnce`); a message is overtaken only if its push was lost (`OvertakenOnlyIfLost`), forgotten only if handled (`ForgottenOnlyIfHandled`), and handled in the end (`StoredIsHandled`); a vanished peer does not hold the goroutine for ever (`DeadPeerIsNoticed`); the whole implements `Delivery` (`DeliverySpec`), which implies that only whole lines are stored (`OnlyWholeLines`) |

A line is four units (two of contents, CR, LF), so reads of one to five units end
at every place in a line and beyond its end, and with what the buffer holds two lines may
come out of one read. Every fault counts: a failed publish,
a broken connection, an unresolved address, a restart of either program, a lost push or
acknowledgement, a slow callback. Two let a connection break twice, a push be lost
and the program restart, or a push and then an acknowledgement be lost. Two messages are
what it takes for one to overtake the other. One source and one consumer are enough:
goroutines share the context and the stream they append to, and nothing one of them
reads; consumers share the stream and nothing else. Messages may be lost at a failed
publish or a broken connection; the code does not promise otherwise, and the properties
say in order and at most once, not all. `MaxUnread` bounds what the network holds.

### Stats and Parser

`Parser` is what `ParseMessage` does with a line, told by what decides it: the prefix,
the number of fields, the number in field 1 and the fields that are not the number an
attribute wants. `Column` holds the literal indexes of the code plus `msgTypeIndex`;
the state that results is told by the field each attribute was read from. `Indexed` are
the fields the code looks at.

`Stats` has three goroutines. The handler walks through `ProcessMessage` once more, this
time for its counters: `Receive`, `AskForLock` and `UpdateLastMessageTime`, `ParseFails`
or `ParseOk`, `IncrementMessageType`, `NotStored` or `StateStored`, `FlightFails` or
`FlightDone`, `SetActive`, `AddProcessingTime`. What the stores answer is not decided here;
`Tracker` has them. `BeginString` and `EndString` are the log's reader, which keeps
nothing. `CheckDb`, `BeginGetStats`, `LoadCounter`, `EndGetStats` and `StoreSystemStats`
are `Persist`, one action per atomic load; the array of types is copied without atomics,
so its sum may be any between the one before and the one after. The RWMutex keeps new
readers out while a writer waits, as Go's does. The three counters of flights are one,
since a message increments one of them, at the same place; of the array the sum is kept.

`SnapshotsAddUp` needs the lock although the counters do not take it: while a reader
holds it the handler can begin no second message, so the counters, which are loaded in the
order in which a message increments them, differ by one message at most.

| Run | Bounds | Shows |
|---|---|---|
| `MCStats` | 2 messages, of 110 kinds of line, 1 row that fails to be stored, 1 restart, the newest row kept, fairness | a snapshot is never torn (`SnapshotsAddUp`), no line is indexed past its end (`NoIndexOutOfRange`), the readers do not hold the handler up (`MessageIsProcessed`), counts get into the table (`CountsReachTable`) |
| `MCStats_columns` | 1 message | a divergence, section 4 |

The lines have every prefix, every type from 0 to 13 and none, and as many fields as there are
about each bound of the code. One message may be half counted while a snapshot is
taken and another meet the waiting lock, so two suffice; a row fails once, as the loop
keeps nothing from one round to the next; of the table, properties look at the newest row.
`MaxSince` matters to `UptimeGrows` only.

### Migrations

`Trackers` call `Migrate`, `Operators` call `Rollback` (no program does; an
operator's tool may). `Read` reads the applied names outside the transaction,
`Run`, `Record` and `Commit` are the transaction, `Fails` any failing call,
`TakesEffect` a commit whose answer is lost, `Interrupted` a crash. The database is
external: a transaction is atomic, one that changed the schema holds its locks to
its end (`locked`), every statement sees what is committed when it starts, names are
unique. The statements of the two migrations appear as what they need and what they
provide (`UpWorks`, `DownWorks`, `Unused`).

A rollback may come late: another has rolled the same migration back, and its own `DROP
... IF EXISTS` finds nothing, which succeeds and takes no lock (`FindNothing`; `late`
remembers it). Nothing keeps a tracker from applying that migration again and committing it
before the rollback is through. What is there by its next statement it removes
(`RunRest`; `remains` are migrations of which a part was removed so and a part is left). If
nothing is there, a rollback of 002 fails, as it has no policy to remove, and one of 001 goes
on; tables that come after that it leaves alone. Either way its DELETE takes the record it finds when it starts
(`Record`; `deleted`). So a record can be lost while its tables stay, and as
`create_hypertable` fails on tables that are there, no tracker can start from then
on (`Orphaned`).

`MCMigrations` has a list of three migrations, two trackers, two operators, 2
faults and 3 rollbacks, with fairness: a stale list of applied names needs two
processes, and a stale *position* in it three migrations. A late rollback of 001 needs two operators,
and a third call of Rollback meets what it left. Nothing is recorded that is not applied
in full, and until a second rollback joins in, record and schema are equal
(`RecordedIsApplied`). They move by one migration at the end of the list at a time, and
the only other change is that the late rollback forgets the record of 001 (`OneAtATime`; it
implies `AppliedInOrder`, what is applied is a prefix of the list). No tracker starts
before the schema is complete unless somebody rolled back (`ReadyMeansMigrated`), and each
of them gets ready in the end unless that record is lost (`AllGetReady`). That it can be
lost is stated without the excuses in `RecordMatchesSchema` and `StartupMigrates`, section 4.

### Capture

The goroutine of a source with its labels (`dial`, `register`, `select`, `read`,
`send`, `leave`, `remove`, ...), the shared channel with its capacity, and `Stop` in its
steps. `stopped` is the closed stop channel; `open` are the connections in fact
open, `conns` the map. `Stop` is called once. `MCCapture`: two sources, a channel of
two, two reads each, so that the channel is full before all is read, and a consumer that
may never come.

### Storage

Every operation takes the mutex, so `WriteMessage` is one action, while a rotation is
`Lock`, `Close`, `Compress`, `WriteArchive`, `Remove`, `Open`, since the clock goes
on and any call may fail. `Arm` reads the clock for the timer, `Close` again for
yesterday's date, `Open` once more for the new file's. `StartFails`, `StatFails`, `WriteMessageFails` and
`RotationFails` are the calls that fail. `MCStorage`: three messages,
two midnights (one may fall into a rotation and the other into the next), two
faults, fairness. There are no restarts, as no program uses the package.

## 4. Divergences between code and documents

Four of them are runs that TLC ends with a violation, by a short behaviour of the
code in which no step is unusual. "findings" in `PROJECT.json` quotes the sentence
each one departs from.

| Run | Property | The code does |
|---|---|---|
| `MCLogger_lost` | `ArchivingKeepsMessages` | a message handed over before the first file was opened has no date, its token rotates on that very day and archives its file; the rotation after midnight archives the day again and truncates the first archive |
| `MCTracker_miss` | `FlightIsTheAircrafts` | while Redis answers, a miss passes for a flight and none is created |
| `MCTracker_start` | `StartsWithOpenFlights` | the tracker cannot start while a flight is open |
| `MCStats_columns` | `ColumnsAsTested` | a position message is read one field too far to the right |

The others are stated beside these and no run is kept for them. To see one, put it
as the only `PROPERTY` or `INVARIANT` into the configuration named.

| Property | Configuration | The code does |
|---|---|---|
| `OnlyPastDaysArchived` of Logger | `MCLogger_lost.cfg` | the first half of `MCLogger_lost`, and likewise a second token sent with yesterday's date: today's file is archived (`cmd/logger/main.go` 155 says the previous day's is) |
| `DeliveredIsLogged` | `MCLogger_lost.cfg` | a message whose handle a rotation closes between the read lock and the write is dropped although no call failed (`cmd/logger/main.go` 134; the comment at 121) |
| `AbandonedOnlyOnFault` | `MCLogger_lost.cfg` with `MaxDay = 2`, `MaxFaults = 1` | after one failed reopening every later rotation stops at the Close of a closed file |
| `SkippedOnlyIfInvalid` | `MCTracker.cfg` | an aircraft nobody has judged is skipped (`internal/redis/client.go` 141); the mock of the tests accepts it (`cmd/tracker/main_test.go` 129-131) |
| `LastPositionKept` | `MCTracker.cfg` | a message without a position erases the flight's (`cmd/tracker/main.go` 225; README 230) |
| `MaxAltitudeNeverFalls` | `MCTracker.cfg` with `MaxAltitude = 1` | a Redis failure brings back the map's old copy of a flight (198; README 231) |
| `RedisStateKeepsPosition` | `MCTracker.cfg` | Redis holds the last message, not the merged state (135; README 217-219) |
| `SilentFlightEnds` | `MCTracker_miss.cfg` with `FairSpec`, `MaxMessages = 1`, `MaxRedisFaults = 1` | only a late message of the aircraft ends a flight (`cmd/tracker/main.go` 234-235, "no updates for 5 minutes") |
| `HexFieldAsDescribed` | `MCStats_columns.cfg` | STA, AIR and ID lines have their address read from field 4 (`internal/parser/parser.go` 66; the comment at 53 has it in field 5) |
| `FinalRow` | `MCStats_columns.cfg` | the context of `StartPersistence` is `context.Background()`, so the "final persistence before shutdown" never happens (`internal/stats/stats.go` 195) |
| `EveryParsedIsTyped` | `MCStats_columns.cfg` | types 10 to 12 are not counted (`internal/stats/stats.go` 24 and 90) |
| `UptimeGrows` | `MCStats_columns.cfg` with `MaxMessages = 2` | what is stored as uptime is the time since the last message (`internal/db/client.go` 144-145) |
| `DailyCountsOnce` | `MCStats_columns.cfg` with `MaxMessages = 2` | the daily aggregate adds up rows that each hold everything counted so far (`migrations/002_retention_policies.go` 18) |
| `RecordMatchesSchema` | `MCMigrations.cfg` | a rollback of 001 that comes late removes the record of tables it did not drop, or a part of the tables (`migrations/migrations.go` 84, `001_initial_schema.go` 81; the comment at `migrations.go` 137) |
| `StartupMigrates` | `MCMigrations.cfg` | after that every start fails at `create_hypertable` (`001_initial_schema.go` 31; README 140) |
| `PastDaysLeaveNoLog` | `MCStorage.cfg` | a rotation looks at the day before the clock's only; a midnight between opening a file and arming the timer, or one rotation that is a day late, leaves a day without an archive (`internal/storage/storage.go` 84 and 113; README 383) |
| `StopClosesForGood` | `MCStorage.cfg` | after a failed rotation there is no file for Stop to close, and the next message opens one (`internal/storage/storage.go` 63; the comment at 42) |
| `ArchiveHasContents` | `MCStorage.cfg` | the archive is written from an empty slice (`internal/storage/storage.go` 192) |

## 5. Fairness

Weak fairness of the goroutines that are running Go code: the runtime schedules a
runnable goroutine, system calls return. In the logger that is the start, the
rotation and each writer; nothing forces a message to be delivered, a restart or
the clock. In the tracker it is the handler and the clock, since `SilentFlightEnds`
is about time passing. In the ingestor it is each source's goroutine, the read
deadline being a step of it; in the pipeline also the server, which pushes and delivers
again, the subscription's goroutine and compose, which starts a program that has ended.
Nothing makes a source send, a message expire or a fault happen. In the statistics it is
the handler, a reader that holds the lock, and the persistence ticker, which keeps firing; in capture the goroutines and `Stop` once called, but
neither the call nor a consumer; in storage the timer goroutine and `Stop`.
Migrations take weak fairness of the restart (compose restarts a program that
exits) and strong fairness of each process's step, because one that waits for the
database's lock is enabled on and off, and PostgreSQL's lock queue is first come,
first served.

## 6. Proofs

TLC finds out whether a formula holds on a small instance, TLAPS proves it for any
number of messages, writers, aircraft, days, faults and restarts.

**`LoggerProofs`**, from `LoggerAssumption` (the constants are what their names
say). The invariants are not inductive by themselves: whether an accepted message
survives depends on what a rotation has already read when it removes the file. `IInv`
adds to `TypeOK`

* `Handles`: which file is current and which are open at every step of a rotation;
* `Usable`: without a fault the current file is open and linked outside rotation;
* `Pinned`: what a writer between lock and write holds is a handle that was current;
* `Untouched`: a day's log is complete as long as the day has not been archived;
* `Secured`: between reading a file and removing it, what the archive will hold
  covers all that was accepted and not overtaken.

`Invariance` is `Spec => []IInv`, one step per action; `TypeCorrect`, `NoLoss`,
`NoLeak` and `Writable` draw the properties from it.

**`TrackerProofs`**, from `TrackerAssumption` and `NullAssumption` (null is no state
and no flight). `IInv` adds to the properties `OneOwner` (all places that know a
session agree on its aircraft, no session is numbered beyond `nextSession`, each
copy lies under its own key), `InHand` (a message being processed is there, and the
flight in hand is one of its aircraft), and `Creating`, `Ending`, `Putting`,
which describe the calls between the first and the last one of a creation, an end
and an update, where the stores disagree. From `Invariance` follow `TypeCorrect`,
`OneAircraftPerSession`, `NoOtherPhantom`, `NoEndedFlightInMap` and
`NoEndedFlightInRedis`.

`TableImplementation` is the refinement, `Spec => TableSpec`: `TableStep` says which steps touch the
table, `InsertOpens` and `UpdateCloses` which step of `FlightSessions` each of them is, and
any other is a stutter. `TableIInv` adds what these two need. An UPDATE closes one
session, not several, because a session has at most one row (`UniqueRows`), which holds
because the INSERT comes once in the life of a session (`Creating`). The INSERT's name is
one of `1 .. MaxRedisFaults` because only a failed call to Redis makes a flight
(`FewSessions`).

**`IngestorProofs`**, from `IngestorAssumption`. Its first part is about
`Split` and `Lines` for every string of bytes. `LinesJoin` says that the lines of two
strings in a row are the lines of the first, followed by those of what was kept of
it and the second: this is what keeping the last piece in a buffer amounts to,
also when a read ends between CR and LF. `LinesOfFramed` says that what is
received of a source's bytes, wherever it ends, gives whole lines in ascending order.
`IInv` adds to `TypeOK` and `InOrderAtMostOnce`, for each connection,

* `Cut`: lines handed over and those left of the batch are the lines of what was received, and
  the buffer is its last piece;
* `Framed`: received or still on the wire, the bytes are lines with ascending numbers;
* `Earlier`: a line in the stream was handed over on this connection, or is
  older than all its bytes. It orders the lines of a connection after those of
  the one before, a failed publish included;

and of the stream `Known`: no line is stored that its source has not sent. From
`Invariance` follow `TypeCorrect`, `CutAsRead`, `WholeLines` and `InOrder`.

**`PipelineProofs`** extends them. A step of the pipeline is one of the ingestor, or leaves it
alone save for a fault (`FaultKeeps`). `PipeIInv` says of each program

* `Accounted`: a message up to the cursor is in the queue, in hand, or settled:
  handled, its push lost, or expired;
* `InTurn`: when the turn of a message comes, every smaller one is settled. A
  redelivered message is behind the place it had or was lost before, so it
  overtakes nothing;
* `Followed`, `Unforgotten` and `Bounds`, the properties program by program.

`PipeTypeCorrect`, `Overtaking` and `Forgetting` follow, and `StreamOfThePipeline`: the stream is
cut, whole and in order in the composed system too.

`DeliveryImplementation` is the refinement, `PipeSpec => DeliverySpec`, from `PipeIInv` and
nothing else. `PublishStores`: a publish is `Store` or a stutter, as `NextLineIs` has the line
whole, sent and later than the stored ones. `ProgramDelivers`: the return of a
callback is `Handle` by `InTurn`, and a lost push is `Lose` because it lies beyond the
cursor. All other steps, reads and redeliveries among them, Delivery does not see.

**`StatsProofs`**, from `StatsAssumption` and `LinesAssumption` (what a line is: a prefix,
a number of fields, a type or none). That a snapshot adds up says nothing of the step at
which it is half taken. `IInv` adds to `TypeOK`

* `Counting`: how far the counters are apart at each step of `ProcessMessage`;
* `Loading`, a part of `Snapping`: for each counter already loaded, how far those to come
  can still run ahead of it; a message that has not got the lock cannot get it now;
* `Consistents`: what was taken and what was stored adds up;
* `Resting`: no reader runs before main has started it.

The handler's steps keep `Loading` since they raise no counter for a message that was not
yet on its way (`Slowly`, `LoadingKept`); each load establishes its own part of it
(`LoadKeeps`). From `Invariance` follow `TypeCorrect` and `SnapshotsAreWhole`.
`NoIndexBeyond` rests on `IndexesInRange` alone, which is about the parser's one check of
a line's length.

**`MigrationsProofs`**, from `MigrationsAssumption`. The list a call works through may be
stale by the time it acts on it, and a late rollback deletes a record under no lock of
the tables. `RecordedIsApplied` and `AppliedInOrder` therefore rest on

* `Placed`: who holds the locks has a schema its statements fit until its transaction
  ends; who has passed its statements without them is a late rollback of 001; a record
  somebody deletes is there until then, and one whose tables go is deleted with them;
* `Informed`: what a tracker has left out of its list is in the schema as long as nobody
  rolls back, and a rollback that is the first is not late;
* `Singles`: no record is deleted by two, and of one call of Rollback there is one caller.

`FrameKeeps` is for the steps that leave schema and record alone. A commit, known or not
to its caller, adds a migration, removes one or forgets 001 (`EffectIs`; `Adds`, `Removes`,
`Forgets`), and each keeps the invariant (`EffectInOrder`, `EffectKeeps`). That
`Min` and `Max` of a list are in it comes from the library's well-foundedness of `<`.
`TypeCorrect`, `RecordIsTrue`, `InOrder` and `ReadyIsMigrated` follow. `Serial` is an action
property, `Spec => OneAtATime`, from the same invariant: only a commit changes schema or
record (`EffectIsOne`), by `Placed` its statements still fit when it does, and a set
of migrations in order that fits them ends just there (`UpTo`).

**`StorageProofs`**, from `StorageAssumption`. `Current` says when `s.file` is nil, and that
nothing else is open; `Late` that midnight has passed before a rotation computes
yesterday. `TypeCorrect`, `OpenIsLinked`, `PastDays` and `NothingOpen` follow.

**`CaptureProofs`**, from `CaptureAssumption`. `Owned`: a connection that is open, or
in the map, has a goroutine that has still to leave it; `Ended`: `Stop` returns after the last
goroutine. `TypeCorrect`, `NoPanic` and `NothingOpen` follow. A second invariant, `AInv`, is
about the messages: `Ordered`, those of a source have ascending numbers in what was
consumed and what is in the channel, and `Complete`, their numbers are all those read,
save the one being sent and, after `Stop`, the last. `Arrival` proves it and `InOrder` draws
`CapturedInOrder` from it.

**Only model-checked**: liveness. The installed provers do not
reason about fairness and `ENABLED`. All invariants of the runs, both
refinements and the action property are proved. Induction over a recursive definition is not needed: sequences are described
by their positions (`Ascending`, `WithoutEmpty`, `NumbersOf`) where the
libraries have recursive operators (`SetToSortSeq`, `SelectSeq`), and where a proof is by
induction it takes the smallest element of a set of numbers (`SmallestIn`), which
follows from the well-foundedness of `<`. That `Ascending` of the model's small sets is
`SetToSortSeq` is plain from its definition; the proofs show that it exists and is
the only such sequence.

## 7. What is not modelled

* What the handlers do and what the stream delivers are not composed in one module: a
  product of Tracker and Pipeline would only restrict what `Receive` may take.
* The NATS server, Redis and PostgreSQL are external and modelled as the code uses
  them. That a program may lose its consumer (`NeverOrphaned` of Pipeline does not
  hold) rests on JetStream's defaults.
* Two ingestors on the same source publish its lines twice; README 336 has the
  user choose that.
* `GetSystemStats` and `GetAircraftState`: readers that nothing calls. The map `states`
  of the tracker, which only its size is taken of; the values of gauges, times and
  durations. Counters do not overflow in the life of a process.
* Memory: the ingestor's buffer has no limit when a source never sends CR LF, and a
  capture source that was never connected is dialled again without a delay. Nor does
  `connectWithRetry` look at the context; main ends a second after it anyway.
* Configuration, test utilities, deployment: no state of their own.
* Formatting and logging.

## 8. Plan

Done: Logger, Tracker with FlightSessions, Ingestor, Migrations, Capture, Storage,
in the order of what goes wrong most expensively; Pipeline with Delivery, Stats and Parser; the
proofs of every invariant that a run checks, and of the refinements of FlightSessions and
Delivery. Left:

1. An abstract specification of the logger's files: a day's messages are accepted, then
   archived as a whole, with `Secured` as the invariant that carries the refinement.
2. The same for what the statistics table promises, a sequence of consistent rows.
