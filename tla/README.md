# TLA+ models of the Kiwi IRC file uploader

These modules describe the server of this repository (the upload store with its
directories and its database schema, the expirer, the request metadata, the event
broadcaster, the life cycle of the process) and the token cache of its client
plugin. The
design is checked on small instances with TLC, and for every instance, where
noted below, with TLAPS. `PROJECT.json` lists the components, the runs, the
lines each definition stands for, the hazards and the findings.

## 1. The system

| Component | State it keeps | Operations |
|---|---|---|
| `shardedfilestore/shardedfilestore.go` | table `uploads` (`sha256sum`, `deleted`), files `incomplete/<id>.bin`, `complete/<hash>.bin`, `meta/<id>.info`, `meta/<id>.lock`, and the shard directories they are in | NewUpload, WriteChunk, GetInfo, GetReader, FinishUpload, Terminate, ConcatUploads, LockUpload, UnlockUpload |
| `expirer/expirer.go` | a ticker, `quitChan` | New, gc, getExpired, Stop |
| `events/tus-events.go` | listeners and their channels, a mutex, `quitChan` | Listen, Unlisten, readLoop, broadcast, Close |
| `server/server.go` (RunContext) | three signal channels, the current instance | signalHandler, runLoop |
| `server/uploadserver.go` | one per loaded configuration: database, store, expirer, HTTP server, broadcaster | Run, Shutdown |
| `server/tushandlers.go`, `tusd-metadata.go` | none of their own | postFile (remote address, EXTJWT), the tusd routes, ipRecorder |
| `db/db.go`, `shardedfilestore/schema.go` | the connection pool, the version of the schema | ConnectToDB, UpdateRow, initDB |
| `fileuploader-kiwiirc-plugin/src` | a cache of tokens, the uploads in Uppy | TokenManager.get, the handlers of Uppy's events |

**How they interact.** A request is served by tusd, which locks the upload
through the store, reads its info, calls one store operation and unlocks.
The expirer calls `Terminate` directly, without that lock. tusd announces
uploads on unbuffered channels that the broadcaster's `readLoop` reads; the
request waits until it has. `runLoop` creates an `UploadServer` for every
configuration it loads; after a SIGHUP the old instance shuts down in a goroutine
of its own beside the new one, on the same files and the same database. The
plugin asks the IRC server for a token before an upload starts; the token travels
in the upload's metadata and decides which account and which maximum age the
server gives it.

**What is hard.** The store's operations are sequences of SQL statements and
system calls, no transaction spans a statement and a file, and two uploads with
the same contents share one file while each has its own lock. Any call may fail
half way and the process may stop between two of them. Instances overlap during
a reload. Channels are closed while others send on them. The hazards are listed
one by one, with their lines, in `PROJECT.json`.

**What makes each part correct.**

- Store: an upload is served its own bytes and no others; bytes disappear only
  with the last upload that needs them, and do disappear with it; a digest
  describes the whole file; expired uploads are deleted.
- Broadcaster: every listener sees every event from its `Listen` on, once and in
  order; no request is held up for ever; `Close` leaves none of its goroutines blocked,
  and ends them all unless an event overlaps it.
- Life cycle: no reload is forgotten, a SIGTERM ends a process whose start has not
  failed for good, an instance that is shut down releases what it holds and serves
  what it has accepted.
- Directories: an operation makes what it needs and fails only where a removal
  overlaps it; removals leave no empty directory behind and come to an end.
- Request metadata: the recorded address is the request's origin, an issuer is
  vouched for by a token, the client's other fields arrive unchanged, an upload
  lives as long as its account entitles it to.
- Schema: a record survives a crash at any statement of a migration, and a server
  that is up has the columns of its queries.
- Token cache: no upload waits for a request that is gone, none carries a token
  that has expired, and a waiting upload starts or fails.

## 2. Modules

### ShardedFileStore

One action per SQL statement or system call that another goroutine can observe.
`proc[p]` holds a goroutine's local variables (`at` is the next call, `path` the
result of `binPath`, `shared` the outcome of `getDuplicateCount`, `hash` that of
`hashFile`). Workers serve requests, `Gc` processes are expirers.

| Code | Actions |
|---|---|
| NewUpload | `NewUpload`, `InsertRow`, `CreateBin`, `WriteInfo` |
| tusd: lock, GetInfo, unlock | `LockUpload`, `GetInfo`, `Respond` |
| GetReader | `GetReader` |
| WriteChunk | `OpenBin`, `CopyPiece` (any number of pieces), `CopyEnds` |
| FinishUpload | `HashFile`, `UpdateHash`, `RenameBin` |
| Terminate | `CountDuplicates`, `LookupBinPath`, `RemoveInfo`, `RemoveBin`, `MarkDeleted` |
| gc, getExpired | `Expire` (time passes), `Tick`, `NextExpired` |
| error returns | `CallFails`, `RemoveDirFails`, `UnlinkFails` |
| the process stops | `Crash` |

Files are sequences of chunks. sha256 is taken to be free of collisions, so a
digest *is* the sequence it was computed from. tusd and the lock file library are
not part of this repository; what the model says of them (a PATCH is appended only
at the file's current size and only to an unfinished upload; the upload is finished
when it is complete; a lock of a dead process is free) is how the store relies
on them. A `TryLock` on a busy lock has no effect, so the model leaves such
requests out. Assumptions: a client uses an id only after its POST has been
answered, and an upload does not expire during its own POST. A failed UPDATE has
no effect on the table.

### UploadHosting

What one client is promised, with no notion of paths, digests, rows or sharing: an
upload is new, open, final or gone, has contents, and only its own client and its
expiry change it. `ShardedFileStore!Hosting` maps the store to it: the phase
follows from the .info file and the digest, the contents are those of the
upload's own file or of its blob. `HidesSharing` says that the store
implements it.

### TusEventBroadcaster

`readLoop` has a state of its own between the receive of an event (`TakeEvent`)
and the read lock (`RLock`), because `Close` can come in between. `SendEvent`
blocks while a listener's channel is full and panics when it is closed. `Listen`
and `Close` hold the write lock from start to end and are one action each. A
sender is a goroutine of tusd; its send on the unbuffered channel and the receive
are one step. `taken` and `got` record what was received, for the properties only.

### ServerLifecycle

`servers[i]` is the i-th instance of `UploadServer`: where its `Run` and `Shutdown`
goroutines and its expirer are, and the states of its database, http.Server and
`started` channel. `signals`, `forwarding`, `reloadSignals`, `shutdownSignals` are
the three one-place channels and the signal the handler has in its hand. The
configuration's contents are abstracted to the number of SIGHUPs sent when it
was read. Requests and collection cycles are only "work in progress" that dies
with a closed database. `process` tells whether the program is still up and, if
not, why. The standalone program and the gateway plugin are both covered; the mode
is chosen in `Init`. `MayFail` says what may go wrong at a start: the configuration
(`ConfigFails`), its logger or base path (`LoadPanics`), the database
(`ConnectFails`), the routes (`RegisterFails`).
`MaxBusyHups` is one more bound, for the run that checks liveness: further SIGHUPs come
only to an embedded server with no request in progress (`IsBare`), and no request
comes after them. The handler and the loop, which the second SIGHUP is about, are the
same in both modes.

The behaviour of `http.Server.Shutdown(nil)` is that of Go's standard library: it
closes the listener, returns if every connection is idle, and otherwise selects
on `ctx.Done()`, which panics for a nil context.

### ConcatUploads

Extends `ShardedFileStore`. The POST of a final upload (`NewFinal`) goes through the
store's own NewUpload; before it answers, `LookupPart`, `OpenPart` and `CopyPart`
(or `CopyPartFails`) are the loop of `ConcatUploads`, which holds no lock of a part.
`StoreStep` is any step of the store except those tusd excludes: answering before
the loop has ended, and a PATCH of a final upload. A final upload has two parts,
the same one twice included, that are not both empty; `ClientFile` bounds what they
add up to. It is never hashed or renamed, because tusd finishes only uploads that
are written by PATCH.

### ShardDirs

The directory tree under the base path; a path is the sequence of its names. Each
action is one system call: `StatDirs`, `Mkdir`, `MkdirFails` are `os.MkdirAll` (a
directory that has appeared meanwhile counts as made, the Lstat that decides this
is part of the call), `StatFile`, `RemoveFile`, `CheckDir`, `Rmdir`, `RmdirFails` are
`RemoveWithDirs`. The other actions are NewUpload, FinishUpload, Terminate and the
lock files as far as they touch the tree. Uploads have different contents here;
sharing is the subject of `ShardedFileStore`. Failing statements and crashes are not
in this module. `Methods` says which requests each worker serves. `hurt` (a
directory was removed since the operation began) and `left` (directories left by an
operation that prunes nothing) are history for the properties.

### RequestMetadata

`PostFile` is `postFile` with addRemoteIPToMetadata and processJwt up to the INSERT of
NewUpload. `ParseMeta` and `SerializeMeta` are the conversions of
`tusd-metadata.go`: the last readable element of a key wins, an element without a
value is dropped, and the map is written in any order (a set of results).
`JwtStatus` and `ProcessJwt` are the JWT library's checks in their order.
`Announce`, `Listen`, `TakeEvent`, `RecordIP` are the path of the creation event
through ipRecorder to the UPDATE of `uploader_ip`; `Terminate` is the expirer with the
two maximum ages. base64, the JSON of a token and address syntax are abstracted
to whether they are readable.

### TokenManager

An action is one task of the JavaScript event loop: `Upload` (a click), `Restart` (with
the files there are by then, for the user may add and remove some while tokens are
fetched) and `AttachTokens` (the two loops of handleBeforeUpload), `TokenArrives`,
`UnknownCommand`, `TimeoutExpires`, and `Tick` for the clock. `requests[n]` are the
listeners of awaitMessage with their timers, `owed[n]` the answers a network may
still give: those to requests that have timed out arrive too and serve the next
one. Time advances in steps of 5 seconds; an `age` stops growing where nothing
depends on it any more. No task runs between the reactions of a promise
(`BetweenTasks`), but the clock may move between the two loops; `late` records that
it did.

### SchemaMigrations

The four migrations of `schema.go` as lists of statements over the two tables
`uploads` and `new_uploads`, run from the schema of any earlier version, with either
driver, and a crash after any statement. sql-migrate (a transaction per migration,
its own table of those applied) and the two databases (MySQL commits at every
CREATE, ALTER, DROP and RENAME; SQLite does not) are external and stated in
`Durable` and `Exec`.

## 3. Runs

All with `tlc -workers 2 -config <cfg> <module>`; deadlock checking is off because
every system here may stop (all uploads done, process ended).

| Run | Instance | Shows |
|---|---|---|
| `StoreShared` | 2 uploads of one two-piece file, 2 workers, 1 expirer, every method that writes, 1 fault of any kind; 1.4 M states | no interleaving mixes bytes, appends to a shared blob or records a wrong digest |
| `StorePrivate` | 2 uploads with different contents, 1 worker with every method, 1 expirer, 1 failed call or crash; 255 k states | no data loss, deletions leave nothing readable, refinement of `UploadHosting`, every expired upload is eventually deleted |
| `StoreConcat` | 3 uploads sharing contents, requests one at a time, beside a worker that concatenates two of them; 337 k states | deduplication is invisible and leaks nothing when calls do not overlap; a final upload that was answered is whole although its parts may be deleted while they are copied |
| `StoreSharedRace` | 2 uploads, 2 workers | **violated**: a finish overlapping a DELETE of the same contents loses the file |
| `ShardDirs` | 2 uploads that share one complete directory, 2 workers, 1 expirer; 308 k states | operations fail only where a removal overlaps; no empty directory without a reason; every expired upload is deleted |
| `RequestMetadata` | every header of up to 2 of 12 elements, 7 kinds of token, peers with and without a proxy, beside a second upload; 277 k states | origin, issuer, the client's fields, the two ages, the recording of the address |
| `TokenManager` | 2 networks, 2 uploads, any change of files at a restart; 468 k states | no orphaned wait, no expired token, every upload gets going |
| `SchemaMigrations` | every version, both drivers, 2 uploads, 2 crashes; 1.9 k states | records survive; a start fails only on MySQL and only after an interrupted migration |
| `EventsBroadcast` | 2 senders with 5 events, 2 listeners, channels of one place, Close at any time; 66 k states | order, completeness, progress; after Close nobody stays blocked: all loops end, or `readLoop` panics, which it cannot when no event overlaps Close |
| `LifecycleReload` | both modes, 3 instances, 2 SIGHUPs, 1 SIGTERM, starts may fail; 5.4 M states | no lost reload; the current instance is open |
| `LifecycleStop` | 1 SIGTERM and 2 SIGHUPs (embedded, no requests) or 1 SIGHUP with requests (both modes), starts may fail; 354 k states | SIGTERM ends the process even behind a reload that waits for room, unless a start has failed for good (`StartFailed`); overlapping shutdowns release everything |
| `LifecycleDrain` | standalone, 1 SIGHUP, 1 request | **violated**: Shutdown does not await the request |

**Why the bounds are enough.** Sharing needs two uploads, and three to have a
sharer that is neither the one deleted nor the one that finishes. Two pieces allow
a partial chunk and a wrong offset. The atomicity hazards are between two
goroutines on one or two uploads; an expirer and two workers give all pairs. One
fault per behaviour shows what each failing call leaves behind; retries of the
expirer then run to their end. In the tree, one shard layer with a shared and an
unshared directory gives a removal that stops half way up and one that goes on;
the three operations that touch it at once are one of each kind. Two elements of
a header let a key come twice, and let any two special keys meet. Two networks are
the fewest whose tokens can outlive each other; 15, 10 and 300 seconds are 3, 2 and
60 steps, and the last is scaled to 4, which is still more than a token lives. In
the broadcaster a channel of one place is full after one event, and two
listeners suffice for one to be served before the other. Two SIGHUPs and a SIGTERM
fill `signals`, the handler's hand and `reloadSignals` at once, so that a signal is
really dropped.

**Fairness.** `ShardedFileStore!FairSpec` and `ShardDirs!FairSpec`: a request takes
the next call of its handler (`Serve`), but nothing forces a client to send the rest
of a chunk, `CopyPiece` and `CopyEnds`, or to begin a request; the expirer's
goroutine runs whenever it can, for its ticker never stops. Faults are bounded,
which is why a retry finally succeeds. `TusEventBroadcaster!FairSpec`: `readLoop` and
listeners run; `Close` need not come. `ServerLifecycle!FairSpec`: handler, loop, Run,
Shutdown and expirer goroutines run; operators, clients and tickers need not act.
`RequestMetadata!FairSpec`: the handler that has inserted a record announces it,
ipRecorder and its goroutines run; `Listen` itself has none and is a premise of
`IpIsRecorded`. Go's scheduler is preemptive and runs every goroutine that can run.
`TokenManager!FairSpec`: time passes, timers and promise reactions run; a network
need not answer. `SchemaMigrations` states no liveness, for nothing in the
repository restarts a server that has died.

`TermEndsProcess` excepts, explicitly, the two starts that can never complete
(`StartFailed`): a configuration that cannot be loaded, and a Run that fails
before it announces the start. There the program hangs and ignores SIGTERM; the
property does not check these two hangs, it only says that there is no third.
`CloseEndsLoops` has two parts: after `Close` both kinds of loop end or `readLoop`
panics, so nobody is left blocked; and they end without a panic if `readLoop` holds no
event at that time and none follows, or if nobody had registered.

**Limits of what holds.** Some properties are checked in a smaller setting than
the module's because the code does not keep them in the larger one:

- `NoOrphanBin` without an expirer: an upload that expires while its last PATCH
  finishes it loses its record's path between the lookup and the removal, and its
  blob stays.
- `BinPathStoresData` without faults: after a crash, or an `os.Rename` or ignored
  `os.MkdirAll` that fails, between the UPDATE of the digest and the rename, the
  record names a file that is not there.
- A `Close` that comes while an event is between `TakeEvent` and `RLock`, or before
  an event that a request still in progress announces, makes `readLoop` send on a
  closed channel, which ends the process. `EventsBroadcast` contains that panic; its
  properties say when it is excluded, not that it never happens.
- `UploadGetsGoing` for two networks: with three that take nearly ten seconds each
  the first token may be too old whenever the last arrives.
- A header with a field `account` of the client's own is accepted (the empty case
  of Go's switch) and stored as `jwt_account`, without an issuer; the upload gets the
  age of identified users. `IssuerIsVouched` is therefore about the issuer, and
  `LivesItsAge` excepts these uploads by name (`NamesItsAccount`). Of the others it
  says exactly from which age on they may be terminated, also when the token's
  account is the empty string.

## 4. Proofs

Eight modules hold theorems for every value of the constants, under the named
ASSUME of the module they extend, which give the constants their types and keep
the special values apart. Each has an inductive invariant, lemmas that every
action preserves it, and theorems that follow from it.

**ShardedFileStore_proofs.** `[]TypeOK`, `[]ServesOwnBytes`,
`[]BlobsAreContentAddressed` and `[]HashIsOfWholeFile`. `IndInv` adds what each
goroutine still knows of facts it checked earlier: a request other than a POST
holds its upload's lock (`Locked`), no two requests work on one upload (`Alone`), a
POST precedes expiry (`Creates`), a WriteChunk appends at the file's end to an
upload without a digest (`Appends`), and a FinishUpload has the whole file
(`Finishes`). The argument that the expirer, which takes no lock, does no harm to
these properties is that it never writes bytes nor digests: every clause about a
file is of the form "if the file exists".

Under the assumption `UnlinkWorks` (os.Remove does not fail; any other call may, and
the process may die) also `[]UnfinishedHasBin` and `[]DeletedHasNoInfo`. `LossInv` says
what a goroutine about to remove or move a file still knows (`Removal`): in "rmbin" and
"mark", that the .info is gone and will not come back, since only the POST writes it
and nobody else works on an upload during its POST; in "rminfo" and "rmbin", that the
path looked up is that of the upload's unfinished file or of its own digest, although
a FinishUpload may have renamed the file meanwhile; in "info", that the .bin is there.

The last part of the module is about what uploads with the same contents do to each other.
`KeepsSharedBin`, `NoDataLoss`, `BinPathStoresData`, `NoOrphanBin` and `HidesSharing` are not
true of every behaviour of the code: `FinishUpload` and `Terminate` lock different
uploads, or, in the expirer, nothing, and run store_shared_race ends in a loss. The
theorems say that this race is the only one. They hold of every behaviour in which one
named situation never comes about:

| Hypothesis | The situation it excludes | Where it is needed |
|---|---|---|
| `[]NoRace` | a digest is about to be recorded while a Terminate of the same contents (shared with somebody) is between `getDuplicateCount` and the removal of the .bin | `KeepsSharedBin`, `NoDataLoss`, `BinPathStoresData`, `HidesSharing` |
| `[]EndsApart` | two Terminates of the same contents overlap when one records the deletion, so that each counted the other; or one overlaps the end of its own upload | `NoOrphanBin` |
| `UnlinkWorks` | os.Remove fails | `NoDataLoss`, `HidesSharing` |
| `StatementsFail` | anything but an SQL statement fails, the process included | `BinPathStoresData`, `NoOrphanBin`, which are about a file left between two calls |

Three corollaries show that the hypotheses are met. In a store in which no two
uploads have the same contents (`ContentsDiffer`) every behaviour satisfies `NoRace`:
`PrivateBinIsKept`, `PrivateDataIsKept` and `PrivateStoreImplementsHosting` have no other
hypothesis on behaviours. `InTurnAllIsKept` is about requests and expirers that take
turns over shared files.

The inductive invariants: `ShareInv`, a count of duplicates stays true until the
removal that relies on it; `Stored`, the bytes are in the upload's own file or in its
blob; `Pending`, an upload with a digest whose file has its first name is being
finished; `OrphanInv`, every .bin is that of a record that is not deleted or is about
to be renamed, and a Terminate that leaves the file leaves it to somebody. Lemmas
that classify the steps by what they change (`TableSteps`, `DiskSteps`, `NewFile`,
`GoneFile`) keep each preservation proof to the few actions it is about.

For the refinement, `View` derives from the invariants what `Phase` and
`Content` are, one lemma for each abstract action says when a step is that action
(`IsBegin`, `IsAccept`, `IsRefuse`, `IsReceive`, `IsFinish`, `IsRemove`), and one for each
concrete action says which it is, or that no client sees it (`UnseenStep`): WriteInfo
is Accept, CopyPiece is Receive, UpdateHash is Finish, the removal of the .info is
Remove, a failure or a crash during NewUpload is Refuse. RenameBin is not seen
because a file whose digest is recorded is whole (`WholeWhenHashed`, added by
`ViewInv`), and RemoveBin because the .info went first.

**ConcatUploads_proofs.** The five properties of that table for `ConcatSpec`, and
`[]ConcatIsWhole`, for any number of uploads, of requests that concatenate (two parts
each, as in the module) and of others beside them. A step
of `ConcatSpec` is a step of the store or appends some of a part to a final upload
(`ConcatSteps`), so that every invariant above need only be shown to survive an append
(`GrowsInvariant`, `GrowsView`, `GrowsLoss`, `AppendingKeeps`; to a client it is Receive,
`AppendingSeen`). `ConcatIsWhole` is the new part, because `ConcatUploads` holds no lock of
what it reads. `ConcatInv` says that what is left of a part is whole (`Final`): it was
when tusd compared its size and offset, a PATCH finds nothing to append to a whole file
and no NewUpload truncates one that has a client (`WholeStays`). The path the loop has
looked up names the part or nothing, before and after a rename (`NamesPart`); what it has
copied is the parts before the next one (`Copies`); and a final upload is never given a
digest, a PATCH or a second POST (`Untouched`, `Told`). That the .bin is there at all needs
`UnlinkWorks`. `FinalsDoNotRace` shows that requests which concatenate take no part in the
situations of the table above, so that `[]OthersInTurn` (the other requests, and the
expirers, take turns, which is what run store_concat checks) implies all five properties
of that table.

**ServerLifecycle_proofs.** `[]TypeOK`, `[]NoReloadIsLost` and `[]CurrentIsOpen`, for
any number of signals, instances and requests. The invariant counts the SIGHUPs
between Notify and the loop (`Counted`: instances made plus SIGHUPs under way never
exceed those sent, so the model's bound on instances is never exceeded), says that
instances to come are untouched (`LaterAreFresh`), and follows the current one
from its first step to the loop's select (`RunningIsOpen`). Steps of instances
share one lemma, `InstanceStep`.

**ShardDirs_proofs.** `[]TypeOK`, `[]FailsOnlyByRemoval` and `[]EmptyDirsAreExplained`, for
any shard layers and any number of operations. The invariant says, for every place an operation can be
at, which directories it may rely on as long as it is not `hurt`: the ones
MkdirAll has passed, those of its target, and the one it looks at while it climbs.
A step that makes directories cannot disturb this, and `Rmdir` sets `hurt` for
everyone else. For
empty directories, `Explained` accounts for each one: it is in `left`, or an operation
under way claims it (`Claims`: it climbs there, or made it and is about to fill it).
A removal that stops at
a directory that is not empty owes it nothing, for whoever takes the last entry
out of it looks at it next: that is why removals that overlap leave none behind.

**RequestMetadata_proofs.** `[]TypeOK`, `[]OriginIsRecorded`, `[]IssuerIsVouched`,
`[]ClientFieldsSurvive` and `LivesItsAge`, for headers of any
length. The lemma they rest on is `RoundTrip`: what `ParseMeta` reads from any
serialization of a map is the map, without the fields that are empty. The
invariant then states what .info, the record and the events in flight are as
functions of the request as it was sent.

**TokenManager_proofs.** `[]TypeOK`, `[]EveryLoadHasItsRequest` and
`[]UploadsCarryTokens`, for any number of networks and uploads and any time limits.
The invariant relates `loading`, the listeners and the calls that wait, and says
that in a call that is about to attach its tokens only the clock can have
invalidated one.

**TusEventBroadcaster_proofs.** `[]TypeOK` and `[]EveryEventInOrder`, for any number
of senders and listeners and any capacity. The invariant is that got, buffer and
what is pending for a listener, put together, are a suffix of what was taken
(`Order`), that the event `readLoop` holds is the last one taken (`Holding`), and that
who has not called Listen has received nothing (`Places`). Lemmas on sequences say
that a suffix grows with both ends and that moving an event from one part to the
next changes nothing.

**SchemaMigrations_proofs.** `[]RecordsSurvive` and `[]StartsWithItsSchema`, for any number
of uploads and crashes; the migrations are the real list, statement by statement.
One lemma per kind of statement says when it succeeds and what it leaves
(`Created`, `Added`, `CopiedTo`, `Dropped`, `Renamed`). `Shape` says what the tables are after
each statement of each migration, and that every table meant to last holds every
record; `StatementStep` takes one shape to the next. The invariant is that SQLite's
durable tables always have the shape between two migrations, and MySQL's that of
some statement once a migration has been interrupted: then its first statement
fails, unless the whole of it was done, and `DoneAgain` shows that doing it once
more is harmless. `NoneAssumption` (a missing table is not a table) is the only
assumption beside the bound on crashes.

**Only model-checked.** Liveness (`ExpiredIsDeleted`, `TerminationCompletes`,
`EveryEventIsTaken`, `CloseEndsLoops`, `TermEndsProcess`, `ShutdownReleases`,
`IpIsRecorded`, `UploadGetsGoing`), since the prover has no rules for fairness.

## 5. Not modelled

- `Unlisten`: no caller. Its loop keeps the listener it is to delete and drops the
  others.
- Affected-row counts: `UpdateRow` succeeds or fails as one step. On MySQL a repeated
  `deleted = 1` fails; `ShardDirs!MarkDeleted` ends the same way in both cases.
- Open descriptors: `ConcatUploads` does not close the readers of its parts.
- Parsing of the configuration, the formats of log lines, CORS headers and the
  static pages: no state that another component reads. That loading may fail
  is in `ServerLifecycle`.
- The plugin's user interface: which components are shown and their wording. The
  file lists it keeps are copies of what Uppy reports.
