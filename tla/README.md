# Swarf: specifications, model checking and proofs

Swarf is a UCAN revocation service. Clients publish `/ucan/revoke` invocations
over HTTP; the service validates them, stores them in PostgreSQL or in memory,
answers lookups, and streams every recorded revocation to subscribers as
server-sent events. A subscriber that never learns of a revocation keeps
accepting a delegation it should refuse: the stores, the streams and the
resuming client are the core of this project.

The TLA+ here follows the Go source under `src/`; `PROJECT.json` maps every
definition to the lines it stands for.

## 1. Inventory

**RevocationStore** (`pkg/store/store.go`). The interface of both stores:
`AddBatch` (a repeat is stored once and keeps its first record; records of one
batch share their time), `Get` by revoked delegation, and `Stream(from)`, which
yields everything recorded at or after `from` and stays open.

**Postgres store** (`pkg/store/postgres/store.go`, table `revocation`).
State: the rows; per stream, local variables `cursor` and `seen`. `AddBatch` is
one `INSERT ... ON CONFLICT DO NOTHING` in its own transaction. `recorded_at`
is the start of that transaction, so rows become visible out of order. `Stream`
polls: reads the database clock, re-reads rows from the cursor, skips what is
in `seen`, and moves the cursor to ten seconds before the clock. Hard: late
commits, the order of the two reads, the boundary between an inclusive query
and the pruning of `seen`, conflicting inserts. Correct when each stream yields
each row it asked for exactly once and the first record of a cause never
changes.

**Memory store** (`pkg/store/memory/store.go`). State: a map from revoked
delegation to its current record with a sequence number, subscribers' channels
of capacity one, a read-write lock. Hard: the time is read before the lock is
taken; notifications are dropped when a channel is full and consumed before the
records are read; a newer revocation of a delegation replaces the older one.
Correct when no wake-up is lost and a retry is not streamed again.

**Revoke route** (`pkg/fx/app.go`, `revokeRoute`). A request carries several
revocations; each is validated in a goroutine of its own, sixteen at a time,
with panics recovered; the invalid ones get failure receipts, the valid ones
one store write and then success receipts. Hard: panics, slots, failure of one
step of several, a lost acknowledgement, a crash between write and receipts,
repeats by the client. Correct when a success is never ahead of the store and
each revocation gets the answer its own validation deserves.

**Path validation** (`revocationPath`, `validateRevocationPath`). Whether a
revoker has authority over a delegation: its issuer, or an issuer on a path to
it from a root.

**Firehose** (`firehoseHandler`; `pkg/client/client.go`, `Stream`,
`streamConn`; `internal/sse`). The handler writes one event per record; the
client remembers the time of the last record it delivered and the causes it
delivered with that time, and reconnects from there. Hard: interruptions with
events in flight, reconnection at the same time, records out of time order.
Correct when one call delivers everything once.

**Lookup** (`revocationHandler`, `Store.Get`, `Client.Get`). Answers with the
latest record of a delegation, marked cacheable for a year and immutable. Hard:
staleness, out-of-order commits, ties, and a 404 that carries no header for
caches. Correct when a record told is in the store and stays there, and a caller
that asks the server itself is told the most recent one and never an earlier one
than before.

**CLI** (`cmd/swarf`). `revoke` searches an unordered container for a path from
a root to the revoked delegation and publishes it; `stream` and `get` print one
response. Hard: ambiguous, incomplete and cyclic containers. Correct when what
it publishes is what the service accepts.

**Client publishing** (`pkg/client/client.go`, `Publish`, `PublishBatch`). Sends
the invocations of a batch in one request and looks for each one's receipt in
the response. Hard: a response lost after the write, receipts of one request
that differ. Correct when a nil error means that everything is stored.

**Event scanner** (`internal/sse/scanner.go`) and its readers, `streamConn` of
the client and `printEvents` of `cmd/swarf/stream.go`. State: the lines read,
the event assembled so far. Hard: two bounds that meet on one event, events
without data, cuts in the middle of an event, errors that must not pass for the
end. Correct when readers are given whole events in order and return what the
response deserves.

**Process lifecycle and pool** (`cmd/swarf/main.go`, the hooks of
`pkg/fx/app.go`, `migrations.go`). State: the phase of each process, its pool
and who holds a connection. The pool hook pings and migrates, the server hook
listens and serves; they stop in reverse, the server waiting for handlers.
Hard: handlers that never end, consumers that hold a connection, processes that
start together. Correct when handlers always have a pool and a table,
connections come back, and a process that takes a signal stops.

**Around them**: DID resolution with caches, configuration, generated DAG-JSON
code, build information, Docker detection for tests.

Interactions: CLI → client → UCAN server → revoke route → `AddBatch`; firehose
handler → `Stream` → connection → client callback → consumer; lookup handler →
`Get`. Writers and streams of the Postgres store meet only in the table;
writers and streams of the memory store meet in the lock and the channels.
Everything that uses the Postgres store in one process meets in its pool.

## 2. Plan

Done:

1. `PostgresStore`, the abstract `RevocationFeed`, `PostgresStoreProofs`.
2. `FirehoseClient`, which composes the client and the Postgres store.
3. `MemoryStore`, against the same abstract specification.
4. `RevokeRoute` with the client's `PublishBatch`, `RevocationLookup` (over
   `PostgresStore`), `RevocationPath` and `WitnessPath`.
5. `BatchInsert`: the INSERT row by row with its arguments, lock waits and
   deadlock detection, shown to implement the writers of `PostgresStore`.
6. `Service`: start, stop and migration of processes over one database, and the
   pool that requests and streams share.
7. `EventScanner`: lines to events within the two bounds, cut anywhere, for both
   readers.
8. The proofs (section 5): `PostgresStoreProofs`, `MemoryStoreProofs`,
   `RevokeRouteProofs`, `ServiceProofs`, `BatchInsertProofs`,
   `PostgresReaderProofs` (the client call and the lookups), `EventScannerProofs`,
   `WitnessPathProofs`.

Every safety property that a passing run checks is now a theorem as well. Left
undone: lemmas on `RevocationPath` for paths of any length by themselves (what
validation accepts is a chain from one root), a firehose over the memory store,
and proofs of liveness, which the prover cannot do.

## 3. Modules

`RevocationFeed` is the contract of the interface: a table of first records
that only grows, and streams, each fed each wanted record at most once, in any
order; under fairness, eventually. Both stores are checked against it.

`PostgresStore`. `rows` is the table, `call[w]` the transaction of an `AddBatch`
in progress, `pc`, `cursor`, `dbNow`, `pending` and `seen` the locals of a
`Stream` call; `fed` counts what a stream yielded, for the properties only.
`AddBatch` starts the transaction and fixes its time, `Commit` makes its rows
visible, `Abort` rolls back. `ReadClock`, `Query`, `SkipSeen`/`Yield`,
`Advance` and `TickerFires` are the statements of the polling loop, `CloseStream`
is every way out of it. A query's result is the snapshot of one instant. Causes
are numbers because rows of one time are ordered by id. The clock advances
unless a transaction would become older than `MaxInsert`: that constant is how
long an insert may really take, `SettleWindow` what the code assumes.
A stream that is closed resets its locals; opening it again is another call.

`FirehoseClient` adds one client call to one server stream: `WriteRecord` is
the handler's range body (a yield and a write together), `Receive` the callback,
`Interrupt` a connection cut with the unread events lost, `ServerEnds` a store
error (the client skips the error event), `ConnectFails` and `BackoffElapses`
the retry loop: a failure before any connection was established ends the call
(`client` is then "failed"), a later one does not. A cut ends the server's stream at once, which is when its
request context is canceled; the handler may run on for a moment in reality,
writing to nobody. `Caller` looks at the call from outside, connections left out:
one stream from `start`, which is open while the call lasts and has yielded what
the callback passed on.

`MemoryStore`. `holder` is who holds the write lock; `AddBatch` takes the time,
`Lock`, one `StoreNext` per revocation, `Unlock` notifies everyone and releases.
`Subscribe`, `Yield`, `Emitted`, `Wake`, `Read` and `Unsubscribe` are `Stream`;
reads happen in one step because they hold the read lock throughout; `Get` is
one of them and answers with the map's entry. `Sole` is the causes that share
their delegation with no other: only those are sure to stay in the map, and the
refinement of the feed is stated over them. For the others, whose records replace
each other, `CurrentIsStreamed` says what is left of the promise: the record that
stands is streamed.

`RevokeRoute`. `started` and `running` are the goroutines, `outcome` what
`revocationPaths` returns, `receipt` the responses; `Commit` and `WriteReturns`
are apart so that a write can commit and still fail towards the handler. An
invocation made by the client has neither nonce nor expiration, so a repeat has
the same identity; the store absorbs it. Items repeated inside one request are
one item of the set. The receipts that follow a handler error come from the
dispatcher, which is external. `published` is what `PublishBatch` returned to
the client of each request: `Publish` looks through the receipts of the response
as the loop of the code does, `ResponseLost` is an exchange that failed, after
which the client may send the request again.

`RevocationLookup` adds lookups to the writers of `PostgresStore` (no streams).
The callers in `Cached` share an HTTP cache, which is external and may keep any
answer (`Kept`): a record because its headers say so, a 404 because nothing
forbids it. `asked` remembers the rows at the time of the
question, for the properties only.

`RevocationPath` is the decision the service takes and the request the client
builds, as operators on paths of delegations; which delegations
`ValidateToken` accepts is an input. `WitnessPath` is the command: `Begin`,
`Climb`, `ReachRoot`, `GiveUp`, then `Publish`.

`BatchInsert` is `AddBatch` once more, below the grain of `PostgresStore`.
`AddRevocation` is one turn of the loop that builds the arrays of the statement,
`Refuse` a revocation without a path, which ends the call; `Send` starts the
transaction. Which revocation comes next is chosen as the loop reaches it, so a
batch may be any sequence, of any length, and repeats and opposite orders occur.
`InsertRow` takes one row, and is disabled while another transaction holds its
key uncommitted; `Commit` shows the rows. `DetectDeadlock` is PostgreSQL's
detector and `Fail` every other failure. `ImplementsStore` substitutes `rows` and
`call`, forgetting paths and positions, and takes no streams; a call that is
still building its arguments is idle in that view.

`Service` has one `phase` per process. `Launch`, `ReadVersion`, `Migrate`,
`Bind`, `Serve` are its start, `Shutdown`, `Drained`, `PoolClosed` its stop,
`StopTimeout` the stop context, `StartFails` a start hook that fails. `attentive`
is the processes whose `Run` has begun to wait for signals (`Wait`), which it does
after the start hooks: `main` takes SIGINT and SIGTERM away from their default
handlers, `serve` ignores the context they cancel, and so a `Signal` before `Wait`
is no step. A handler's
`pc` says whether it waits for a connection or holds one and for what: a request
makes one call, a firehose reads the clock, gives the connection back, takes one
for the rows and keeps it until the consumer has read them. Migrations are read
and applied in two steps, as goose does, with no lock between processes.

`EventScanner`. A response is a sequence of events, each a sequence of lines; a
data line is the length of its value, which is all the bounds see. `at` is the
event whose lines are being read: those of the next are there once its blank line
is read. `Take` moves one line into `Scan`, each kind of line being an action; `TooLong` is either bound.
`Deliver`, `SkipEvent`, `CorruptPayload`, `ErrorEvent` are the bodies of the two
reading loops, `ClientReturns` and `CommandReturns` what they do at the end.
`Break` cuts the connection between lines or inside one. `Reconnect` is the
client's next connection, to a server that sends what follows the last
delivered revocation; times and repeats are `FirehoseClient`'s subject.

`*Proofs` modules hold the theorems about a module, with the inductive invariants
they rest on (that of `PostgresStore` is in the module itself);
`PostgresReaderProofs` is about the two modules that read the Postgres store,
which share its lemmas. `MC*` modules hold
symmetry sets and the constant functions of the instances; those of
`MemoryStore`, `BatchInsert` and `Service` extend the proofs, so that their runs
check the inductive invariants (`IInv`) too, and `RevokeRoute` runs from its
proofs module.
An operator whose comment begins "Mutant of" is a faulty variant of the
definition after it, there to show that a property can fail.

## 4. Runs

| run | constants | what it shows |
| --- | --- | --- |
| `PostgresStore` | 2 causes, 2 writers, 1 stream, window 1, inserts up to 1, clock to 3 | invariants (the inductive one, types included), first records, refinement of the feed with fairness |
| `FirehoseClient_in_order` | 2 causes, 2 writers, window 1, rows visible at once, 2 drops | nothing repeated, missed or left undelivered across reconnections; the call is one stream of the interface |
| `FirehoseClient_duplicate` | inserts up to 1, 1 drop | **violated**: `ClientYieldsOnce` |
| `FirehoseClient_miss` | inserts up to 1, 1 drop | **violated**: `ReconnectMissesNothing` |
| `MemoryStore` | 3 causes, two of one delegation, 2 writers, 1 stream, batches of up to 2, writers start below 2 records | inductive invariant, no lost wake-up, refinement of the fair feed, retries included, replaced records aside; standing records are streamed |
| `MemoryStore_retry` | 2 causes of one delegation, 3 records | **violated**: `RetryNotStreamedAgain` |
| `RevokeRoute` | 2 requests over 3 revocations (1 unauthorised), 2 slots | inductive invariant, success after storage, own answers, no slot leaked, every request answered |
| `BatchInsert` | 3 causes (1 without a path), 3 writers, batches of any length | inductive invariant with unique keys, own paths, one atomic insert, every call returns |
| `Service` | 2 processes, 1 request, 2 firehoses, 2 connections | inductive invariant, no handler without pool and table, no leak, only slow consumers starve, shutdown ends once a signal is taken |
| `EventScanner` | up to 2 events of up to 2 lines, limit 2, headroom 2, 2 breaks | whole events in order, none refused, truthful outcomes, no endless reconnecting |
| `RevocationLookup` | 2 causes of one delegation, 2 writers, 3 callers (2 behind a cache) | recent and monotone answers without the cache; whatever is told or kept is in the store |
| `WitnessPath` | 3 principals, containers of up to 3 delegations | publishes what is accepted, authority flows down only, the search ends |

Why the bounds are enough. Two writers and two causes give every order of start
and commit, a batch of one or both, a conflict and an abort. Streams do not
touch the table or each other, so one stream has every behaviour. With a window
of 1 and a clock to 3 the horizon overtakes the cursor twice, so that rows are
pruned, re-read at the cursor and skipped. Two drops let a reconnection fail
and another succeed, or two succeed. In the memory store a delegation with one
revocation and one with two are the two cases the map distinguishes; `MaxSeq`
stops writers only from starting. Three revocations on two slots make a goroutine
wait for a slot. Chains of three delegations have a root, a middle and an end,
and room for a self-loop, a cycle and two parents. Three writers make cycles of
two and of three waits, and a bystander for a cycle; a repeat adds no argument,
so batches of any length have finitely many states. Two processes are enough to race a migration
and to restart beside one another, and two connections are what two firehoses
can hold against a request; all handlers reach one process, since pools are not
shared. Event sizes run from nothing over the limit to past the buffer, in one
line or two, and the second event shows what the first left behind. Only
`WitnessPath` and `EventScanner` may stop: a command ends, a reader returns.

Fairness. A stream of the Postgres store is weakly fair in its polling step: the
ticker fires, queries return, the consumer keeps reading; a stream that does
not may always close. The client adds the same for reading, the end of a
response, backoff and connecting; interruptions are never owed and `MaxDrops`
in number. In the memory store a writer inside the critical section runs to its
end, and a reader gets the lock infinitely often free (strong fairness of
`Read`): Go's `RWMutex` lets waiting readers in between writers. In the revoke
route, goroutines run, and validations and writes return because the request
context and the resolvers' HTTP clients bound them. The loop over a batch ends, since a batch is finite. A row insert is strongly
fair, because PostgreSQL queues those who wait for a transaction's end, and
commits and the deadlock detector run; no failure is owed, so a cycle of waits is
ended by the detector or by luck. In `Service` the hooks run to an end, at the
latest when fx's start or stop context expires; the database answers single
calls; a waiting handler is served when connections come back infinitely often
(strong fairness of `Acquire`: pgxpool queues its waiters). Readers of a response
keep reading. Writers, clocks, crashes, aborts, cancellations, signals, clients
and consumers of firehoses are never forced.

## 5. Proofs

`PostgresStoreProofs` proves, for all sets of causes, writers and streams and
all values of the bounds:

- `TypeCorrect`: `Spec => []TypeOK`.
- `FirstRecordKept`: `Spec => KeepsFirstRecord`, without any timing assumption.
- `Invariance`: `InsertsSettleInTime /\ Spec => []IInv`, and from it
  `AtMostOnce`, `NoRowLeftBehind`, `SeenBounded`.
- `Refinement`: under the same assumption `Spec` implements `Feed!FeedSpec`.

`InsertsSettleInTime` is `MaxInsert <= SettleWindow`. `IInv` is needed because
`NothingSkipped` is not inductive by itself: when the cursor moves to the
horizon, one must know that every row below it has been yielded. `SnapshotInv`
says why: while a result is being read, a row at or after the cursor that is
neither pending nor yielded was committed after the clock was read, so its
transaction was open or not yet begun at that time, and by `TimesInv` its time
is not below the horizon. `CursorInv` keeps the cursor at `from` or at most at
the horizon of the last reading, so a row inserted now cannot fall below it.
`MemoryInv` ties `seen`, `pending` and `fed` together: what was yielded and can
still be returned is remembered, which is what makes `Yield` happen once.
`ClosedInv` starts each call afresh. The refinement follows from the invariant:
`Commit` is a `Record` or a stutter, `Yield` a `Feed`, opening and closing are
`Start` and `Stop`, all else stutters.

`PostgresReaderProofs` proves, of the client call, `ClientOnce` and
`NothingMissed` (no repetition and no gap across reconnections) for any number of
interruptions, under `RowsVisibleInOrder`, which is `MaxInsert = 0`: a
transaction's rows are visible before the database clock moves on. Section 6
shows that both fail without it.
`FirehoseInv` extends `IInv`, which every step of the composition preserves
because it is a step of the store or leaves it alone (`StoreSteps`). `OrderInv`
says that a stream yields rows in the order of their times, from one poll to the
next. `WireInv` carries that order to the events under way; `MissingInv` says that
whatever is earlier than an event under way, or than `resume`, is delivered or
ahead of it, rows that are committed later included; `RepeatInv` says that what
was delivered is before `resume` or named by `delivered`; `ServerInv` ties the two
ends together, since `fed` starts again at each connection and `got` does not.
`OnceUninterrupted` and `NothingDropped` are about rows that become visible late
but in time (`InsertsSettleInTime`), when no interruption happens
(`NeverInterrupted`, which is `MaxDrops = 0`): nothing is repeated, and nothing that
the stream yields is lost or taken for a repeat. `PassOnInv` says that a row is on
the wire once and delivered after that. So the two divergences of section 6 take
both, a late row and an interruption.

`CallRefinement` puts the first half together: under `RowsVisibleInOrder`, client,
connections and server implement `Caller!FeedSpec`, the specification that a
single stream of the store has. `Commit` is a `Record`, `Receive` of something new a
`Feed`, `CallStream` and the end of the call are `Start` and `Stop`; interruptions,
reconnections and repeats are stutters. It takes one fact more, `ResumeInv`: a
connection never resumes from before the time the caller named, so that nothing
earlier is passed on. `UninterruptedRefinement` is the same for the other half,
with `FromStartInv`: the one stream there is was opened at `start`.

`MemoryStoreProofs` proves `Invariance`, `TypeCorrect`, `WakeupKept` and `Refinement` (the feed, over the causes that are the only one of
their delegation), for every assignment of causes to delegations. The lock
(`LockInv`) makes `StoreNext` and `Read` exclusive; `ReadInv` says that a stream
holds records up to its sequence number only, so that a record it does not know
has a later number, and `NoLostWakeup` that it then has a notification or will
read; `FedInv` keeps what was yielded, or is about to be, in the map.

`RevokeRouteProofs` proves `SuccessStored`, `OnlyAuthorisedStored`, `OwnAnswer` and
`PublishedStored`, with any number of requests and slots. `OutcomeInv` says that a
validation which did not return has not found anything valid, `StageInv` that
goroutines do not outlive the wait for them, and `ReceiptInv` which receipts there
may be at each stage of the handler.

`ServiceProofs` proves `StoreForHandlers` and `NoLeaks`, for any number of
processes and handlers and any pool. `HooksInv` orders the hooks: past its start
hook a process has a pool, and from binding on a table; `HandlerInv` bounds the
handlers by the server's hooks. The count of connections rests on the library's
theorems about finite sets.

`BatchInsertProofs` proves `OwnPath`, and `Refinement`: row by row, with waits,
deadlocks and aborts, the call is the atomic insert of `PostgresStore`.
`ArgsInv` says that each id comes with the bounds of its own path among the
witnesses, which one turn of the loop preserves (`WithRevocationSliced`); `OwnInv`
what a transaction has come past; `KeyInv` is the primary key, over committed and
uncommitted rows, and is what makes the rows of `Commit` those that the atomic
insert adds.

`PostgresReaderProofs` also proves, of the lookups, `ToldStaysTrue`,
`DirectAnswers` and `OnlyForward`, the first for callers behind a cache too. `LIMIT 1` picks a row if there is any, and no
later one exists: that rests on the order of rows being total and on the sets of
rows being finite (`FiniteAssumption`). `ResultInv` is about answers under way,
which the table may overtake; `AskedInv` relates an answer to the rows at the time
of the question.

`EventScannerProofs` proves `WholeEvents`, `NoneRefused` and `TruthfulOutcome`, for
responses of any number of events with any number of lines of any length, and any
limit, as long as the headroom of a line is more than a field name. `WireInv` is
the heart: while scanning, `k` lines of the event at `at` are read and the others
are still to come, `scan` holds exactly what those `k` say, and after a cut what is
left is a part of the next data line. `EventInv` says what the scanner reports,
`PassedInv` that no event before `at` ends the reading and that all the
revocations among them were delivered, `EndedInv` what an end of scanning means. That the size so
far is what the lines joined would have, and that it only grows, is an induction
over data lines (`JoinedSizes`, `JoinedGrows`). The library's induction theorems
take an operator and cannot be used; for a fixed definition a least counterexample
does instead (`LeastNatural`, from the well-foundedness of the naturals).
`EitherBound` is where the two bounds meet: a line that fills the buffer is of an
event over the limit, whatever came before it.

`WitnessPathProofs` proves `AcceptedIfPossible` and `OnlyFromUpstream`, over any
container. `ClimbInv` is the argument: every acceptable path ends the way the
climb went, because above a delegation that is not a root an acceptable path goes
on to a parent (`GoesOn`) and the climb continues only when there is one. At a
root the climb is then the whole of every acceptable path; without a parent, or
with a single one that was met before, there is none.

Assumptions. Those on constants are the named `ASSUME`s of the modules: bounds
are numbers, `Free` is no writer, the causes that lookups are about are a finite
set. Those on behaviour are
`InsertsSettleInTime` and `RowsVisibleInOrder`, which nothing in the code
enforces, and `NeverInterrupted`, which no network keeps: what rests on them says
when the code is right, not that it always is. The lookups, the memory store, the
revoke route, the service, the batch insert, the scanner and the command need none
of them. `LookupInv`, `FirehoseInv`, `OneConnectionInv`, `WitnessInv` and the `IInv`
of `EventScannerProofs` hold on small instances by TLC and are in no configuration;
the runs list the properties that follow from them.

Only model-checked: the liveness properties, since the prover does not reason
about fairness and ENABLED. They are `EventuallyDelivered`, `CurrentIsStreamed`, `AlwaysAnswered`,
`EveryBatchEnds`, `OnlySlowConsumersStarve`, `ShutsDown`, `GetsThrough`, `ClimbEnds`
and what `FeedsFairly` adds to the feed's safety, which the two `Refinement`s prove.
The violated runs of section 6 are TLC's as well.

## 6. Where the code and its documentation differ

- A client call can repeat a record and can miss one after a reconnection when
  rows became visible out of order (`client.go:221-249`): the server's window
  does not outlive the connection and the client resumes from the last
  record's time, which may lie before or after others.
- A retry can be streamed again by the memory store after another revocation of
  the same delegation (`memory/store.go:70-76`).

Also noted, with no run of their own:

Nothing enforces the settle window (`postgres/store.go:22-25`): no statement
timeout is set, and an insert that waits longer commits into history a stream
has passed. With `MaxInsert` above `SettleWindow`, TLC violates `NothingSkipped`;
the runs and proofs assume that inserts settle in time.

A lookup answer is called the most recent revocation and marked immutable
(`app.go:489`), while later revocations of the delegation change it:
`DirectAnswerIsMostRecent` is about callers without a cache. The 404 has no
`Cache-Control` at all (`app.go:479-481`), and HTTP lets a cache keep such an
answer by heuristics: behind one, a revoked delegation may be reported as not
revoked, to a caller that was told otherwise before, too.

A signal during the start hooks is lost (`main.go:25-51`): the process goes on to
serve, and has to be told again.

The interface has `Stream` yield all revocation records (`pkg/store/store.go:52`).
The memory store keeps one per delegation, and a record replaced before a stream
reads it is never yielded; nor is one that replaced it with a time before the
stream's `from`. Its times may also go back, in `Get` too, because they
are taken before the lock.

A shutdown with an open firehose waits until fx's stop timeout, then cuts the
requests off and leaves the pool unclosed: `e.Shutdown` does not cancel request
contexts. Processes started together over an empty database race their
migrations, and the loser fails to start.

The client library skips error events and reconnects, whatever the error; the
stream command returns it.

The comment on `maxConcurrentValidations` calls did:web resolution uncached, and `newDIDResolver` caches it for an hour
(`app.go:134`, `app.go:162`, `app.go:205-207`). "When the write fails, none of
them is stored" (`pkg/store/store.go:47`) cannot cover a lost acknowledgement,
which `WriteFails` after `Commit` models; the failure receipts make the caller
retry, and the retry is harmless. The service accepts paths through a second
root or returning to an earlier delegation, which the command never builds
(`Paths` in `WitnessPath` leaves them out).

## 7. Not modelled

Configuration, generated encoders, build information and test helpers have no
behaviour over time. Signatures, validity times and DID resolution are library
code; their results are inputs. `get` of the CLI is one call of `Client.Get`,
printed, and the flags of `stream` are input. The bytes of records and events are
abstracted to cause, time, path and size. `SkipMigrations` is not modelled: with
it the table is someone else's duty, and `HandlersHaveAStore` assumes it met. In
`Service` requests exist from their store call on; their validation is
`RevokeRoute`'s subject, and what store calls do is that of the stores.
In `EventScanner` the consumer does not stop and no deadline of the caller
expires: `Stop` of `FirehoseClient` is that. Streams of the memory store behind a
firehose are not composed with the client: they hold no connection, and what
they yield is the same feed.
