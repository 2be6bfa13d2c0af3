# Verification of realtime-monitoring-system

TLA+ models of the program under `src/`, model-checked with TLC, and theorems
about them checked with TLAPS. Paths below are relative to `src/`, and
`buffer.py:71` means `backend/app/realtime/buffer.py` line 71.

## 1. The system

A FastAPI backend (one uvicorn worker, one asyncio event loop, Python 3.12), a
MariaDB database and a Streamlit frontend.

| Component | State it keeps | Operations | Talks to |
|---|---|---|---|
| Realtime buffer, `backend/app/realtime/buffer.py` | `_pending`, `batch_ready`, the local `batch` of a running `flush()` | `add`, `flush` with its two handlers | generator, flusher and lifespan call it; it opens database sessions |
| Flusher, `buffer.py:run_flusher` | where it waits | wait for the size trigger or the interval, flush | buffer |
| Generator, `realtime/generator.py` | where it is in its tick | make, broadcast, buffer a reading | connection manager, buffer |
| Lifespan, `main.py` | the step of start or shutdown | start tasks, cancel them in turn, final flush, dispose of the engine | all of the above |
| Connection manager, `realtime/manager.py` | the set of WebSockets | `connect`, `disconnect`, `broadcast` | WebSocket route, generator |
| WebSocket route, `api/routes/ws.py` | one handler per connection, its session | handshake, receive loop | manager, session dependency |
| Session and pool, `db/session.py` | 10 + 5 pooled connections | checkout, release | every request, every WebSocket handler, the flusher |
| Authentication, `api/deps.py`, `core/tokens.py`, `core/security.py` | none (users table) | token to user, role checks | routes |
| Accounts, `routes/auth.py`, `crud/user.py` | users table | register, login | audit log |
| Administration, `routes/admin.py` | users table | change role, change status, list | audit log |
| Audit log, `crud/audit_log.py` | audit_logs table | `record_event`, `record_and_commit`, list | accounts, administration, records |
| Records, `routes/records.py`, `crud/data_record.py` | data_records table | create, read, list, update, delete, import, export | audit log, importer |
| Import and export, `services/importer.py`, `services/excel.py` | none | sheet to rows and back | records |
| Analytics, `crud/analytics.py` | none | aggregates, buckets | data_records table |
| Bootstrap, `services/bootstrap.py` | users table | create the first administrator | run before the server |
| Frontend client, `frontend/lib/realtime.py`, `realtime_state.py` | receiver thread, socket, status, queue, history | start, stop, drain | the backend's WebSocket |
| Frontend session, `frontend/lib/auth.py`, `app.py` | token and user in the session state | login, logout, request | backend API, frontend client |
| Records page, `frontend/views/records.py`, `lib/records_api.py` | filters, page number, pending deletion in the session state; the widgets | filter, page, export, create, import, edit, delete | backend API |
| Other views, `frontend/views`, `lib/*_api.py` | their widgets | dashboard, analytics, administration | backend API |

The realtime path is the core. Every interval the generator makes a reading,
broadcasts it to the connected handlers one after the other and then adds it to
the buffer. The flusher writes the buffer to the table as one transaction when
it has `BATCH_SIZE` readings or when the interval has passed. On shutdown the
lifespan cancels the generator, then the flusher, and flushes once more. Since
everything runs in one event loop, tasks interleave at `await`s only; the
buffer's lock is never held across one.

What is hard in it, and what makes each part correct:

* **Buffer.** Readings arrive while a batch is out; the write may fail before or
  after the server committed; the task may be cancelled at every suspension.
  Correct means: nothing is lost, order survives, a second row exists only where
  the outcome of a write was unknown, and the trigger neither goes missing nor
  outlives its batch.
* **Generator, flusher, lifespan.** Order of shutdown, cancellation in the middle
  of a flush, a database that is down during shutdown, a kill at any moment and a
  restart over the same table. Correct means: the buffer's guarantees hold of the
  whole, readings do not stay in memory for ever, a shutdown ends and leaves
  nothing unwritten.
* **Fan-out.** Handlers come and go while a broadcast is suspended in a send, and
  peers stall. Correct means: no subscriber that is connected misses a reading,
  no failing one costs the others or the buffer a reading, broadcasts end, entries
  of dead connections go.
* **Pool.** Long-lived handlers and short requests share 15 connections. Correct
  means: no request holds one while it waits for one, and every request ends.
* **Accounts, administration, records.** Several transactions per request with
  reads that are stale when used, and audit rows that may or may not share the
  transaction they describe; conflicts, lost answers and kills in between. Correct
  means: the audit log tells what happened, answers are true, and nothing is
  changed by somebody without the right to.
* **Reads.** Paging, export and statistics over one table by four query
  builders. Correct means: they are about the same records.
* **Records page.** The script runs again for every event, over a table that
  others change. Correct means: the user's writes go where he saw them go, he is not
  left on a page that is gone, and the reruns end.
* **Frontend client.** A thread per session with a stop that may time out.

`PROJECT.json` lists every component with its status, and every hazard with the
line where it bites and the properties aimed at it.

## 2. Modules

    ReadingLog            what the persistence path promises (abstract)
      ^ implemented by
    RealtimeBuffer        buffer.py: add() and flush()
      ^ instantiated by
    RealtimePipeline      generator, flusher, lifespan, kill and restart
    RealtimePacing        the two triggers in discrete time
    RealtimeFanout        manager.py, ws.py and the tick that drives them
    RealtimeClient        the frontend's receiver threads, sign-in and sign-out

    AuditedRecords        what the write operations on records promise (abstract)
      ^ implemented by
    RecordStore           the requests that write records, over Sessions
    Records               their tables and rights, extended by both of these
    Importer              services/importer.py, extended by Records
    Sessions              db/session.py: the pool, transactions and their conflicts
      ^ extended by RecordStore and by
    Accounts              bootstrap, registration, login, administration
    Queries               what reads return, and what the frontend asks
      ^ extended by
    RecordsPage           views/records.py over a table others change

    BufferParameters      the constants RealtimeBuffer and RealtimePipeline share
    SharedFacts, RealtimePipeline_proofs (also of the log and the buffer),
    RealtimePacing_proofs, RealtimeFanout_proofs, RealtimeClient_proofs,
    RecordStore_proofs, Accounts_proofs, RecordsPage_proofs        theorems
    MC<Module>.tla, MC<Module><Question>.cfg           instances for TLC

### ReadingLog

An ordered log: `Accept` queues a reading, `Write` appends a prefix of the queue
to the log, `Confirm` takes from the queue a prefix that is in the log, `Lose`
drops the queue with the memory of a process. Because `Write` and `Confirm` are
apart, a prefix can be written twice: the log is at-least-once.

### RealtimeBuffer

| Model | Code |
|---|---|
| `pending`, `batchReady` | `_pending`, `batch_ready` |
| `batch`, `flushing` | the local `batch` of `flush()` and where it is suspended: `"writing"` (checkout, INSERTs, COMMIT on the way), `"applied"` (committed, answer not back), `"closing"` (`__aexit__` after `commit()`) |
| `table` | the REALTIME rows of `data_records` by id |
| `Add` | `add()`, `buffer.py:43-48` |
| `FlushTake` | first locked section and early return, `56-62` |
| `Apply`, `Acknowledge`, `Return` | the transaction on the server, the return of `commit()`, the end of the session block, `64-67`, `83-84` |
| `WriteFails` | `except Exception`, `73-81` |
| `Cancelled` | `except CancelledError`, `68-72`, at any of the suspensions |
| `Discard` | the end of a process and `__init__` of the next |

A reading is its production number; its contents never influence control.
`accepted`, `lost`, `inDoubt` and `retrying` are history variables.
A COMMIT that the server executes only after the client has given up is the
same as one it executed just before: ids are assigned by the INSERTs, which come
first, so the rows are at the same place of the table either way.

### RealtimePipeline

One action for what a task runs between two suspensions. `Start` is
`main.py:24-35`; `Tick`, `Deliver`, `TickFails` are the two halves of a generator
tick and its handler; `FlushOnSize` and `FlushOnInterval` are the two ends of
`wait_for` in `run_flusher`; `Apply` to `WriteFails` are the buffer's actions with
the return to whoever called `flush()`; `StopGenerator`, `StopFlusher`,
`FinalFlush`, `Exit` are the lifespan after its `yield`; `Crash` is a kill at any
point. Cancelling a task and awaiting it is one step, since all a cancelled task
still runs is the handler of `flush()`, which does not suspend.

### RealtimeFanout

`handler` is the state of `realtime_stream` per connection, `link` the connection
as the server experiences it, `registered` the manager's set, `targets` what is
left of the copy that `broadcast()` walks. `Register` and `SeeDisconnect` are
`connect` and `disconnect`; `HandlerFails` is every exception of `receive_text()`
that is not a `WebSocketDisconnect` (a binary frame, for one, raises `KeyError`,
although the comment at `ws.py:37` says that anything a client sends is ignored):
the connection closes and the entry stays. `SendReturns` and `SendRaises` are the
two outcomes of a `send_json`; on a closed connection both are possible, on a
stalled one neither is until `Unstall`, which is the peer reading again or
uvicorn's keep-alive ping failing. Numbers are cyclic, so that a missing one shows
without an unbounded counter.

### RealtimePacing

The buffer with a clock whose unit is the generator's interval. A write takes any
number of ticks, in which the wait for a connection of the pool (up to 30 s) is included. Time does not
pass a point at which the flusher must have woken (`Triggered`) or a write must
have ended (`WriteDue`), so the bound on the readings at risk is a matter of the
code's two triggers.

### RealtimeClient

One browser session: its script thread, which runs one rerun at a time, and the
receiver threads that `start()` makes.

| Model | Code |
|---|---|
| `token`, `session`, `page` | the token and the `RealtimeSession` in `st.session_state`, the page on show |
| `script`, `reason` | where the script is in `stop()`, and which of its three callers called it |
| `current`, `stopping`, `socket`, `status`, `queue` | `_thread`, `_stopping`, `_socket`, `_status`, `_queue` of the client |
| `idle` | `monotonic() - _last_drain > idle_timeout` |
| `phase`, `bearer`, `got` | where each thread is in `_run()`, whose client it runs for, what its connection has delivered |
| `Start`, `Disconnect`, `Pump` | the buttons and the live view of `views/realtime.py` with `start()`, `stop()`, `drain()` |
| `Stop`, `JoinEnds`, `JoinTimesOut`, `StopReturns` | `stop()` up to its `join`, the two ends of it, the rest and what the caller does next |
| `OpenPage`, `Logout`, `Unauthorized`, `Login` | `get_session()`, the log-out button, `auth.request()` with a 401, `auth.login()` |
| `ConnectReturns` ... `Clear` | `_run()`, one step per access to something shared |

A client belongs to one sign-in, so clients are named by the numbers of the
sign-ins. A thread of a client that was replaced can only see that client's flag and
idle time, and what it writes is seen by nobody; so those two are kept per
client and the rest for the client in the session only. The close of the socket in
`stop()` shows as `ReceiveRaises`, which may also happen by itself. `JoinTimesOut` is
possible while a connection is being opened or closed, the two calls of
`_run()` without a bound below the 3 s of the join. `gaveUp` remembers that it
happened to the present client. A browser that goes away is a session whose
page is never opened again. The contents of a reading, `parse_reading()` and the
bounded history are left out; of the history `shown` keeps the last reading.

### Sessions

`open` are the actors that hold a connection, each in one transaction; `changed` is
what others have committed since an actor's snapshot. `Begin` is the first
statement of a transaction (a connection from the pool, and the snapshot), `Commit`
its end, `Close` a rollback or the end of the request's session. The behaviour of
the database is external and taken as MariaDB's default: REPEATABLE READ with
`innodb_snapshot_isolation` (on since 11.6.2; `docker-compose.yml` runs 11.7), so that
writing a row that somebody changed since the snapshot is an error. Without it, as in
older servers, an UPDATE or DELETE would overwrite, and `TrailMatches`,
`TrailExplains` and `LastAdminGoes` are not claimed. A request has one session, which
authentication and handler share, and `autoflush=False`: all that is staged is
written by the commit, so a transaction is two steps, its reading and its commit. A
transaction that only reads and is refused is one step.

### Records, RecordStore and Importer

| Model | Code |
|---|---|
| `owner` | `data_records`: per id its owner, `"nobody"` (a reading), `"unused"`, `"deleted"` |
| `trail`, `batches` | `audit_logs`: rows per record and action; the imports, each with the ids it brought |
| `role` | `users.role`, or `"INACTIVE"` |
| `pc`, `job` | where a request is, and what it asks for |
| `Read`, `Refuse` | `get_current_user`, `RequireRoles`, `_get_or_404`, `_ensure_may_modify`, `parse_upload`, and the staging of the audit row |
| `CommitCreate`, `Refresh`, `CommitAudit` | `crud/data_record.py:31-46` and `routes/records.py:80-90`: two transactions, with the connection given back in between |
| `CommitUpdate`, `CommitDelete`, `CommitImport` | one transaction with the audit row |
| `Fail` | the pool's timeout, a conflict, any error of the database, a refresh of a row that is gone: 500 and rollback |
| `Subscribe`, `Unsubscribe` | the session of a WebSocket handler, `ws.py:15-41` |
| `Flush`, `FlushEnds` | the flusher's transaction, of one row |

`Committed` lets the answer of every executed commit be lost: the request fails
although its change is there. A PATCH that changes no column (`touch`) writes its audit
row only. In `Importer` a line of a file is good, bad, blank (separators only) or empty
(which `csv.DictReader` skips without counting it, so that the row number in an error
may be smaller than the line number in the file).

### AuditedRecords

What a reader of `routes/records.py` expects of it, without sessions, snapshots and
connections. A request is *admitted* at one moment, by the rights its user has then, and
takes effect at one later moment, or never: on the tables as they are at that moment, with
its audit row, once. An update and a deletion take effect on a record that still exists.
Only a creation has a second moment, at which it is audited. `RecordStore` maps to it by
`Phase`, a function of where a request is; the pool, the subscribers and what a
transaction has read are invisible. The guard that the record still exists is in no commit
of `RecordStore`, as it is in none of the code: the database's conflict detection stands
for it. `CommitUpdateUnconditional_mutant`, which overwrites a row that somebody has
deleted, breaks this property and no other of the run.

### Accounts

`users` are the rows with the role they were born with, `log` their audit rows in
the order of their commits, `configured` the accounts that the environment names at this start (`_demo_accounts`),
`seeded` how far bootstrap has come with them; requests are
served when it is through. `ReadRegister` is the look-up, `InsertUser` the insert
that the unique indexes decide, `CommitRegister` the audit row in a transaction of
its own; `ReadLogin`, `CommitLogin`; `ReadChange`, `CommitChange` and `Refresh` are
both administration routes. `Restart` is a kill at any moment, or a failure of
bootstrap, with the next start, which reads its environment anew.

### Queries

Functions of a table, no state: `ListRecords`, `ExportRecords`, `Summary`,
`ByCategory`, `Trend` and `DatabaseStatus` are the read routes with their crud
functions, `BuildQuery`, `ExportQuery`, `AnalyticsQuery` and `HistoryQuery` the
frontend's query builders. A query is a record from parameter names to values, and a
route ignores the names it does not declare, as FastAPI does; a filter under a wrong
name is no filter. Times are instants, cut to hours and days by division. ORDER BY is
said by rank (`Ranked`): the n-th row is the one that n - 1 rows come before.

### RecordsPage

| Model | Code |
|---|---|
| `widgets`, `signature`, `page`, `pending` | the filter widgets, `FILTER_KEY`, `PAGE_KEY`, `CONFIRM_KEY` |
| `exported` | `EXPORT_KEY` and `EXPORT_ROWS_KEY`: the filters of the export that is on offer |
| `screen`, `choice`, `typed` | what the last run fetched; the state of the select boxes and of the edit form in the browser |
| `phase`, `click` | where the run of the script is, and the button it was started by |
| `BeginRun`, `Fetch`, `FetchFails` | lines 52-94; between the two steps others change the table |
| `Turn`, `Export`, `Create`, `Save`, `AskToDelete`, `Delete`, `Cancel`, `Unhandled` | the handlers of the buttons, lines 116-323 |
| `Insert`, `Vanish` | the other users and the generator |

Streamlit (1.41.1) is external and assumed to do what the script relies on: a
widget is the same as long as its label, options and default are; a select box whose
options changed goes back to the first one, an input whose default changed forgets
what was typed; a button counts for one run; `st.rerun()` ends the run without the
click. `Undrawn` leaves open whether a run that ends before it draws a widget keeps
its state. A request may succeed, succeed without an answer, be refused, or fail.

## 3. What the runs check

| Run | Question | Result |
|---|---|---|
| `MCRealtimePipeline` | Are generator, buffer, flusher and lifespan an ordered at-least-once log (`NothingLost`, `InOrder`, `SecondRowOnlyInDoubt`, `ImplementsLog`)? Do the tasks use the buffer as it expects (`ImplementsBuffer`), is a full batch never slept over (`NoMissedTrigger`), does a graceful exit leave nothing behind (`CleanExit`)? Does every reading in memory get written or lost with its process, given `FairDatabase` (`EventuallyWritten`)? Does a shutdown end, also with a database that fails every write (`ShutdownEnds`)? | holds, the last two under `FairSpec` |
| `MCRealtimePipelineTwice` | Is nothing written twice, as `buffer.py:54` says? | violated |
| `MCRealtimePipelineRetry` | Is a retry paced by the interval, as `buffer.py:77` says? | violated |
| `MCRealtimeFanout` | `NoSilentSubscriber`, `NoGap`, `EveryTickBuffered` with connections that come, go, stall and fail; `BroadcastEnds`, `StaleEntriesGo` | holds, the last two under `FairSpec` |
| `MCRealtimePacing` | The readings a kill takes are at most max(write, min(BatchSize, write + interval)) + write + failures * (interval + write) (`Exposure`) | holds, and the bound is reached |
| `MCRealtimeClient` | While no `stop()` gave up: one receiver per client (`OneReceiver`), a status that is the receiver's (`StatusTruthful`); and, given up or not, receivers with an old token stay told to stop (`NoStaleReceiver`). Receivers that are dropped or that nobody drains end (`ReceiversEnd`) | holds, the last under `FairSpec` |
| `MCRealtimeClientTwo` | At most one receiver per session, as `frontend/lib/realtime_state.py:4` says? | violated |
| `MCRealtimeClientSignedOut` | No receiver uses the token of a session that has ended, as `frontend/app.py:35` says? | violated |
| `MCAccounts` | Does the audit log lead from the role and status an account was born with to those it has (`TrailExplains`)? Is what a request was told true of the accounts and the log (`AnswersTrue`)? Does the last administrator go only in a race of two (`LastAdminGoes`)? | holds |
| `MCRecordStore` | Does the log match the table whoever fails where (`TrailMatches`), is a success durable (`SuccessIsDurable`), do rights hold as of the transaction (`RightsFresh`), and is everything as if each request had looked and written at one moment (`ImplementsPromise`)? Does each request end though a subscriber keeps its connection for ever (`RequestsEnd`)? | holds, the last under `FairSpec` |
| `MCRecordsPage` | Are the pages a partition of what was asked for (`PagesPartition`), the export and the statistics about the same records (`ExportIsListing`, `CountsAgree`)? Is no vanished page shown (`NoPageBeyondEnd`), does a write go where the user saw it go (`WritesAsSeen`), do the reruns end (`RunsEnd`)? | holds, the last under `FairSpec` |
| `MCRecordsPageExport` | Does an export on offer match the current filters, as its caption at `views/records.py:150` says (`CaptionTrue`)? | violated |

`AnswersTrue`, `TrailMatches` and `WritesAsSeen` are conjunctions of named parts, each
with its own comment in its module. What they leave possible is stated there: a
record or an account without its creating audit row, after a failure between the two
commits; the last two administrators demoting each other at once; and an edit that
lands on another record, when the list changes under the form, if that record has the
same values in all the fields that are changed.

The five violations are findings in `PROJECT.json`. In short: a batch whose
COMMIT succeeded is put back when the cancellation or the connection error comes
after it; and the size trigger is set again by the first reading after a failed write.
Neither loses data while the process lives, which is what `NothingLost` shows.
On the frontend, a
`start()` after a `stop()` that timed out clears the flag of the old receiver, which
then goes on beside the new one; a 401 signs the user out without stopping
the receiver; and on the records page the file and the row count of an export stay on
offer when the filters are changed, as matching the current ones. The page does not read
`X-Export-Truncated` either: when an export was cut, its caption counts the rows up to the
limit. `docs/ARCHITECTURE.md:152` gives a batch or an interval's worth of readings as what a
kill costs at most; what the code ensures is `Exposure`, which is more as soon as a write
takes time or fails.

**Mutants.** Each property of a passing run has a variant `X_mutant` of a modelled
definition (a batch put back behind newer readings, a trigger not cleared, a
shutdown in the wrong order, ...) under which it fails.

**Bounds.** `BatchSize = 2` gives batches below, at and above the trigger with
`MaxReadings = 4` (`MCRealtimePipeline`); four readings also allow two failed batches with readings in
between, which is what ordering depends on. `MaxRows` bounds duplicate rows only: a
write is no longer put in doubt once the table has that many rows; 3 lets a batch be
duplicated and a duplicated batch be followed by another. The number of restarts
needs no bound. Three connections are the least with one failing, one still to be
served and one registering; numbers are cyclic
with two values, so that a subscriber's last reading is the present one or the one
before. No run uses `SYMMETRY`. In the pacing run a write takes up to
5 ticks, against an interval of 4 and a batch of 3, so that each of the three may be what
ends a wait; `MaxReadings = 30` leaves room for two failed writes with all that builds up around
them. Two receiver threads are an old one and its
successor, two sign-ins a replaced client and the next. `MCRealtimeClient` streams one
reading, as its properties do not depend on any: that what is shown stays in order, for which
readings must meet in a queue that is full, is proved and not checked (section 4). In `MCRecordStore`
three requests, a subscriber and the flusher meet at two connections, so that a request may
find none; the five workloads put together what conflicts: two deletions and an update
of one record, a deletion of a record while its creator is between its two commits,
two imports, a refused file, with an account that is deactivated at any moment. Ids go
to 3, which holds an import of two and the record there was. `MCAccounts` has one
workload for registrations that claim one name, for each way two administrators can act on
each other, and for repeated changes of one account, with one kill at any moment, after which bootstrap may
be configured with a name that somebody has registered meanwhile; the
pool has three connections. `MCRecordsPage` has three records, two of them with the same
time, one with a formula for its title and each with one for its category once it is edited so,
two filters that sort by time and by title on pages of 2 and 1, an export limit of 2 and days
of two hours of two instants, so that pages, ties, limits and buckets all have a boundary
inside. `MCRecordsPageExport` has a viewer, who cannot write.
`CHECK_DEADLOCK FALSE` stands where the model stops by design: after the generator
was cancelled in the fan-out model, when the readings are used up in the pacing
model, in the client model once the last sign-in has ended, and in `MCAccounts` when every
request has its answer. The other runs check deadlock.

**Fairness.** Weak fairness of the flusher's interval, of the end of a flush and of
the lifespan's steps: the event loop runs every task that is ready and `wait_for`
has a timeout. A statement sent to the database ends, by an answer or an exception:
weak fairness of `Apply \/ Acknowledge \/ WriteFails` taken together, so the
database may fail for ever in `ShutdownEnds`. `EventuallyWritten` additionally
assumes a database that is not down for ever, strong fairness of `Apply` and
`Acknowledge` (`FairDatabase`, its hypothesis). In the fan-out model a stall ends (uvicorn pings every 20 s and
closes a connection that does not answer), and a closed connection does not accept
sends for ever. In the client model every receiver thread runs (its `recv()` and the
library's opening and closing of a connection have timeouts) and so does a script in
`stop()`. Buttons, pages and the clock have no fairness: `ReceiversEnd` starts, for a
receiver that nobody drains, from an idle time that has passed. In `RecordStore` a
request's steps are fair and handlers and the flusher owe nothing: waiting for a
connection ends by the pool's timeout (30 s), which is `Fail`. In `RecordsPage`
Streamlit runs a script that has begun; requests have a timeout. Bounds on ids and
restarts end those two models' inputs, not their runs.

## 4. What is proved

For every value of the constants within the assumptions below. Every theorem `X` of a
module has the form `Spec => []Inv` (or `Spec => A` for an action property or a
refinement), and each rests on one inductive invariant, named here with the parts that
the properties alone lack. `PROJECT.json` lists the theorems with their properties.

**`RealtimePipeline_proofs`.**

* First the log, as the instance `Buffer!Log`. `LogCorrect`: it loses nothing and keeps
  the order. The inductive invariant `LogInv` adds to these two `Ahead`: whatever is
  queued is newer than everything that left the queue, so a row for the front of the
  queue never comes before the first row of an older reading.
* Then the buffer, instantiated as `Buffer`. `BufferTypeOK`, `BufferImplementsLog`:
  `BufferInv` is the type invariant with `Phases` (no batch when idle; after `Apply` the
  batch is in the table), and it makes every buffer step a step or a stutter of the log:
  `Apply` is `Write`, `Return` is `Confirm`, `Discard` is `Lose`, while `FlushTake`
  and both ways of putting a batch back leave `batch \o pending` as it is.
  `BufferKeepsReadings`: `NothingLost` and `InOrder`, from the refinement and
  `LogCorrect`. `SecondRowNeedsDoubt`: from the invariant `Doubts` (what is unwritten and
  in the table is in doubt or part of a batch that has just been applied).
  `ReadyTruthful`: the size trigger is only set while a full batch waits.
* Last the whole. `PipelineInv` adds `Roles` (which task is in `flush()`, what no longer
  runs in each phase of the shutdown), `Production` (the number in the generator's hands
  is newer than all that were added) and `Trigger` (a full batch built up during a flush
  has raised the flag). From it `PipelineTypeOK`, `PipelineNoMissedTrigger`,
  `PipelineCleanExit` and the refinement `PipelineImplementsBuffer`, which hands down the
  buffer's guarantees as `PipelineImplementsLog`, `PipelineNothingLost`,
  `PipelineInOrder` and `PipelineRowsInDoubt`.

**`RealtimePacing_proofs`.** `PacingTypeOK`, and `PacingExposure` for every batch
size, interval and length of a write, also one that outlasts the filling of a batch: the
bound on what a kill costs. A flush takes at most `Taken` readings, what triggers it or, if
that is more, what arrived during the write before. `PacingInv` has
`Waiting` (how much has built up since the last flush, given how long it is ago and
whether a write failed), `Flushing` (the same while a batch is out, whose size is bounded
by what earlier failures left) and `Announced` (before the first failure a full batch has
set the flag). A failed write adds one interval and one write to the bound, no more,
which is the induction step.

**`RealtimeFanout_proofs`.** `FanoutTypeOK`, `FanoutNoSilentSubscriber`, `FanoutNoGap` and
`FanoutEveryTickBuffered` for any finite set of connections. `FanoutInv` adds `Fresh`
(before its registration a connection is known to nobody) and `Walk` (there are targets
only during a broadcast). That a tick meets every entry once is a cardinality argument on
`SetToSeqs` (`WalkVisitsAll`), and that a send leaves the rest of the walk free of its
target is `TailOfWalk`.

**`RealtimeClient_proofs`.** `ClientTypeOK`, `ClientOneReceiver`, `ClientStatusTruthful` and
`ClientNoStaleReceiver` for any finite set of threads. `ClientInv` adds `SignedIn` and
`Paging` (whose client the session and the page have), `InStop` (during `stop()` the flag
stays set, and after a join that ended the thread is gone), `Bearing` (the receivers of a
replaced client stay told to stop) and `StatusSteps` (socket and status at each step of
`_run()`). `ViewOrdered`: `ViewInOrder`, that while no `stop()` gave up what waits in the queue is in
order and behind what is shown, for any number of readings and any length of the queue.

**`RecordStore_proofs`.** `StoreTypeOK`, `StoreTrailMatches`, `StoreNoHoldAndWait`,
`StoreSuccessIsDurable`, the action property `StoreRightsFresh` and the refinement
`StoreImplementsPromise`, for any number of requests, subscribers, records and files, and
any pool. `StoreInv` adds `Pool` and `Transactions` (a request is in a transaction exactly between a read and its
commit, and never more than the limit are), `Jobs` (which request is where), `Snapshot`,
`Creations` (a created record belongs to one request and is audited by no other) and
`Executed` (what a request has done when it has only its answer to fetch).
`Snapshot` is the heart of it: what a transaction read is still true, *unless* the row it
was read from is in `changed`, which the commit finds out if it writes that row. That a
deletion is audited once then follows: of two, the second has the record in `changed`.

`StoreImplementsPromise` goes action by action (`PromiseStep`): `Snapshot` gives the guard of
`Update` and `Delete`, a lost answer and a kill are `Fail` of one or many requests, and
what the others do to the pool is a stutter. `SameTables` and `SameWrites` say that the
operators of `Records` mean the same in both specifications.

`NoHoldAndWait`, that no request waits for a connection while it holds one, follows from
`Transactions` alone and is only proved: no run has it.

`SuccessIsDurable` needs what the import's loop computes. `ImportDecides` says it for every
file: which files are accepted, with which rows, and that a refusal names the first bad
line under the number the reader gives it. It is an induction over the lines
(`TurnFinds`, `RowsFind`), with the set form `SetInduction` in place of the library's theorem,
since a set is not an operator and can be instantiated; `LoopExists` shows first that the
recursive function is there at all.

**`Accounts_proofs`.** `AccountsTypeOK`, `AccountsTrailExplains`, `AccountsAnswersTrue` and
the action property `AccountsLastAdminGoes`, for any number of requests, accounts, starts
and any configuration. `AccountsInv` adds `Indexes` (names and addresses are unique, and
there is no row about nobody), `Snapshot` (as above, of the accounts), `Registrations` (a
registration owns the account that it inserted, and no two the same), `Executed`
and `Registered` (an account has its creating row, or the configuration names it, or its
registration is between its two commits or failed there). `TrailExplains` is inductive with
`Snapshot`: the value that the next row says it moved *from* is the one the log has led
to so far (`LeftOff`), because a commit that writes an account somebody else changed
fails. The same fact about the actor gives `LastAdminGoes`.

**`RecordsPage_proofs`.** For any accounts, records, filters, page sizes and export limit.

* `PageTypeOK`, `PageWritesAsSeen` and `PageNotBeyondEnd`. `PageInv` adds `Screen` (the
  list on the screen is a page, not empty if its total is not), `Paging` (a run past its
  first step, and a click, belong to the filters and the page on the screen), `Form` (what is
  typed has as its default the value of the record in the form, and the value that the user saw
  when he clicked) and `Warning` (a confirmation is about the record of the warning).
  `Form` is why an edit cannot miss: whatever the list has become, a field that differs from
  the chosen record was typed, and its default is the value of both the record on the screen
  then and the one chosen now.
* `PagesArePartition` and `ExportMatchesListing`: every state of the right type has the
  property, by lemmas on what the operators of `Queries` compute. `Orders` says what ORDER
  BY needs, that the key with the id as tie-break is a strict total order; `RankExists` and
  `ByRank` that every rank is then taken once, so that a listing has every row once and
  sorted (`ListedIs`, `OldestIs`); `Division`, `WindowIs` and `Place` that OFFSET and LIMIT
  cut it into pages without gap or overlap; `Days` and `FoundIsWanted` that the bounds the
  frontend sends are the days the user chose.

* `PagesCountTheSame`, which needs what a sum over a finite set is. The function behind
  `FoldSet` is there (`SumExists`) by an induction over subsets (`SubsetInduction`), and
  the order in which it takes the elements does not matter (`AnyOrder`), so that the sums
  of disjoint sets add up (`DisjointSum`). Groups are `Parts` of the rows they are made of,
  one per key, and therefore their counts and totals add up to those of the whole
  (`GroupsAddUp`): the categories to the summary (`CategoriesAddUp`), the buckets of the
  trend at each interval (`BucketsAddUp`). `HistoryIs` says that the first row of the
  realtime history is the newest reading.

`SharedFacts` holds the lemmas of no particular module: `ToSet`, `SubSeq`, cardinalities
that a pool needs, the least element of a set of numbers and `SetInduction`. `PoolInv` of
`Sessions` is the part of both invariants that speaks of the pool.

**Assumptions.** `BatchSize`, the interval and the pool's limit are positive, the sets of
connections, threads and actors are finite, the bounds are natural numbers, the database
has been started at least once, files are of the form that `Importer` describes, and the
constants of the instances have their types.

**Only model-checked.** Liveness (`EventuallyWritten`, `ShutdownEnds`, `BroadcastEnds`,
`StaleEntriesGo`, `ReceiversEnd`, `RequestsEnd`, `RunsEnd`), which needs fairness and
ENABLED, out of this prover's reach. Every invariant, action property and refinement of
the runs that hold is stated by a theorem.

## 5. Not modelled, and the plan

Left out for good: the text of log lines and responses, JWT and password hashing
(library code), migrations, schemas and settings (declarations), page layout, the
statistics of the frontend's history window, the workbook and CSV formats, the rounding
of sums and averages. The lists of users and of audit rows only read. Of the frontend the
sign-in, dashboard, analytics and administration pages are not modelled; the hazard list
says what the last is exposed to.

Next: the administration page over `Accounts`, as `RecordsPage` is over its table.
