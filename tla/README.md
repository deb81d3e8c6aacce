# A TLA+ verification of QQQ

QQQ runs WebAssembly components behind an HTTP server, with explicit
capabilities and an audit record of what each request did. This directory holds
TLA+ models of its core, the TLC configurations that check them on small
instances, and TLAPS proofs for every value of the constants.

Paths are relative to the repository; `crates/` is left out of the tables.

## The system

| part | state | operations | hard behaviour |
|---|---|---|---|
| component registry (`qqq-run/src/generations.rs`) | revision counter, entries (requested, active), weak list of retired generations, all under one mutex | reserve, publish, cancel, acquire, remove, list, draining | leases are `Arc`s, cloned and dropped without the lock; preparations finish out of order; the counter and both limits run out |
| live app (`qqq-run/src/live.rs`) | a registry with one entry, the preparation mutex | new, replace_checked, remove, acquire, answer, draining | a replacement is several registry calls with a compilation in between; remove() and requests run meanwhile |
| request path (`qqq-run/src/guest_handler.rs`) | buffer semaphore, audit appender, drop counter | handle_request | early returns, traps, panics and a failing audit worker, each with slots and bytes to give back |
| instance pool (`qqq-host/src/pool.rs`) | in_use, idle, draining | acquire, release, discard, begin_drain | the limit, the drain, slots that must not be reused |
| audit stream (`qqq-host/src/audit.rs`) | next sequence, head digest, ring | record, commit, resume | sequences are given under a lock, rows travel without it |
| audit appender (`qqq-host/src/audit_sink.rs`) | bounded queue; worker: pending rows, frontier, barriers, stall timer; counters | append, persist, shutdown, append_loop | rows out of order or twice, timeouts, late rows, partial batches, shutdown with gaps |
| audit log (`qqq-host/src/audit_sink.rs`) | the file, its quarantine files | load, quarantine, truncate, open, append_batch | crashes at any byte, torn lines, resumed chains |
| connections (`qqq-serve/src/conn.rs`, `server.rs`, `qqq-io/src/listener.rs`) | phase, deadlines, ledger, task set | admit, read, respond, drain, abort | timeouts against arriving bytes, graceful shutdown |
| rate limits (`qqq-serve/src/limits.rs`) | window counters, bucket | check_and_record, admit | window borders |
| handles, quotas, tenants (`qqq-host/src/handles.rs`, `quota.rs`, `tenant.rs`) | slots with generations, counters | insert, remove, charge, acquire, release | generation exhaustion |
| output lanes (`qqq-host/src/sink_lane.rs`, `guest_output.rs`) | bounded lane, byte budgets, parked wakers | send, park, flush, wake_all | lost wake-ups |
| host queue and store (`qqq-host/src/host_queue.rs`, `host_kv.rs`) | messages with leases, values with expiry | publish, receive, acknowledge, reject, set, get | an acknowledgement after the lease expired |
| development server (`qqq-run/src/dev.rs`, `watch.rs`) | snapshot, restart flag | watch, rebuild, replace | sources that change during a build |
| manifests and policy (`qqq-cap`), packages (`qqq-pkg`), parsers and codecs (`qqq-serve`), CLI (`qqq-run`) | none that changes concurrently | | bytes and text |

How they interact: a connection hands a request to `LiveApp::answer`, which
leases the current generation and calls its `handle_request`. That takes buffer
bytes and a pool slot, runs the guest, gives the slot back, commits the
request's audit rows to the stream (which numbers and chains them) and waits in
`AuditAppender::persist` for the worker to have them on disk. A coordinator (the
development server) replaces the generation meanwhile. On a restart the log is
loaded, repaired and the stream resumed from it.

What makes each part correct:

- registry: the latest reservation wins, removal wins over what was reserved
  before it, running code is never forgotten, the limits hold;
- live app: a failed replacement leaves nothing behind and the next one is
  always accepted;
- development server: what a reload activates was built from one state the
  source tree was in, under the policy that was loaded, and edits settle;
- appender: order, no loss that the counters do not show, shutdown ends;
- log: what was acknowledged survives, and a start reads rows back in sequence order;
- request path: slots and bytes are conserved on every path, under `FailClosed` an
  answer leaves only with its row in the file or given up on record, a guest
  call that never returns holds up no other request;
- server: every way out of a connection gives its slot back, the bound on
  accepted connections stops the server, the drain ends whatever peers do;
- queue: a message is in the queue exactly once until it is acknowledged, and a
  dead delivery identifier stays dead;
- output lanes: bytes in flight never leak, lost output is recorded, flushes are
  answered.

`PROJECT.json` lists the hazards behind these properties, each at its line.

## Modules

### Generations, LiveApp

`Generations` is the registry. The mutex makes every call one action. A
generation is identified by the revision of its reservation; 0 (`None`) stands
for no entry, no generation and no lease. `requested` and `active` are the two fields of
an entry, `retired` the generations behind the weak pointers, `updates` the
tokens callers hold, `leases` the `Arc` of each client. The strong count of a
generation is what `Held` says: a lease, or a displaced generation that
`publish` or `remove` holds in a local until after the unlock (`previous`).
`issued` and `removedAt` are history variables.

| action | code |
|---|---|
| `Reserve`, `Cancel`, `Acquire`, `Remove`, `Sweep` | `reserve`, `cancel`, `acquire`, `remove`, `draining` |
| `Publish`, `PublishRefused` | `publish`, its success and its errors (the token is consumed by both) |
| `Abandon` | a refused cancel, or a dropped token |
| `CloneLease`, `DropLease`, `DropPrevious` | the `Arc`s outside the lock |

`LiveApp` extends it with coordinators that go through `replace_checked` step
by step: try_lock, acquire, reserve, compile and check, drop the lease, publish,
drop the displaced generation. Requests lease and drop; `remove` and `draining`
come at any time.

`DevReload` extends `LiveApp` with the watch thread of `qqqai dev`, its only
coordinator, and an editor that saves files at any moment. A build and
`Snapshot::take` read one file after the other (`BuildRead`, `Take`), so that a
save may fall between any two reads. `phase` follows `run` and `watch`: the first
build, the first snapshot, then polls; a poll that finds the tree quiet (`Fire`)
builds, compares the tree with the baseline (`Verified`), and goes through
`replace_checked`, whose check reads the manifest's bytes and the tree once more
(`CheckPolicy`, `CheckTree`). A file is its version; the manifest's bytes may be
changed back although its fingerprint differs. `trees`, `barred` and `missed`
are history variables.

### AuditTrail, AuditAppender, AuditLog

`AuditAppender` is the way of a row from the commit to the file. A row is its
sequence number. `Commit` numbers the rows of a request at once; `Send` is
`send_before` for one row or the barrier; `Fail` is the timeout or the
disconnected channel; `Resubmit` a second `persist` of the same rows. The worker's
program counter `at` follows `append_loop`: `recv` (blocked), `drain`
(`try_recv`), `write`, `closing` (`drain_remaining`), `stopped`. `Wrote`, `Gap` and
`WriteFails` are the outcomes of `write_frontier` with what the loop does next.
Clocks are left out: the stall timer may run out at any moment after it was
armed, and a waiting request may time out at any moment.

`AuditTrail` is what the log promises, without queue, batches, timeouts and
retries: a request claims consecutive sequences, the trail grows in order by
claimed rows, and a request is answered only with its rows in the trail or a loss
on record. `ImplementsTrail` maps the appender to it (the file is the trail,
`unpersisted` the losses, an acknowledged call an answer).

`AuditLog` is the file across crashes. It is a sequence of tokens (a record,
a fragment of one, a line feed), because `writeln!` writes the record before the
line feed. A record is its sequence, an identity that stands for its digest, and its
predecessor's identity. `Load`, `Quarantine`, `Truncate`, `Resume` are a start;
`RecordRow`, `WriteRecord`, `WriteNewline`, `SyncBatch`, `SkipMissing` a run;
`Crash` keeps any prefix that includes what was synced and may cut the last
record. Durability is the default, `FsyncPerBatch`. `Line(k)` numbers the complete
lines by counting those before them.

### GuestRequest

`handle_request`, cut at its accesses to shared state: the buffer semaphore
(`BufferRequest`), the pool's mutex (`AcquireSlot`, `DropPermit`), the worker's
failed flag (`Preflight`), the guest call (`GuestAnswers`, `GuestFails`,
`GuestPanics`), the stream's lock (`Commit`), and `persist` (`Deliver`,
`PersistSucceeds`, `PersistFails`). The rows of a request are one row. Of the
audit worker there is what a request can tell: `WriteRow` and `SkipMissing` move
the frontier `next`, over a row in the file or over one that did not arrive in
time, and `PersistSucceeds` needs only that the frontier has passed, so that a
skipped row is acknowledged as in the code. `skipped` are the sequences that
`note_gap` counts and names on stderr. The worker may fail and a drain begin at
any point; a guest call may last for ever. The policy is chosen in `Init`.

### Server

The accept loop, one task per connection, the signal and the drain. `at[c]` is
where a connection's task is: `spawned`, `handshake`, the loop of
`serve_connection` (`top`, `head`, `handle`, `running` or `timedOut`, `respond`),
`session` (SSE, WebSocket, streaming, HTTP/2), `closing`, `stopping`, `ended` or
`aborted`. One action per await: a step begins after one and ends at the next.
`Admit` is the global bucket and the ledger; `Release` and `StopAfterTheBound` the
end of every task. Deadlines may pass at any moment, what a request asks for and
a handler answers is a choice, and the signal is polled, so that what is already
arriving may win. The accept limit is always set; without one `AcceptLimit` is
never reached.

### HostQueue

One queue of the in-memory backend. A consumer's call is two actions: it reads
the clock (`ReadClock`) and takes the lock later, so that calls take effect in
another order than their readings. Every call begins with `Reap`, which returns
expired leases to the line under fresh identifiers. A consumer may name any
identifier it was ever given: it retries, or answers late.

### SinkLane

The outputs of the requests of one tenant and the thread of one sink. A write
is its escaped length, 0 stands for a flush. `poll_write` is cut where another
thread can come between: the quota (`Poll`), the tenant's counter of bytes in
flight (`Admit` loads it, `Hold` adds to it), `try_send` (`Send`), `park`
(`Park`). The lane takes messages into a batch, writes it, releases the guards
(`WriteBatch`, `TakeFlush`) and then wakes the parked writers (`WakeAll`). A
request may end between two polls (`DropWriter`); its budget is dropped when the
lane holds no guard of it any more (`DropBudget`).

### Sums

A sum of naturals as the number of its units, used by `GuestRequest` and
`SinkLane`: it needs no recursion, and what a sum does follows from theorems on
cardinality.

## Runs

Definitions named "Faulty form of ..." change one definition the way a plausible
mistake would; for every property below one of them makes TLC report it violated.

| run | bounds | checks |
|---|---|---|
| generations | 3 names for 2 entries, 2 clients, 1 retired generation, counter ends at 6 | types, leases accounted for, limits, removal wins, latest wins, only remove stops service |
| live_app | 2 coordinators, 2 requests, 1 retired generation, counter ends at 9 | no leaked reservation, the preparation mutex is released |
| dev_reload | a watched source, one outside the roots, the manifest, 2 saves each, 1 request | no mixed build is activated, a saved manifest bars activation, edits settle |
| audit_appender | 2 requests of 1 or 2 rows, 2 persist calls each, queue of 2, batch of 2, 4 sequences | types, order, no stranded row, accounting, honest clean report, no hidden loss, shutdown ends, the abstract trail is implemented |
| audit_log | 5 rows, 3 crashes, 1 orphan, window of 1 | acknowledged rows stay in the file, recovered order, frontier never ahead, quarantine before truncation |
| guest_request | 3 requests, 1 slot, 2 bytes, bodies of 1 or 2 bytes | slots and bytes conserved, no answer without its row in the file or given up on record, drops counted, a blocked guest call holds up no other request |
| host_queue | 2 consumers, depth 3, batches of 2, 4 messages, 5 identifiers, clock to 2 with leases of 1 | types and depth, nothing lost or doubled, ended identifiers stay dead, redelivered first |
| sink_lane | 2 outputs, writes of 1 or 2 bytes, 2 calls each and 1 request after another, queue of 1, batch of 2 | types and quotas, bytes in flight exact, losses recorded, flushes answered |
| server | 3 connections, tenants with ceilings 1 and 2, global budget 1, accept bound 2, 2 requests per connection | ledger exact, bound honoured, one request after the signal, the drain ends |
| audit_log_reread, sink_lane_refund, sink_lane_wake | the smallest that show it | a documented promise the code does not keep (below) |

The bounds let every limit be reached: more names than entries, more requests
than slots and bytes, a queue that fills, a batch smaller than what is buffered, a
counter that runs out, a window smaller than the log, a crash during the recovery
from a crash, two expiries of one message, a connection accepted past the bound, a
save between any two reads of a build. Names and clients of `Generations` are symmetric, and so are the consumers of
`HostQueue`; the temporal formulas of these runs are action properties, for which
symmetry is sound. Runs with
liveness use no symmetry.

Deadlock is not checked where the system may stop: the appender after shutdown, a
log with no crash left, requests that have all been answered, a stopped server, a
development server that was interrupted, a queue or lane at the bound of its
messages. The runs of the registry and the live app check it.

Fairness: `LiveApp` assumes that a coordinator which has begun a replacement
proceeds (it is a thread, and every call in it returns); `AuditAppender` that the
worker thread runs; `GuestRequest` that a request's thread runs outside its guest
call, where the persist timeout ends every wait. It assumes nothing of the guest
call, because "an epoch cannot interrupt a blocking host import"
(guest_handler.rs:1839), nor of the audit worker: `EveryRequestEnds` says that a
request is answered or is in a guest call that never returns. `DevReload` assumes
that the watch thread runs and that a tree which is polled again and again is found quiet
(the debounce window is a fixed time and the editor rests in the end); `SinkLane`
that the lane's thread runs and the executor runs every task that is not asleep;
`Server` only that the accept loop watches the signal and the drain's timer
fires: nothing is assumed of peers and handlers. (A handler runs on the blocking
pool, server.rs:2245, and so does the guest call of a WebSocket message,
guest_ws.rs:158, so that the connection's task is always at an await when it is
aborted.) No fairness is assumed of clients, drains, failures or the arrival of
requests.

## Where the code and its documentation disagree

- `LogReread` (audit_sink.rs:2500): a crash between record and line feed is not
  seen as torn; the next record joins the line and disappears at the next start.
  `AckedBytesKept` holds: the bytes are there.
- `TenantUseExact` (guest_output.rs:1553): a write that is refused for its bytes
  in flight refunds the output's quota and not the tenant's, so that retries use
  up the tenant's ceiling without writing anything.
- `ParkedIsWoken` (sink_lane.rs:291): a writer that parks after the wake-up of
  the write that made room sleeps until another message passes through the lane.

Behaviours met while modelling that a reader of the docs may not expect; the models
contain them and no run is kept for them:

- `remove()` between the acquire and the reserve of a replacement (live.rs:127) is
  undone by the publication. The registry itself is right (`RemovalWins`).
- A row skipped by the stall timeout and then dropped as late (audit_sink.rs:2332)
  is acknowledged all the same, and the answer leaves under `FailClosed` too. "A
  returned request has its evidence durable" (guest_handler.rs:941) holds of rows
  that arrive in time only; "never 'your rows are durable'" (audit_sink.rs:1492)
  is the accurate text. `AckNeverHidesLoss` and `NoAnswerWithoutEvidence` are what
  remains true: such a row is in the counters.
- After one batch the worker blocks on the queue (audit_sink.rs:2157) although it
  may hold more contiguous rows, and the request that sent them waits.
- A panic in the guest call returns the slot as idle (guest_handler.rs:1813).
- The answer of a handler that timed out says keep-alive if the client asked for
  it, and the connection is closed (server.rs:2991).
- `reject` keeps the delivery's identifier (host_queue.rs:513), so that a late retry
  by the consumer that rejected can complete the next consumer's delivery;
  `EndedIdsStayDead` speaks of expired and acknowledged identifiers. Expired
  leases return in the order of their identifiers, which is not always the order of their
  deadlines, because the clock is read before the lock is taken.
- A save between the first build and the first snapshot of `qqqai dev` (dev.rs:418,
  425) starts no build (`missed` in `EditsSettle`), and the first generation is
  not checked for a mixture (revision 1 in `NoMixedBuild`). With `--watch`, a
  change outside the roots makes a candidate stale and "waiting for the next
  build" (dev.rs:623) waits for another change (`ChangedOutsideRoots`).
- `poll_flush` polls a marker it already sent without looking at the failure slot
  again (guest_output.rs:1611).

## Proofs

Eight modules, one per modelled component (`DevReloadProofs` holds the live app
too, `AuditAppenderProofs` the abstract trail). Every safety property a passing
run checks, invariant or action property, is proved for all values of the
constants. The only assumptions are the `ASSUME`s of the component modules:
limits are naturals (positive where the code has a positive constant), and, for
the development server, that the watch thread is the only coordinator and the
manifest is not a source. The inductive invariants were checked with TLC on the
runs' instances before they were proved.

**`GenerationsProofs`**: all properties of `Generations`. `IInv` adds to them that
the entries and the retired list are finite (`FiniteOK`), and the order of the
revisions in the state (`RevisionOrder`): the counter is past all of them, an
entry's requested revision is no older than the last reservation of its name and
newer than its last removal, and no token outruns the last reservation.
`LatestWins` and `OnlyRemoveStopsService` follow from `IInv` step by step.

**`DevReloadProofs`**: every step of the live app is a step of its registry or
leaves it alone (`LiveStepIsRegistryStep`), so the registry's `IInv` carries over
(`LiveKeepsRegistry`). `LiveInv` adds that the mutex is held exactly by the
coordinator inside `replace_checked` and that a reservation without an active
generation belongs to it, with its token; `NoLeakedReservation` follows. In turn
every step of `qqqai dev` is one of the live app. `DevInv` is about the reads:
what was read is between the baseline and the disk, and the tree that was on
disk when the build began lies between the baseline and all that the verifying
snapshot has read (`TreeBetween`). When baseline and snapshot agree, that tree
is the build's, which is `NoMixedBuild`. `BarrierHolds` says what evidence of a
saved manifest each phase still has ahead of it, which gives `PolicyBarrier`.

**`AuditAppenderProofs`**: `TypeOK`, `FileInOrder`, `NoStrandedRow` and
`RowsAccounted` first. `IInv` adds that rows in the state were committed
(`RowsCommitted`) and that everything in the file is behind the frontier
(`FileBehind`): without it the order of the file would not survive the next
batch. The lemmas `AppendOrdered`, `PendingFinite` and `RunTaken` say what
appending a run does to the order and to the number of buffered rows. Then
`AckNeverHidesLoss`, `CleanReportComplete`, and that the appender implements
`AuditTrail` (`AppenderImplementsTrail`). `TrailInv` adds that work in the queue
and barriers carry claimed sequences (`Claims`), that the frontier passes a sequence
only with the row in the file or a loss on record (`FrontierCovered`), which is what
makes an answered barrier honest, and that a row that was handed over is in the
queue, buffered, in the file, or shows in the counters (`HandedAccounted`). The
refinement has one step per action: a commit is a `Claim`, what the worker does
to file, counters and barriers a `Record`, everything else a stutter.

**`AuditLogProofs`**: `AckedBytesKept`, `RecoveredInOrder`, `FrontierNeverAhead`,
`QuarantinedFirst` and types. `Shape` is what every prefix of the file has, so that
crashes keep it: a line feed ends a record, a fragment is last, and the records
that lines read as are in sequence order. A record that joined another's line (see
`LogReread`) has no place in that order. `TornIs` and `CompleteIs` say what the
definitions of `load` amount to on such a file: at most one torn line, which ends in
a fragment. Since `fsync` covers whole lines (`SyncedLines`), the torn line is
beyond it (`TornUnsynced`) and truncation cannot reach an acknowledged row.
`RecordsRead` is what `load` returns; `ReadBack` keeps it true of the truncated
file, so that a resumed stream numbers past everything the log reads as
(`RowsAhead`). The frontier opens at the number of records plus one, which is safe
because an increasing sequence reaches at least its length (`OrderedReaches`).

**`GuestRequestProofs`**: `SlotsConserved`, `NoAnswerWithoutEvidence` and
`DropsCounted`. `IInv` adds that the sets counted are finite and that a request
has its outcome and its sequence only from the point on where the code sets them
(`InOrder`): without it an early return could end a request whose outcome was never
audited. `FrontierCovered` says that the frontier passes a sequence only with its
row in the file or given up on record, which is what an answered barrier stands
for; `NothingOwed` that the worker's steps only shorten the list of answers
without a row. `BudgetConserved` has an invariant of its own, `BudgetInv`: a request
holds no permit before it takes one (`PermitsInOrder`), so that each step moves
permits between the semaphore and one request (`PermitsMove`).

**`ServerProofs`**: `LedgerExact`, `BoundHonoured`, `OneRequestAfterSignal` and
types, for any finite set of connections, any tenants, ceilings and
bounds. `IInv` adds that a task that holds a slot has a tenant (`TenantKnown`),
that a connection which may still answer has requests left (`RequestsLeft`), that
a draining server is signalled (`DrainSignalled`), and that a request after the
signal is the last of its connection (`LateIsLast`). `SlotsUntouched` and
`MoveOn` cover the steps of a connection that holds its slot; `AdmitStep` and
`ReleaseStep` are where the counted set changes.

**`HostQueueProofs`**: `TypeOK`, `NothingLostOrDoubled`, `EndedIdsStayDead` and
`RedeliveredFirst`. Every call first reaps and then does its own work, so the
invariant `Sound` is stated of any line and leases, also those between the two:
an identifier names one message and has not ended, a message is there once, leased
messages count a delivery, and the line is ordered. `ReapSound` proves it of the
reaped queue (`RankNumbers`: the expired leases are numbered without a gap), and the
lemmas of the calls start from there.

**`SinkLaneProofs`**: `TypeOK`, `InFlightExact` and `LossRecorded`. The sums over
queue and batch change with every message; `SumAdd`, `SumRemove`, `SumUpdate` and
`SumShift` say how. `IInv` adds that a writer between admission and guard holds no
bytes (`NothingHeld`): a guard that replaced another would lose its bytes.

Only model-checked: liveness (`PreparationEnds`, `EditsSettle`,
`ShutdownTerminates`, `EveryRequestEnds`, `FlushAnswered`, `DrainTerminates`), which
the prover does not handle. The three documented promises that the code does not
keep are violations TLC finds.

## Not modelled

Byte-level parsing and formatting (HTTP/1, HPACK, WebSocket frames, manifests,
SemVer), cryptography and TLS, the WebAssembly engine, the command line, vendored
and generated code: no concurrency or failure protocol of QQQ's own. `PROJECT.json`
gives the reason for each component. Of the modelled parts: poisoned locks,
the durability levels other than the default, keyed digests, metrics, a panic inside
a connection task (its slot would stay counted), what a WebSocket, SSE or HTTP/2
session does until it ends, the output path without a runtime (`direct_write`),
ignore rules and the options `--once` and the reload limit of `qqqai dev`.

## Plan

Done: the registry, the live app and the development server on it; the appender, its
abstract trail and the log file; the request path; the server; the queue; the lanes.

1. Proofs about the components below as they are modelled; the safety of those
   modelled so far is proved.
2. `RateLimits` (limits.rs) against a reference definition, `HandleTable`
   (handles.rs), the close handshake of `ws_conn.rs`, the key-value store.
3. `GuestRequest` shown to implement `AuditTrail`, as the appender is.
