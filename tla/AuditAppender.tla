---------------------------- MODULE AuditAppender ----------------------------
(***************************************************************************)
(* The persist path of the capability audit log: AuditAppender and its      *)
(* worker thread in crates/qqq-host/src/audit_sink.rs, driven by the        *)
(* requests of crates/qqq-run/src/guest_handler.rs.                        *)
(*                                                                         *)
(* A request commits its rows under the stream's lock, which gives them    *)
(* consecutive sequence numbers, then hands them one by one to a bounded   *)
(* queue, follows them with a barrier and waits for the worker's answer.   *)
(* Requests interleave, so rows arrive out of order; the worker buffers    *)
(* them, writes contiguous runs in batches, skips a sequence that stays    *)
(* missing past the stall timeout and stops for good on a write error.     *)
(*                                                                         *)
(* A row is its sequence number.  Clocks are left out: a wait that may     *)
(* reach its timeout does so at any moment.                                *)
(***************************************************************************)
EXTENDS Integers, Sequences, FiniteSets

CONSTANTS
    Producers,   \* the requests
    MaxRows,     \* the most rows of one request
    MaxSequence, \* bound: rows committed in a behaviour
    MaxAttempts, \* bound: persist calls of one request for its rows
    QueueBound,  \* AppenderConfig::queue_bound
    BatchSize    \* AppenderConfig::batch_size

ASSUME AppenderAssumption ==
    /\ MaxRows \in Nat \ {0}
    /\ MaxSequence \in Nat
    /\ MaxAttempts \in Nat \ {0}
    /\ QueueBound \in Nat \ {0}
    /\ BatchSize \in Nat \ {0}

VARIABLES
    \* the stream and the requests
    last,      \* the last sequence number the stream assigned
    call,      \* where each request is in persist
    first,     \* the sequence of each request's first row
    count,     \* how many rows it has
    sent,      \* how many of them this persist call has handed off
    attempt,   \* how often the request has called persist
    queue,     \* the sync_channel between the requests and the worker
    senders,   \* "live", or "gone" once shutdown or drop took the last one
    \* the worker
    at,        \* where the worker is in append_loop
    pending,   \* WorkerState::pending
    next,      \* WorkerState::next, the frontier
    written,   \* WorkerState::written
    barriers,  \* WorkerState::barriers
    timer,     \* "armed" when WorkerState::stalled_since is set, else "off"
    file,      \* the rows in the file
    stats,     \* AppenderStats
    handed     \* history: the rows some send delivered

requestVars == <<last, call, first, count, sent, attempt>>
workerVars == <<at, pending, next, written, barriers, timer, file, stats>>
vars == <<requestVars, queue, senders, workerVars, handed>>

Sequences1 == 1..MaxSequence
Counters == {"submitted", "persisted", "failedBatches", "unpersisted", "late", "resent"}
Work ==
    [kind : {"row"}, through : Sequences1]
    \cup [kind : {"barrier"}, through : Sequences1, who : Producers, attempt : 0..MaxAttempts]
Row(s) == [kind |-> "row", through |-> s]
Barrier(p) == [kind |-> "barrier", through |-> first[p] + count[p] - 1,
               who |-> p, attempt |-> attempt[p]]
InFile == {file[i] : i \in 1..Len(file)}
RowsOf(p) == first[p] .. (first[p] + count[p] - 1)

Calls == {"idle", "sending", "waiting", "acked", "failed", "appended"}

RequestsTyped ==
    /\ last \in 0..MaxSequence
    /\ call \in [Producers -> Calls]
    /\ first \in [Producers -> Nat]
    /\ count \in [Producers -> 0..MaxRows]
    /\ sent \in [Producers -> 0..MaxRows]
    /\ attempt \in [Producers -> 0..MaxAttempts]

QueueTyped ==
    /\ queue \in Seq(Work)
    /\ Len(queue) <= QueueBound
    /\ senders \in {"live", "gone"}
    /\ handed \in SUBSET Sequences1

WorkerTyped ==
    /\ at \in {"recv", "drain", "write", "closing", "stopped"}
    /\ pending \in SUBSET Sequences1
    /\ next \in Nat
    /\ written \in Nat
    /\ barriers \in SUBSET Work
    /\ timer \in {"off", "armed"}
    /\ file \in Seq(Nat)
    /\ stats \in [Counters -> Nat]

TypeOK == RequestsTyped /\ QueueTyped /\ WorkerTyped

(* AuditAppender::spawn on an empty file: the frontier is its first row. *)
Init ==
    /\ last = 0
    /\ call = [p \in Producers |-> "idle"]
    /\ first = [p \in Producers |-> 0]
    /\ count = [p \in Producers |-> 0]
    /\ sent = [p \in Producers |-> 0]
    /\ attempt = [p \in Producers |-> 0]
    /\ queue = <<>>
    /\ senders = "live"
    /\ at = "recv"
    /\ pending = {}
    /\ next = 1
    /\ written = 1
    /\ barriers = {}
    /\ timer = "off"
    /\ file = <<>>
    /\ stats = [c \in Counters |-> 0]
    /\ handed = {}

-----------------------------------------------------------------------------
(* The requests. *)

(* AuditHandle::commit, then persist begins: the rows of one request get
   consecutive sequences under the stream's lock. *)
Commit(p, n) ==
    /\ call[p] = "idle"
    /\ senders = "live"
    /\ last + n <= MaxSequence
    /\ last' = last + n
    /\ first' = [first EXCEPT ![p] = last + 1]
    /\ count' = [count EXCEPT ![p] = n]
    /\ sent' = [sent EXCEPT ![p] = 0]
    /\ attempt' = [attempt EXCEPT ![p] = 1]
    /\ call' = [call EXCEPT ![p] = "sending"]
    /\ UNCHANGED <<queue, senders, workerVars, handed>>

(* Faulty form of HasRoom: one more than the bound fits. *)
HasRoomAtLimit == Len(queue) <= QueueBound

(* sync_channel(queue_bound): try_send delivers, otherwise it returns Full. *)
HasRoom == Len(queue) < QueueBound

(* send_before: try_send succeeds while the queue has room; the last send of
   a persist call is its barrier. *)
Send(p) ==
    /\ call[p] = "sending"
    /\ at # "stopped"
    /\ HasRoom
    /\ IF sent[p] < count[p]
       THEN LET s == first[p] + sent[p] IN
            /\ queue' = Append(queue, Row(s))
            /\ sent' = [sent EXCEPT ![p] = @ + 1]
            /\ handed' = handed \cup {s}
            /\ UNCHANGED call
       ELSE /\ queue' = Append(queue, Barrier(p))
            /\ call' = [call EXCEPT ![p] = "waiting"]
            /\ UNCHANGED <<sent, handed>>
    /\ UNCHANGED <<last, first, count, attempt, senders, workerVars>>

(* WorkerTimeout, on the handoff (only while the queue is full) or on the
   answer, and WorkerGone once the worker's end of the channels is gone. *)
Fail(p) ==
    /\ \/ call[p] = "sending" /\ (~HasRoom \/ at = "stopped")
       \/ call[p] = "waiting"
    /\ call' = [call EXCEPT ![p] = "failed"]
    /\ UNCHANGED <<last, first, count, sent, attempt, queue, senders, workerVars, handed>>

(* AuditAppender::append delivers a row and asks for no answer. *)
Appended(p) ==
    /\ call[p] = "sending"
    /\ sent[p] = count[p]
    /\ call' = [call EXCEPT ![p] = "appended"]
    /\ UNCHANGED <<last, first, count, sent, attempt, queue, senders, workerVars, handed>>

(* A caller may submit the rows of a failed persist again. *)
Resubmit(p) ==
    /\ call[p] = "failed"
    /\ senders = "live"
    /\ attempt[p] < MaxAttempts
    /\ attempt' = [attempt EXCEPT ![p] = @ + 1]
    /\ sent' = [sent EXCEPT ![p] = 0]
    /\ call' = [call EXCEPT ![p] = "sending"]
    /\ UNCHANGED <<last, first, count, queue, senders, workerVars, handed>>

(* shutdown and drop take the appender by value, so no persist is running. *)
Close ==
    /\ senders = "live"
    /\ \A p \in Producers : call[p] \notin {"sending", "waiting"}
    /\ senders' = "gone"
    /\ UNCHANGED <<requestVars, queue, workerVars, handed>>

-----------------------------------------------------------------------------
(* The worker. *)

(* Faulty form of SortRow: a row behind the frontier is buffered. *)
SortRowBehind(s) ==
    IF s < written \/ s \in pending
    THEN /\ stats' = [stats EXCEPT !["resent"] = @ + 1]
         /\ UNCHANGED pending
    ELSE /\ stats' = [stats EXCEPT !["submitted"] = @ + 1]
         /\ pending' = pending \cup {s}

(* sort_work on a row: a duplicate, a row the frontier has skipped, or a row
   to buffer. *)
SortRow(s) ==
    \/ /\ s < written \/ s \in pending
       /\ stats' = [stats EXCEPT !["resent"] = @ + 1]
       /\ UNCHANGED pending
    \/ /\ s >= written /\ s \notin pending /\ s < next
       /\ stats' = [stats EXCEPT !["late"] = @ + 1]
       /\ UNCHANGED pending
    \/ /\ s >= written /\ s \notin pending /\ s >= next
       /\ stats' = [stats EXCEPT !["submitted"] = @ + 1]
       /\ pending' = pending \cup {s}

Sort(work) ==
    \/ /\ work.kind = "row"
       /\ SortRow(work.through)
       /\ UNCHANGED barriers
    \/ /\ work.kind = "barrier"
       /\ barriers' = barriers \cup {work}
       /\ UNCHANGED <<pending, stats>>

(* rx.recv() returns an item, and the try_recv loop takes more of them until
   the queue is empty or two batches of rows are buffered. *)
Receive ==
    /\ queue # <<>>
    /\ queue' = Tail(queue)
    /\ Sort(Head(queue))
    /\ \/ at = "recv" /\ at' = "drain"
       \/ at = "drain" /\ at' = IF Cardinality(pending') >= 2 * BatchSize
                                THEN "write" ELSE "drain"
    /\ UNCHANGED <<requestVars, senders, next, written, timer, file, handed>>

(* The queue is drained, or enough is buffered, or all senders are gone. *)
Writing ==
    \/ at = "write"
    \/ at = "drain" /\ queue = <<>>
    \/ at = "closing" /\ pending # {}

(* write_frontier takes the contiguous run at the frontier, up to one batch. *)
IsRun(k) ==
    /\ \A i \in 0..(k - 1) : next + i \in pending
    /\ k = BatchSize \/ next + k \notin pending

AfterWrite == at' = IF at = "closing" THEN "closing" ELSE "recv"

(* Faulty form of AppendToFile: the file is opened for writing, not appending. *)
OverwriteFile(k) == file' = [i \in 1..k |-> next + i - 1]

(* append_batch through the file opened for appending. *)
AppendToFile(k) == file' = file \o [i \in 1..k |-> next + i - 1]

(* Faulty form of Cursor: the frontier stays on the last row written. *)
CursorOnLast(k) == next + k - 1

(* The cursor after a run of k rows. *)
Cursor(k) == next + k

(* Faulty form of ClearBarriers: a barrier at the frontier is answered too. *)
ClearBarriersThrough(frontier) ==
    LET passed == {b \in barriers : b.through <= frontier} IN
    /\ barriers' = barriers \ passed
    /\ call' = [p \in Producers |->
                  IF /\ call[p] = "waiting"
                     /\ \E b \in passed : b.who = p /\ b.attempt = attempt[p]
                  THEN "acked" ELSE call[p]]

(* clear_barriers: answer the barriers the frontier has passed; a caller that
   gave up on this attempt has dropped its end of the channel. *)
ClearBarriers(frontier) ==
    LET passed == {b \in barriers : b.through < frontier} IN
    /\ barriers' = barriers \ passed
    /\ call' = [p \in Producers |->
                  IF /\ call[p] = "waiting"
                     /\ \E b \in passed : b.who = p /\ b.attempt = attempt[p]
                  THEN "acked" ELSE call[p]]

(* write_frontier writes a run: FrontierOutcome::Wrote. *)
Wrote(k) ==
    /\ Writing
    /\ IsRun(k)
    /\ AppendToFile(k)
    /\ pending' = pending \ (next .. (next + k - 1))
    /\ next' = Cursor(k)
    /\ written' = Cursor(k)
    /\ timer' = IF at = "closing" THEN timer ELSE "off"
    /\ stats' = [stats EXCEPT !["persisted"] = @ + k]
    /\ ClearBarriers(Cursor(k))
    /\ AfterWrite
    /\ UNCHANGED <<last, first, count, sent, attempt, queue, senders, handed>>

(* Faulty form of Lost: the rows of the failed batch are not counted. *)
LostBehindBatch(k, done) == Cardinality(pending) - k

(* fail_worker: what is buffered and what the batch did not complete. *)
Lost(k, done) == Cardinality(pending) - done

(* append_batch fails after `done` complete rows (all of them when the flush
   or the sync failed): fail_worker counts the rest and the worker returns,
   which drops its end of the queue and the barriers with it. *)
WriteFails(k, done) ==
    /\ Writing
    /\ IsRun(k)
    /\ done <= k
    /\ AppendToFile(done)
    /\ pending' = {}
    /\ stats' = [stats EXCEPT !["failedBatches"] = @ + 1,
                              !["unpersisted"] = @ + Lost(k, done)]
    /\ at' = "stopped"
    /\ queue' = <<>>
    /\ barriers' = {}
    /\ UNCHANGED <<requestVars, senders, next, written, timer, handed>>

(* Faulty form of SkipMissing: the skipped sequence is not counted. *)
SkipMissingSilently ==
    /\ next' = next + 1
    /\ UNCHANGED stats

(* A sequence that never arrived is counted and the frontier moves on. *)
SkipMissing ==
    /\ next' = next + 1
    /\ stats' = [stats EXCEPT !["unpersisted"] = @ + 1]

(* FrontierOutcome::GapAt in the loop: barriers behind the frontier are
   answered, then note_gap arms the stall timer while rows wait behind the
   gap, and skips the missing sequence once the timer has run out. *)
Gap ==
    /\ Writing
    /\ at # "closing"
    /\ next \notin pending
    /\ ClearBarriers(next)
    /\ \/ /\ pending = {}
          /\ timer' = "off"
          /\ UNCHANGED <<next, stats>>
       \/ /\ pending # {}
          /\ timer' = "armed"
          /\ UNCHANGED <<next, stats>>
       \/ /\ pending # {}
          /\ timer = "armed"
          /\ SkipMissing
          /\ timer' = "off"
    /\ at' = "recv"
    /\ UNCHANGED <<last, first, count, sent, attempt, queue, senders, pending, written, file, handed>>

(* rx.recv() fails: the senders are gone and the queue is empty. *)
Disconnected ==
    /\ at = "recv"
    /\ senders = "gone"
    /\ queue = <<>>
    /\ at' = "closing"
    /\ UNCHANGED <<requestVars, queue, senders, pending, next, written, barriers,
                   timer, file, stats, handed>>

(* Faulty form of ClosingGap: the drain waits for the missing sequence. *)
ClosingGapWaits ==
    /\ at = "closing"
    /\ pending # {}
    /\ next \notin pending
    /\ UNCHANGED vars

(* drain_remaining: no sender can fill a gap any more. *)
ClosingGap ==
    /\ at = "closing"
    /\ pending # {}
    /\ next \notin pending
    /\ SkipMissing
    /\ UNCHANGED <<requestVars, queue, senders, at, pending, written, barriers,
                   timer, file, handed>>

(* Stragglers are answered (none is waiting) and the worker ends. *)
ClosingDone ==
    /\ at = "closing"
    /\ pending = {}
    /\ at' = "stopped"
    /\ barriers' = {}
    /\ UNCHANGED <<requestVars, queue, senders, pending, next, written, timer,
                   file, stats, handed>>

(* Faulty form of DrainedCleanly: only the two row counters are compared. *)
DrainedIfPersisted == stats["persisted"] = stats["submitted"]

(* drained_cleanly, the verdict of the shutdown report. *)
DrainedCleanly ==
    /\ stats["failedBatches"] = 0
    /\ stats["unpersisted"] = 0
    /\ stats["late"] = 0
    /\ stats["persisted"] = stats["submitted"]

Worker ==
    \/ Receive \/ Gap \/ Disconnected \/ ClosingGap \/ ClosingDone
    \/ \E k \in 1..BatchSize :
         Wrote(k) \/ \E done \in 0..BatchSize : WriteFails(k, done)

Request(p) ==
    \/ \E n \in 1..MaxRows : Commit(p, n)
    \/ Send(p) \/ Fail(p) \/ Appended(p) \/ Resubmit(p)

Next == (\E p \in Producers : Request(p)) \/ Close \/ Worker

(* The worker is a thread of its own. *)
Spec == Init /\ [][Next]_vars /\ WF_vars(Worker)

-----------------------------------------------------------------------------
(* Properties. *)

(* However requests interleave, time out and resubmit, the file holds the
   rows in sequence order and none of them twice. *)
FileInOrder == \A i, j \in 1..Len(file) : i < j => file[i] < file[j]

(* A buffered row is never behind the frontier, where no write would reach it
   and the drain at shutdown would wait for it. *)
NoStrandedRow == \A s \in pending : s >= next

(* Every row the worker accepted is in the file, still buffered or counted as
   unpersisted, a batch that failed part of the way included. *)
RowsAccounted ==
    stats["submitted"] <= Len(file) + Cardinality(pending) + stats["unpersisted"]

(* A clean shutdown report means that every row ever delivered to the queue is
   in the file. *)
CleanReportComplete ==
    at = "stopped" /\ senders = "gone" /\ DrainedCleanly => handed \subseteq InFile

(* A request whose persist succeeded although one of its rows is not in the
   file shows in the counters: a loss is never silent. *)
AckNeverHidesLoss ==
    \A p \in Producers :
        call[p] = "acked" /\ ~(RowsOf(p) \subseteq InFile) => stats["unpersisted"] > 0

(* shutdown joins the worker, which ends whatever is missing from the queue. *)
ShutdownTerminates == senders = "gone" ~> at = "stopped"

(* What the abstract trail sees of the appender. *)
Trail == INSTANCE AuditTrail WITH
    Requests <- Producers,
    assigned <- last,
    rows <- [p \in Producers |-> RowsOf(p)],
    trail <- file,
    losses <- stats["unpersisted"],
    answered <- {p \in Producers : call[p] = "acked"}

(* The appender implements the abstract trail: each of its steps is a claim, an
   extension of the trail by later rows, or nothing, and a request is answered
   only with its rows in the file or a loss on record. *)
ImplementsTrail == Trail!Spec
=============================================================================
