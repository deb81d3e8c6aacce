----------------------------- MODULE GuestRequest -----------------------------
(***************************************************************************)
(* The life of a request in crates/qqq-run/src/guest_handler.rs            *)
(* (handle_request): the shared buffer budget, the instance pool of        *)
(* crates/qqq-host/src/pool.rs, the guest call, and the audit row whose    *)
(* persist the answer waits for.                                           *)
(*                                                                         *)
(* Request threads interleave with each other, with the audit worker and   *)
(* with the start of a drain.  A step is what happens between two accesses *)
(* to shared state (the semaphore, the pool's mutex, the worker's failed   *)
(* flag, the stream's lock, the worker's queue).  A body is its size; what *)
(* the guest computes is its outcome.  An audit file is configured.  The   *)
(* rows of a request are one row, which stands for its consecutive         *)
(* sequences, and of the worker there is only what a request can tell: the *)
(* frontier that writes and skips, and that answers the barriers it passed *)
(* (AuditAppender has its queue, batches, duplicates and shutdown).        *)
(***************************************************************************)
EXTENDS Integers, FiniteSets, Sums

CONSTANTS
    Requests,  \* one handle_request call each
    Capacity,  \* Pool::capacity, at least 1 (Pool::new)
    Budget,    \* BUFFER_BUDGET_BYTES
    Sizes      \* body sizes of requests and responses

ASSUME RequestAssumption ==
    /\ Capacity \in Nat \ {0}
    /\ Budget \in Nat
    /\ Sizes \subseteq Nat

VARIABLES
    pc,        \* where the request is in handle_request
    body,      \* bytes its request permit holds
    reply,     \* bytes its response permit holds
    outcome,   \* the settled outcome of the guest call
    answer,    \* what the client gets
    sequence,  \* the sequence the stream gave its row, 0 before the commit
    free,      \* permits left in the buffer semaphore
    inUse,     \* PoolState::in_use
    idle,      \* PoolState::idle
    draining,  \* PoolState::draining
    assigned,  \* the last sequence the stream gave out
    worker,    \* the audit worker: "up" or "failed"
    pending,   \* WorkerState::pending: rows delivered and not yet written
    next,      \* WorkerState::next, the frontier
    file,      \* the rows in the file
    skipped,   \* the sequences note_gap gave up, counted and named on stderr
    policy,    \* AuditFailurePolicy
    drops      \* audit_drops

requestVars == <<pc, body, reply, outcome, answer>>
poolVars == <<inUse, idle, draining>>
streamVars == <<sequence, assigned>>
workerVars == <<worker, pending, next, file, skipped>>
vars == <<requestVars, free, poolVars, streamVars, workerVars, policy, drops>>

Places == {"start", "buffered", "admitted", "running", "settled", "recording",
           "committed", "waiting", "done"}
Outcomes == {"none", "ok", "error", "shed", "panic"}
Answers == {"none", "overloaded", "busy", "unaudited", "served", "failed", "aborted"}

TypeOK ==
    /\ pc \in [Requests -> Places]
    /\ body \in [Requests -> {0} \cup Sizes]
    /\ reply \in [Requests -> {0} \cup Sizes]
    /\ outcome \in [Requests -> Outcomes]
    /\ answer \in [Requests -> Answers]
    /\ sequence \in [Requests -> Nat]
    /\ assigned \in Nat
    /\ free \in 0..Budget
    /\ inUse \in 0..Capacity
    /\ idle \in 0..Capacity
    /\ draining \in BOOLEAN
    /\ worker \in {"up", "failed"}
    /\ pending \subseteq Nat
    /\ next \in Nat
    /\ file \subseteq Nat
    /\ skipped \subseteq Nat
    /\ policy \in {"FailClosed", "FailOpenWithAlarm"}
    /\ drops \in Nat

Init ==
    /\ pc = [r \in Requests |-> "start"]
    /\ body = [r \in Requests |-> 0]
    /\ reply = [r \in Requests |-> 0]
    /\ outcome = [r \in Requests |-> "none"]
    /\ answer = [r \in Requests |-> "none"]
    /\ sequence = [r \in Requests |-> 0]
    /\ assigned = 0
    /\ free = Budget
    /\ inUse = 0
    /\ idle = 0
    /\ draining = FALSE
    /\ worker = "up"
    /\ pending = {}
    /\ next = 1
    /\ file = {}
    /\ skipped = {}
    /\ policy \in {"FailClosed", "FailOpenWithAlarm"}
    /\ drops = 0

GoTo(r, place) == pc' = [pc EXCEPT ![r] = place]

(* Faulty form of Return: the response permit outlives the call. *)
ReturnKeepingReply(r, with) ==
    /\ GoTo(r, "done")
    /\ answer' = [answer EXCEPT ![r] = with]
    /\ free' = free + body[r]
    /\ body' = [body EXCEPT ![r] = 0]
    /\ reply' = [reply EXCEPT ![r] = 0]

(* handle_request returns: both buffer permits are dropped. *)
Return(r, with) ==
    /\ GoTo(r, "done")
    /\ answer' = [answer EXCEPT ![r] = with]
    /\ free' = free + body[r] + reply[r]
    /\ body' = [body EXCEPT ![r] = 0]
    /\ reply' = [reply EXCEPT ![r] = 0]

(* Pool::release and Pool::discard: a held slot comes back, idle or not; with
   none held both report a bug and change nothing. *)
GiveBack(kept) ==
    /\ inUse' = IF inUse = 0 THEN 0 ELSE inUse - 1
    /\ idle' = IF kept /\ inUse > 0 THEN idle + 1 ELSE idle
    /\ UNCHANGED draining
Release == GiveBack(TRUE)
Discard == GiveBack(FALSE)

-----------------------------------------------------------------------------
(* try_acquire_many(request_len): never waits; a shed request ends here and
   holds no slot. *)
BufferRequest(r, n) ==
    /\ pc[r] = "start"
    /\ \/ /\ n <= free
          /\ free' = free - n
          /\ body' = [body EXCEPT ![r] = n]
          /\ GoTo(r, "buffered")
          /\ UNCHANGED <<reply, answer>>
       \/ n > free /\ Return(r, "overloaded")
    /\ UNCHANGED <<outcome, poolVars, streamVars, workerVars, policy, drops>>

(* Pool::acquire's refusals: a drain, or no slot left. *)
Admits == ~draining /\ inUse < Capacity

(* Faulty form of AcquireSlot: the request waits for a slot. *)
AcquireSlotWaits(r) ==
    /\ pc[r] = "buffered"
    /\ Admits
    /\ inUse' = inUse + 1
    /\ idle' = IF idle > 0 THEN idle - 1 ELSE idle
    /\ GoTo(r, "admitted")
    /\ UNCHANGED <<body, reply, answer, free, draining, outcome>>
    /\ UNCHANGED <<streamVars, workerVars, policy, drops>>

(* Pool::acquire under the pool's mutex; an idle slot is taken first. *)
AcquireSlot(r) ==
    /\ pc[r] = "buffered"
    /\ \/ /\ Admits
          /\ inUse' = inUse + 1
          /\ idle' = IF idle > 0 THEN idle - 1 ELSE idle
          /\ GoTo(r, "admitted")
          /\ UNCHANGED <<body, reply, answer, free, draining>>
       \/ ~Admits /\ Return(r, "busy") /\ UNCHANGED poolVars
    /\ UNCHANGED <<outcome, streamVars, workerVars, policy, drops>>

(* Faulty form of Preflight: the early return forgets the slot. *)
PreflightLeaky(r) ==
    /\ pc[r] = "admitted"
    /\ \/ /\ worker = "failed" /\ policy = "FailClosed"
          /\ Return(r, "unaudited")
          /\ UNCHANGED <<drops, poolVars>>
       \/ /\ worker = "failed" => policy # "FailClosed"
          /\ drops' = IF worker = "failed" THEN drops + 1 ELSE drops
          /\ GoTo(r, "running")
          /\ UNCHANGED <<body, reply, answer, free, poolVars>>
    /\ UNCHANGED <<outcome, streamVars, workerVars, policy>>

(* appender.is_failed() is read before the guest runs: FailClosed refuses the
   request (the permit's drop releases the slot), FailOpenWithAlarm counts. *)
Preflight(r) ==
    /\ pc[r] = "admitted"
    /\ \/ /\ worker = "failed" /\ policy = "FailClosed"
          /\ Return(r, "unaudited")
          /\ Release
          /\ UNCHANGED drops
       \/ /\ worker = "failed" => policy # "FailClosed"
          /\ drops' = IF worker = "failed" THEN drops + 1 ELSE drops
          /\ GoTo(r, "running")
          /\ UNCHANGED <<body, reply, answer, free, poolVars>>
    /\ UNCHANGED <<outcome, streamVars, workerVars, policy>>

(* serve_one returns an answer of m bytes, which needs its share of the budget
   or is shed; settle accepts the answer or refuses it at the boundary. *)
GuestAnswers(r, m) ==
    /\ pc[r] = "running"
    /\ GoTo(r, "settled")
    /\ \/ /\ m <= free
          /\ free' = free - m
          /\ reply' = [reply EXCEPT ![r] = m]
          /\ \E o \in {"ok", "error"} : outcome' = [outcome EXCEPT ![r] = o]
       \/ /\ m > free
          /\ outcome' = [outcome EXCEPT ![r] = "shed"]
          /\ UNCHANGED <<free, reply>>
    /\ UNCHANGED <<body, answer, poolVars, streamVars, workerVars, policy, drops>>

(* serve_one returns an error: a trap, a deadline, a failed instantiation. *)
GuestFails(r) ==
    /\ pc[r] = "running"
    /\ GoTo(r, "settled")
    /\ outcome' = [outcome EXCEPT ![r] = "error"]
    /\ UNCHANGED <<body, reply, answer, free, poolVars, streamVars, workerVars, policy, drops>>

(* serve_one panics: unwinding drops the permit, which nobody has tainted, and
   the buffer permits; the request ends without a row. *)
GuestPanics(r) ==
    /\ pc[r] = "running"
    /\ outcome' = [outcome EXCEPT ![r] = "panic"]
    /\ Return(r, "aborted")
    /\ Release
    /\ UNCHANGED <<streamVars, workerVars, policy, drops>>

(* The permit is tainted by a failed conversion, not by a shed one, and then
   dropped. *)
DropPermit(r) ==
    /\ pc[r] = "settled"
    /\ GoTo(r, "recording")
    /\ IF outcome[r] = "error" THEN Discard ELSE Release
    /\ UNCHANGED <<body, reply, outcome, answer, free, streamVars, workerVars, policy, drops>>

AnswerOf(r) ==
    CASE outcome[r] = "ok" -> "served"
      [] outcome[r] = "error" -> "failed"
      [] outcome[r] = "shed" -> "overloaded"

(* AuditHandle::record and commit: the row gets its sequence under the stream's
   lock. *)
Commit(r) ==
    /\ pc[r] = "recording"
    /\ assigned' = assigned + 1
    /\ sequence' = [sequence EXCEPT ![r] = assigned + 1]
    /\ GoTo(r, "committed")
    /\ UNCHANGED <<body, reply, outcome, answer, free, poolVars, workerVars, policy, drops>>

(* persist hands row and barrier over and the worker sorts them in; a row that
   the frontier has skipped fits nowhere and is dropped as late. *)
Deliver(r) ==
    /\ pc[r] = "committed"
    /\ worker = "up"
    /\ pending' = IF sequence[r] < next THEN pending ELSE pending \cup {sequence[r]}
    /\ GoTo(r, "waiting")
    /\ UNCHANGED <<body, reply, outcome, answer, free, poolVars, streamVars>>
    /\ UNCHANGED <<worker, next, file, skipped, policy, drops>>

(* clear_barriers: the frontier is past the row, whether it wrote or skipped it. *)
Passed(r) == sequence[r] < next

(* The worker answers the barrier: persist returns Ok and the answer leaves.  An
   answer that was sent is read also after the worker failed. *)
PersistSucceeds(r) ==
    /\ pc[r] = "waiting"
    /\ Passed(r)
    /\ Return(r, AnswerOf(r))
    /\ UNCHANGED <<outcome, poolVars, streamVars, workerVars, policy, drops>>

(* Faulty form of PersistFails: the error is counted under both policies. *)
PersistFailsOpen(r) ==
    /\ pc[r] \in {"committed", "waiting"}
    /\ drops' = drops + 1
    /\ Return(r, AnswerOf(r))
    /\ UNCHANGED <<outcome, poolVars, streamVars, workerVars, policy>>

(* Faulty form of PersistFails: the alarm is not counted. *)
PersistFailsQuietly(r) ==
    /\ pc[r] \in {"committed", "waiting"}
    /\ Return(r, IF policy = "FailClosed" THEN "unaudited" ELSE AnswerOf(r))
    /\ UNCHANGED <<outcome, poolVars, streamVars, workerVars, policy, drops>>

(* persist fails, by a failed worker or a timeout of the handoff or of the
   answer, also after the pre-flight had found the worker up. *)
PersistFails(r) ==
    /\ pc[r] \in {"committed", "waiting"}
    /\ \/ policy = "FailClosed" /\ Return(r, "unaudited") /\ UNCHANGED drops
       \/ policy # "FailClosed" /\ Return(r, AnswerOf(r)) /\ drops' = drops + 1
    /\ UNCHANGED <<outcome, poolVars, streamVars, workerVars, policy>>

-----------------------------------------------------------------------------
(* The audit worker. *)

(* write_frontier: the row at the frontier is durable and the frontier moves. *)
WriteRow ==
    /\ worker = "up"
    /\ next \in pending
    /\ file' = file \cup {next}
    /\ pending' = pending \ {next}
    /\ next' = next + 1
    /\ UNCHANGED <<requestVars, free, poolVars, streamVars, worker, skipped, policy, drops>>

(* Faulty form of SkipMissing: the skipped sequence is not on record. *)
SkipMissingSilently ==
    /\ worker = "up"
    /\ pending # {} /\ next \notin pending
    /\ next' = next + 1
    /\ UNCHANGED <<requestVars, free, poolVars, streamVars, worker, pending, file>>
    /\ UNCHANGED <<skipped, policy, drops>>

(* note_gap after the stall timeout: rows wait behind a sequence whose request
   is slow, or gave up before it delivered; the worker cannot tell which. *)
SkipMissing ==
    /\ worker = "up"
    /\ pending # {} /\ next \notin pending
    /\ skipped' = skipped \cup {next}
    /\ next' = next + 1
    /\ UNCHANGED <<requestVars, free, poolVars, streamVars, worker, pending, file>>
    /\ UNCHANGED <<policy, drops>>

(* The worker stops for good on a write error; what it buffered is lost.  (Rows a
   failed batch completed, of which nobody is told, are in AuditAppender.) *)
WorkerFails ==
    /\ worker = "up"
    /\ worker' = "failed"
    /\ pending' = {}
    /\ UNCHANGED <<requestVars, free, poolVars, streamVars, next, file, skipped>>
    /\ UNCHANGED <<policy, drops>>

(* Pool::begin_drain. *)
BeginDrain ==
    /\ ~draining
    /\ draining' = TRUE
    /\ UNCHANGED <<requestVars, free, inUse, idle, streamVars, workerVars, policy, drops>>

(* What the thread of a request does by itself. *)
Handler(r) ==
    \/ \E n \in Sizes : BufferRequest(r, n)
    \/ AcquireSlot(r) \/ Preflight(r) \/ DropPermit(r)
    \/ Commit(r) \/ Deliver(r) \/ PersistSucceeds(r) \/ PersistFails(r)

(* How the guest call ends, if it does. *)
GuestCall(r) ==
    \/ \E m \in Sizes : GuestAnswers(r, m)
    \/ GuestFails(r) \/ GuestPanics(r)

Step(r) == Handler(r) \/ GuestCall(r)

Worker == WriteRow \/ SkipMissing \/ WorkerFails

Next == (\E r \in Requests : Step(r)) \/ Worker \/ BeginDrain

(* A request runs on a thread of its own, and the persist timeout ends its wait
   for the worker.  Nothing is assumed of the guest call: the epoch deadline ends
   guest code, but an epoch cannot interrupt a blocking host import.  Nor is
   anything assumed of the worker. *)
Spec == Init /\ [][Next]_vars /\ \A r \in Requests : WF_vars(Handler(r))

-----------------------------------------------------------------------------
(* Properties. *)

Holders == {r \in Requests : pc[r] \in {"admitted", "running", "settled"}}

(* On every path (shed, refused, trapped, panicked, failed closed) the pool's
   count is the number of requests that hold a slot, and slots in use and idle
   never exceed the capacity. *)
SlotsConserved == inUse = Cardinality(Holders) /\ inUse + idle <= Capacity

(* No buffer permit is lost or returned twice. *)
BudgetConserved ==
    free + SumOf([r \in Requests |-> body[r] + reply[r]], Requests) = Budget

(* The request ended with what its guest call came to, or would have. *)
Settled(r) == pc[r] = "done" /\ outcome[r] \in {"ok", "error", "shed"}

(* The row is durable, or the worker said which row it gave up. *)
OnRecord(r) == sequence[r] \in file \cup skipped

(* Under FailClosed a client gets the outcome of a guest call only with its row
   in the file or the row's sequence among those the worker counted as lost,
   also when the worker fails after the pre-flight check, or skips the row while
   its request is slow and acknowledges it then.  (Its row alone is not promised:
   a barrier says that the frontier has passed.) *)
NoAnswerWithoutEvidence ==
    policy = "FailClosed" =>
        \A r \in Requests : Settled(r) => OnRecord(r) \/ answer[r] = "unaudited"

Unrecorded == {r \in Requests : Settled(r) /\ ~OnRecord(r)}

(* Under FailOpenWithAlarm each answer whose row is neither durable nor on record
   as skipped has been counted by note_audit_drop. *)
DropsCounted == policy = "FailOpenWithAlarm" => Cardinality(Unrecorded) <= drops

(* A guest call that blocks for ever holds up its own request and no other: every
   request is answered, or is in a guest call that never returns. *)
EveryRequestEnds ==
    \A r \in Requests : <>(pc[r] = "done") \/ <>[](pc[r] = "running")
=============================================================================
