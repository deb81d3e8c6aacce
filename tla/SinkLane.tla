------------------------------ MODULE SinkLane ------------------------------
(***************************************************************************)
(* Guest output: the writers of crates/qqq-host/src/guest_output.rs and the *)
(* lane of crates/qqq-host/src/sink_lane.rs, one thread and one bounded     *)
(* queue per physical sink, shared by the outputs of all requests.          *)
(*                                                                         *)
(* poll_write pays for its bytes twice before it queues them: against the   *)
(* lifetime quota (its output's and its tenant's) and against the bytes in  *)
(* flight.  A write that does not fit parks its waker; the lane wakes all   *)
(* parked writers after each completed write.  Writers run on the executor, *)
(* the lane on its own thread, and neither takes a lock across its steps.   *)
(*                                                                         *)
(* All outputs belong to one tenant.  A write is its escaped length.        *)
(***************************************************************************)
EXTENDS Integers, Sequences, FiniteSets, Sums

CONSTANTS
    Outputs,      \* the outputs of the requests on this sink
    OutputLimit,  \* lifetime quota of one output
    TenantLimit,  \* the tenant's ceiling, for lifetime and in-flight bytes
    InFlightCap,  \* OUTPUT_IN_FLIGHT_BYTES
    LaneQueue,    \* LANE_QUEUE_MSGS
    LaneBatch,    \* LANE_BATCH_BYTES
    MaxSize,      \* bound: the bytes of one write
    MaxCalls,     \* bound: writes and flushes of one request
    MaxRequests   \* bound: requests that come after others

ASSUME LaneAssumption ==
    /\ {OutputLimit, TenantLimit, InFlightCap, MaxCalls, MaxRequests} \subseteq Nat
    /\ {LaneQueue, LaneBatch, MaxSize} \subseteq Nat \ {0}

VARIABLES
    pc,        \* where each writer is
    buf,       \* the bytes of its write, 0 for a flush
    held,      \* the bytes of SanitisingWriter::pending, which holds their guard
    used,      \* OutputBudget::used
    inFlight,  \* OutputBudget::in_flight
    tenantUsed, tenantInFlight, \* the same of the tenant's budget
    failed,    \* the failure slot of each output is set
    queue,     \* the lane's channel
    parked,    \* SinkLane::parked
    lane,      \* where the lane's thread is
    batch,     \* the messages whose bytes and guards the thread holds
    accepted,  \* history: bytes of the output that entered the lane
    sunk,      \* history: bytes of the output that reached the sink
    calls, requests \* history: for the bounds

budgets == <<used, inFlight, tenantUsed, tenantInFlight>>
laneVars == <<queue, parked, lane, batch, failed, sunk>>
history == <<accepted, calls, requests>>
vars == <<pc, buf, held, budgets, laneVars, history>>

LaneMsg == [by : Outputs, bytes : 0..MaxSize]
IsFlush(m) == m.bytes = 0
Bytes(s) == [i \in DOMAIN s |-> s[i].bytes]
BytesIn(o, s) == SumOf(Bytes(s), {i \in DOMAIN s : s[i].by = o})
Total(s) == SumOf(Bytes(s), DOMAIN s)
SumOver(f) == SumOf(f, Outputs)
SubSaturating(a, b) == IF a > b THEN a - b ELSE 0

Between == {"idle", "parked", "waiting", "answered", "woken"}
Polling == {"poll", "admit", "hold", "send", "park"}

TypeOK ==
    /\ pc \in [Outputs -> Between \cup Polling \cup {"dropped"}]
    /\ buf \in [Outputs -> 0..MaxSize]
    /\ held \in [Outputs -> 0..MaxSize]
    /\ used \in [Outputs -> 0..OutputLimit]
    /\ inFlight \in [Outputs -> Nat]
    /\ tenantUsed \in 0..TenantLimit
    /\ tenantInFlight \in Nat
    /\ failed \in [Outputs -> BOOLEAN]
    /\ queue \in Seq(LaneMsg) /\ Len(queue) <= LaneQueue
    /\ parked \in SUBSET Outputs
    /\ lane \in {"recv", "drain", "write", "wake"}
    /\ batch \in Seq(LaneMsg)
    /\ accepted \in [Outputs -> Nat]
    /\ sunk \in [Outputs -> Nat]
    /\ calls \in [Outputs -> 0..MaxCalls]
    /\ requests \in 0..MaxRequests

(* SinkLane::spawn, and outputs that have written nothing. *)
Init ==
    /\ pc = [o \in Outputs |-> "idle"]
    /\ buf = [o \in Outputs |-> 0]
    /\ held = [o \in Outputs |-> 0]
    /\ used = [o \in Outputs |-> 0]
    /\ inFlight = [o \in Outputs |-> 0]
    /\ tenantUsed = 0
    /\ tenantInFlight = 0
    /\ failed = [o \in Outputs |-> FALSE]
    /\ queue = <<>>
    /\ parked = {}
    /\ lane = "recv"
    /\ batch = <<>>
    /\ accepted = [o \in Outputs |-> 0]
    /\ sunk = [o \in Outputs |-> 0]
    /\ calls = [o \in Outputs |-> 0]
    /\ requests = 0

GoTo(o, p) == pc' = [pc EXCEPT ![o] = p]

-----------------------------------------------------------------------------
(* A request's writer. *)

(* The guest writes n bytes, or flushes (n = 0). *)
Begin(o, n) ==
    /\ pc[o] = "idle"
    /\ calls[o] < MaxCalls
    /\ calls' = [calls EXCEPT ![o] = @ + 1]
    /\ buf' = [buf EXCEPT ![o] = n]
    /\ GoTo(o, "poll")
    /\ UNCHANGED <<held, budgets, laneVars, accepted, requests>>

(* Faulty form of CanReserve: the tenant's ceiling is not consulted. *)
CanReserveOwn(o, n) == used[o] + n <= OutputLimit

(* OutputBudget::reserve: the output's quota, then its tenant's. *)
CanReserve(o, n) == used[o] + n <= OutputLimit /\ tenantUsed + n <= TenantLimit

(* The beginning of poll_write and poll_flush: a recorded failure ends the
   call, a held write and a flush marker go straight to the lane, a new write
   reserves its bytes of the quota or is refused. *)
Poll(o) ==
    /\ pc[o] \in {"poll", "woken"}
    /\ \/ /\ failed[o]
          /\ GoTo(o, "idle")
          /\ UNCHANGED budgets
       \/ /\ ~failed[o]
          /\ held[o] > 0 \/ buf[o] = 0
          /\ GoTo(o, "send")
          /\ UNCHANGED budgets
       \/ /\ ~failed[o] /\ held[o] = 0 /\ buf[o] > 0
          /\ CanReserve(o, buf[o])
          /\ used' = [used EXCEPT ![o] = @ + buf[o]]
          /\ tenantUsed' = tenantUsed + buf[o]
          /\ GoTo(o, "admit")
          /\ UNCHANGED <<inFlight, tenantInFlight>>
       \/ /\ ~failed[o] /\ held[o] = 0 /\ buf[o] > 0
          /\ ~CanReserve(o, buf[o])
          /\ GoTo(o, "idle")
          /\ UNCHANGED budgets
    /\ UNCHANGED <<buf, held, laneVars, history>>

(* admit_in_flight: an empty counter takes one message of any size. *)
AdmitInFlight(current, cap, n) == current = 0 \/ current + n <= cap

(* reserve_in_flight up to the load of the tenant's counter.  A refusal
   releases the output's bytes in flight, unreserve gives back the output's
   bytes of the quota, and the writer goes on to park. *)
Admit(o) ==
    /\ pc[o] = "admit"
    /\ IF /\ AdmitInFlight(inFlight[o], InFlightCap, buf[o])
          /\ AdmitInFlight(tenantInFlight, TenantLimit, buf[o])
       THEN /\ inFlight' = [inFlight EXCEPT ![o] = @ + buf[o]]
            /\ GoTo(o, "hold")
            /\ UNCHANGED used
       ELSE /\ used' = [used EXCEPT ![o] = SubSaturating(@, buf[o])]
            /\ GoTo(o, "park")
            /\ UNCHANGED inFlight
    /\ UNCHANGED <<buf, held, tenantUsed, tenantInFlight, laneVars, history>>

(* The fetch_add on the tenant's counter; the guard and the escaped bytes are
   the writer's. *)
Hold(o) ==
    /\ pc[o] = "hold"
    /\ tenantInFlight' = tenantInFlight + buf[o]
    /\ held' = [held EXCEPT ![o] = buf[o]]
    /\ GoTo(o, "send")
    /\ UNCHANGED <<buf, used, inFlight, tenantUsed, laneVars, history>>

(* lane.send: the message and its guard move to the lane, or the queue is full
   and the writer keeps them.  A flush waits for its answer. *)
Send(o) ==
    /\ pc[o] = "send"
    /\ \/ /\ Len(queue) < LaneQueue
          /\ LET n == IF buf[o] = 0 THEN 0 ELSE held[o]
             IN  /\ queue' = Append(queue, [by |-> o, bytes |-> n])
                 /\ accepted' = [accepted EXCEPT ![o] = @ + n]
          /\ held' = IF buf[o] = 0 THEN held ELSE [held EXCEPT ![o] = 0]
          /\ GoTo(o, IF buf[o] = 0 THEN "waiting" ELSE "idle")
       \/ /\ Len(queue) >= LaneQueue
          /\ GoTo(o, "park")
          /\ UNCHANGED <<queue, accepted, held>>
    /\ UNCHANGED <<buf, budgets, parked, lane, batch, failed, sunk, calls, requests>>

(* lane.park, then Poll::Pending: the task sleeps until its waker is called. *)
Park(o) ==
    /\ pc[o] = "park"
    /\ parked' = parked \cup {o}
    /\ GoTo(o, "parked")
    /\ UNCHANGED <<buf, held, budgets, queue, lane, batch, failed, sunk, history>>

(* The answer to a flush is polled; poll_flush returns. *)
Flushed(o) ==
    /\ pc[o] = "answered"
    /\ GoTo(o, "idle")
    /\ UNCHANGED <<buf, held, budgets, laneVars, history>>

(* Faulty form of DropGuard: the guard of a held write is forgotten. *)
DropGuardLeaking(o) == UNCHANGED <<inFlight, tenantInFlight>>

(* Drop of InFlight: release_in_flight, for the output and its tenant. *)
DropGuard(o) ==
    /\ inFlight' = [inFlight EXCEPT ![o] = SubSaturating(@, held[o])]
    /\ tenantInFlight' = SubSaturating(tenantInFlight, held[o])

(* The request ends or is cancelled between two polls: the writer is dropped,
   and the write it holds with it.  Its waker may stay parked. *)
DropWriter(o) ==
    /\ pc[o] \in Between
    /\ DropGuard(o)
    /\ held' = [held EXCEPT ![o] = 0]
    /\ GoTo(o, "dropped")
    /\ UNCHANGED <<buf, used, tenantUsed, laneVars, history>>

(* Drop of OutputBudget, once the lane's guards are gone too: what the output
   used goes back to the tenant.  The next request has a fresh output. *)
DropBudget(o) ==
    /\ pc[o] = "dropped"
    /\ \A i \in DOMAIN queue : queue[i].by # o
    /\ \A i \in DOMAIN batch : batch[i].by # o
    /\ requests < MaxRequests
    /\ tenantUsed' = SubSaturating(tenantUsed, used[o])
    /\ used' = [used EXCEPT ![o] = 0]
    /\ failed' = [failed EXCEPT ![o] = FALSE]
    /\ accepted' = [accepted EXCEPT ![o] = 0]
    /\ sunk' = [sunk EXCEPT ![o] = 0]
    /\ calls' = [calls EXCEPT ![o] = 0]
    /\ requests' = requests + 1
    /\ GoTo(o, "idle")
    /\ UNCHANGED <<buf, held, inFlight, tenantInFlight, queue, parked, lane, batch>>

-----------------------------------------------------------------------------
(* The lane's thread. *)

(* Faulty form of RecordFailures: only the last message's output learns of it. *)
RecordFailuresLast ==
    failed' = [o \in Outputs |-> failed[o] \/ (batch # <<>> /\ o = batch[Len(batch)].by)]

(* record_failure for every output with bytes in the batch. *)
RecordFailures ==
    failed' = [o \in Outputs |-> failed[o] \/ \E i \in DOMAIN batch : batch[i].by = o]

(* write_batch writes everything or fails, which drops the bytes; then
   guards.clear releases what was in flight. *)
WriteAndClear ==
    /\ \/ /\ sunk' = [o \in Outputs |-> sunk[o] + BytesIn(o, batch)]
          /\ UNCHANGED failed
       \/ /\ batch # <<>>
          /\ RecordFailures
          /\ UNCHANGED sunk
    /\ batch' = <<>>
    /\ inFlight' = [o \in Outputs |-> SubSaturating(inFlight[o], BytesIn(o, batch))]
    /\ tenantInFlight' = SubSaturating(tenantInFlight, Total(batch))

(* blocking_recv and try_recv of data: it joins the batch. *)
TakeData ==
    /\ queue # <<>>
    /\ lane \in {"recv", "drain"}
    /\ ~IsFlush(Head(queue))
    /\ batch' = Append(batch, Head(queue))
    /\ queue' = Tail(queue)
    /\ lane' = IF Total(batch') >= LaneBatch THEN "write" ELSE "drain"
    /\ UNCHANGED <<pc, buf, held, budgets, parked, failed, sunk, history>>

(* Faulty form of Answer: a marker behind a failed write is not answered. *)
AnswerIfWritten(o) ==
    pc' = IF pc[o] = "waiting" /\ ~failed'[o] THEN [pc EXCEPT ![o] = "answered"] ELSE pc

(* done.send: the writer may be gone. *)
Answer(o) == pc' = IF pc[o] = "waiting" THEN [pc EXCEPT ![o] = "answered"] ELSE pc

(* A flush marker: write what is held, flush, answer. *)
TakeFlush ==
    /\ queue # <<>>
    /\ lane \in {"recv", "drain"}
    /\ IsFlush(Head(queue))
    /\ WriteAndClear
    /\ Answer(Head(queue).by)
    /\ queue' = Tail(queue)
    /\ lane' = "drain"
    /\ UNCHANGED <<buf, held, used, tenantUsed, parked, history>>

(* The queue is empty or the batch is full: the write of the batch. *)
WriteBatch ==
    /\ lane = "write" \/ (lane = "drain" /\ queue = <<>>)
    /\ WriteAndClear
    /\ lane' = "wake"
    /\ UNCHANGED <<pc, buf, held, used, tenantUsed, queue, parked, history>>

(* wake_all takes the list and wakes; a waker of a task that is not asleep, or
   gone, does nothing. *)
WakeAll ==
    /\ lane = "wake"
    /\ pc' = [o \in Outputs |-> IF o \in parked /\ pc[o] = "parked" THEN "woken" ELSE pc[o]]
    /\ parked' = {}
    /\ lane' = "recv"
    /\ UNCHANGED <<buf, held, budgets, queue, batch, failed, sunk, history>>

Lane == TakeData \/ TakeFlush \/ WriteBatch \/ WakeAll

(* The steps of a task that the executor runs: it is in a poll, or woken. *)
Runs(o) == Poll(o) \/ Admit(o) \/ Hold(o) \/ Send(o) \/ Park(o) \/ Flushed(o)

Next ==
    \/ \E o \in Outputs : Runs(o) \/ DropWriter(o) \/ DropBudget(o)
    \/ \E o \in Outputs, n \in 0..MaxSize : Begin(o, n)
    \/ Lane

(* The lane is a thread of its own, and the executor runs every task that is
   not asleep. *)
Spec == Init /\ [][Next]_vars /\ WF_vars(Lane) /\ \A o \in Outputs : WF_vars(Runs(o))

-----------------------------------------------------------------------------
(* Properties. *)

(* "held counts can never leak": the bytes in flight of an output, and of its
   tenant, are exactly those of its messages in the lane and of the write its
   writer holds, whichever of refusal, full queue, failed write and dropped
   writer came before. *)
InFlightExact ==
    /\ \A o \in Outputs :
         inFlight[o] = held[o] + BytesIn(o, queue) + BytesIn(o, batch)
                         + (IF pc[o] = "hold" THEN buf[o] ELSE 0)
    /\ tenantInFlight = SumOver(held) + Total(queue) + Total(batch)

(* Bytes the lane took are in the queue, in the batch or in the sink, or their
   output has its failure recorded: no output is lost silently. *)
LossRecorded ==
    \A o \in Outputs :
        failed[o] \/ accepted[o] = BytesIn(o, queue) + BytesIn(o, batch) + sunk[o]

(* A flush marker in the lane is always answered, behind failed writes too. *)
FlushAnswered == \A o \in Outputs : pc[o] = "waiting" ~> pc[o] # "waiting"

(* "the parent's counter holds precisely this amount for this child" (Drop of
   OutputBudget): the tenant's use is what its outputs have reserved. *)
TenantUseExact == tenantUsed = SumOver(used)

(* "Park waker until the next completed write": a parked writer is woken. *)
ParkedIsWoken == \A o \in Outputs : pc[o] = "parked" ~> pc[o] # "parked"
=============================================================================
