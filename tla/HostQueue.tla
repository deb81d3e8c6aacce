------------------------------ MODULE HostQueue ------------------------------
(***************************************************************************)
(* crates/qqq-host/src/host_queue.rs: one queue of the in-memory backend    *)
(* that the requests of a deployment share (QueueBackend), and the host     *)
(* calls of qqq:queue/messaging in front of it.                             *)
(*                                                                         *)
(* A consumer's call reads the monotonic clock and takes the backend's      *)
(* lock afterwards, so calls take effect in another order than their clock *)
(* readings.  A message is the number of its publication; its identifier is *)
(* the counter value in "{queue}:{counter:020}", whose zero-padding makes   *)
(* the order of the map the order of the counter.                          *)
(***************************************************************************)
EXTENDS Integers, Sequences, FiniteSets, SequencesExt

CONSTANTS
    Consumers,   \* requests that may subscribe
    Depth,       \* MAX_QUEUE_DEPTH
    HandleLimit, \* limits.max_open_handles of the publishing instance
    Batch,       \* MAX_QUEUE_BATCH_MESSAGES
    Lease,       \* QUEUE_LEASE_SECS
    MaxMessages, \* bound: messages published in a behaviour
    MaxId,       \* bound: identifiers minted in a behaviour
    MaxClock,    \* bound: how far the clock advances
    MaxDeliveries \* bound: how often one message is handed out

ASSUME QueueAssumption ==
    /\ Depth \in Nat \ {0}
    /\ HandleLimit \in Nat \ {0}
    /\ Batch \in Nat \ {0}
    /\ Lease \in Nat \ {0}
    /\ MaxMessages \in Nat
    /\ MaxId \in Nat
    /\ MaxClock \in Nat
    /\ MaxDeliveries \in Nat

VARIABLES
    pending,    \* QueueState::pending
    inFlight,   \* QueueState::in_flight
    nextId,     \* QueueBackend::next_id
    clock,      \* the monotonic clock
    reading,    \* the clock reading of each consumer's call, NotCalling without one
    given,      \* the delivery identifiers each consumer has been given
    published,  \* history: the number of messages published
    acked,      \* history: the messages acknowledged
    ended       \* history: the identifiers whose lease expired or was acknowledged

queueVars == <<pending, inFlight, nextId>>
vars == <<queueVars, clock, reading, given, published, acked, ended>>

NotCalling == -1
Messages == 1..MaxMessages
Ids == 1..MaxId
QueuedMessage == [id : Ids, body : Messages, deliveries : Nat]
InFlight == [id : Ids, body : Messages, deliveries : Nat, deadline : Nat]
LiveIds == {m.id : m \in ToSet(pending)} \cup {f.id : f \in inFlight}
LiveBodies == {m.body : m \in ToSet(pending)} \cup {f.body : f \in inFlight}

(* The depth is part of the type: the quota counts waiting and leased
   messages alike. *)
TypeOK ==
    /\ pending \in Seq(QueuedMessage)
    /\ inFlight \in SUBSET InFlight
    /\ Len(pending) + Cardinality(inFlight) <= Depth
    /\ nextId \in 0..MaxId
    /\ clock \in 0..MaxClock
    /\ reading \in [Consumers -> {NotCalling} \cup 0..MaxClock]
    /\ given \in [Consumers -> SUBSET Ids]
    /\ published \in 0..MaxMessages
    /\ acked \in SUBSET Messages
    /\ ended \in SUBSET Ids

(* QueueBackend::new. *)
Init ==
    /\ pending = <<>>
    /\ inFlight = {}
    /\ nextId = 0
    /\ clock = 0
    /\ reading = [c \in Consumers |-> NotCalling]
    /\ given = [c \in Consumers |-> {}]
    /\ published = 0
    /\ acked = {}
    /\ ended = {}

-----------------------------------------------------------------------------
(* Publishing. *)

(* Faulty form of Open: leased messages are not counted. *)
OpenPending == Len(pending)

(* pending_count + in_flight_count: what the queue holds. *)
Open == Len(pending) + Cardinality(inFlight)

(* QueueBackend::publish, n times: each message under the next identifier. *)
NewMessages(n) ==
    [i \in 1..n |-> [id |-> nextId + i, body |-> published + i, deliveries |-> 0]]

(* publish (n = 1) and publish_many: the handle quota and the depth are held
   against the total that would result, before any message is stored.  A
   refusal, also by the grant, the configuration, a body's size or the
   subrequest budget, stores nothing. *)
Publish(n) ==
    /\ n <= Batch
    /\ Open + n <= HandleLimit
    /\ Open + n <= Depth
    /\ published + n <= MaxMessages
    /\ nextId + n <= MaxId
    /\ pending' = pending \o NewMessages(n)
    /\ nextId' = nextId + n
    /\ published' = published + n
    /\ UNCHANGED <<inFlight, clock, reading, given, acked, ended>>

-----------------------------------------------------------------------------
(* Consuming. *)

(* Time passes. *)
Tick ==
    /\ clock < MaxClock
    /\ clock' = clock + 1
    /\ UNCHANGED <<queueVars, reading, given, published, acked, ended>>

(* now_or_fail: the instant is read before the backend is locked. *)
ReadClock(c) ==
    /\ reading[c] = NotCalling
    /\ reading' = [reading EXCEPT ![c] = clock]
    /\ UNCHANGED <<queueVars, clock, given, published, acked, ended>>

Expired(now) == {f \in inFlight : now >= f.deadline}

(* Faulty form of Kept: an expired lease stays in the map. *)
KeptAll(now) == inFlight

(* What reap_expired leaves in the map. *)
Kept(now) == inFlight \ Expired(now)

Rank(f, S) == Cardinality({g \in S : g.id <= f.id})

(* Faulty form of Redelivered: the message keeps its identifier. *)
RedeliveredUnderOldId(now) ==
    LET E == Expired(now) IN
    [i \in 1..Cardinality(E) |->
        LET f == CHOOSE f \in E : Rank(f, E) = i
        IN  [id |-> f.id, body |-> f.body, deliveries |-> f.deliveries]]

(* reap_expired: the expired leases in the order of their identifiers, each
   under a fresh one. *)
Redelivered(now) ==
    LET E == Expired(now) IN
    [i \in 1..Cardinality(E) |->
        LET f == CHOOSE f \in E : Rank(f, E) = i
        IN  [id |-> nextId + i, body |-> f.body, deliveries |-> f.deliveries]]

(* reap_expired, the beginning of every consumer call; the call ends with it. *)
Reap(c) ==
    /\ nextId' = nextId + Cardinality(Expired(reading[c]))
    /\ nextId' <= MaxId
    /\ reading' = [reading EXCEPT ![c] = NotCalling]
    /\ UNCHANGED <<clock, published>>

Line(now) == Redelivered(now) \o pending
ExpiredIds(now) == {f.id : f \in Expired(now)}

(* receive: lease the head of the line out, if there is one. *)
Receive(c) ==
    LET now == reading[c]
        line == Line(now)
    IN  /\ now # NotCalling
        /\ Reap(c)
        /\ ended' = ended \cup ExpiredIds(now)
        /\ \/ /\ line = <<>>
              /\ inFlight' = Kept(now)
              /\ UNCHANGED <<pending, given>>
           \/ /\ line # <<>>
              /\ Head(line).deliveries < MaxDeliveries
              /\ pending' = Tail(line)
              /\ inFlight' = Kept(now) \cup
                    {[id |-> Head(line).id, body |-> Head(line).body,
                      deliveries |-> Head(line).deliveries + 1, deadline |-> now + Lease]}
              /\ given' = [given EXCEPT ![c] = @ \cup {Head(line).id}]
        /\ UNCHANGED acked

(* acknowledge: remove the delivery if its lease is live, else lease-expired. *)
Acknowledge(c, id) ==
    LET now == reading[c]
        mine == {f \in Kept(now) : f.id = id}
    IN  /\ now # NotCalling
        /\ Reap(c)
        /\ pending' = Line(now)
        /\ inFlight' = Kept(now) \ mine
        /\ acked' = acked \cup {f.body : f \in mine}
        /\ ended' = ended \cup ExpiredIds(now) \cup {f.id : f \in mine}
        /\ UNCHANGED given

(* Faulty form of Returned: the message goes to the end of the line. *)
ReturnedLast(line, back) == line \o back

(* push_front of a rejected message. *)
Returned(line, back) == back \o line

(* reject: return the delivery to the line under the same identifier, or
   lease-expired. *)
Reject(c, id) ==
    LET now == reading[c]
        mine == {f \in Kept(now) : f.id = id}
        back == {[id |-> id, body |-> f.body, deliveries |-> f.deliveries] : f \in mine}
    IN  /\ now # NotCalling
        /\ Reap(c)
        /\ pending' = Returned(Line(now), SetToSeq(back))
        /\ inFlight' = Kept(now) \ mine
        /\ ended' = ended \cup ExpiredIds(now)
        /\ UNCHANGED <<given, acked>>

(* A consumer names any identifier it has ever been given: it retries, or
   answers late. *)
Call(c) ==
    \/ ReadClock(c) \/ Receive(c)
    \/ \E id \in given[c] : Acknowledge(c, id) \/ Reject(c, id)

Next ==
    \/ \E n \in 1..Batch : Publish(n)
    \/ Tick
    \/ \E c \in Consumers : Call(c)

Spec == Init /\ [][Next]_vars

-----------------------------------------------------------------------------
(* Properties. *)

(* Whatever expires, is rejected, retried or answered late, every message that
   was published and not acknowledged is in the queue exactly once, waiting or
   leased, and an acknowledged one does not come back. *)
NothingLostOrDoubled ==
    /\ LiveBodies = (1..published) \ acked
    /\ Cardinality(LiveBodies) = Len(pending) + Cardinality(inFlight)

(* An identifier whose lease expired or was acknowledged names no message ever
   after: a consumer that is presumed dead cannot complete the delivery of the
   one that replaced it. *)
EndedIdsStayDead == ended \cap LiveIds = {}

(* A message that was handed out before is delivered again before any message
   that never was, and those keep the order of their publication. *)
RedeliveredFirst ==
    \A i, j \in 1..Len(pending) : i < j =>
        /\ pending[j].deliveries > 0 => pending[i].deliveries > 0
        /\ pending[i].deliveries = 0 => pending[i].body < pending[j].body
=============================================================================
