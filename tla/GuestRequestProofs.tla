-------------------------- MODULE GuestRequestProofs --------------------------
(***************************************************************************)
(* Proofs about GuestRequest: the pool's slots are conserved on every path *)
(* through handle_request; under FailClosed an answer leaves only with its *)
(* row in the file or given up on record, FailOpenWithAlarm counts every    *)
(* other answer, and no buffer permit is lost or returned twice.  They hold *)
(* for any number of requests, any capacity, budget and body sizes.        *)
(***************************************************************************)
EXTENDS GuestRequest, FiniteSetTheorems, TLAPS

(* What the proof needs to know of the types; the buffer budget has an invariant
   of its own, below. *)
Typed ==
    /\ pc \in [Requests -> Places]
    /\ outcome \in [Requests -> Outcomes]
    /\ answer \in [Requests -> Answers]
    /\ sequence \in [Requests -> Nat]
    /\ assigned \in Nat
    /\ pending \subseteq Nat
    /\ next \in Nat
    /\ file \subseteq Nat
    /\ skipped \subseteq Nat
    /\ inUse \in Nat
    /\ idle \in Nat
    /\ drops \in Nat
    /\ policy \in {"FailClosed", "FailOpenWithAlarm"}

(* A request has an outcome once its guest call has returned and none before,
   and a sequence once it has committed its row. *)
InOrder ==
    \A r \in Requests :
        /\ pc[r] \in {"start", "buffered", "admitted", "running"} => outcome[r] = "none"
        /\ pc[r] \in {"settled", "recording", "committed", "waiting"}
             => outcome[r] \in {"ok", "error", "shed"}
        /\ pc[r] \in {"committed", "waiting"} => sequence[r] > 0

(* The frontier passes a sequence only with the row in the file or given up on
   record: what makes an answered barrier honest. *)
FrontierCovered == \A n \in Nat : 0 < n /\ n < next => n \in file \cup skipped

Finite == IsFiniteSet(Holders) /\ IsFiniteSet(Unrecorded)

(* The inductive invariant. *)
IInv ==
    /\ Typed
    /\ InOrder
    /\ Finite
    /\ FrontierCovered
    /\ SlotsConserved
    /\ NoAnswerWithoutEvidence
    /\ DropsCounted

-----------------------------------------------------------------------------
(* The pool's part of the state and of the invariant. *)
SlotsOK == IsFiniteSet(Holders) /\ SlotsConserved

(* A request that keeps its side of the pool changes nothing there. *)
LEMMA HoldersKept ==
    ASSUME Typed, SlotsOK, UNCHANGED poolVars,
           NEW r \in Requests, NEW q \in Places, GoTo(r, q),
           r \in Holders <=> q \in {"admitted", "running", "settled"}
    PROVE  SlotsOK'
<1>1. Holders' = Holders
  BY DEF Typed, GoTo, Holders
<1>2. QED
  BY <1>1 DEF SlotsOK, SlotsConserved, poolVars

(* A request that is admitted takes one slot, an idle one when there is one. *)
LEMMA HolderEnters ==
    ASSUME Typed, SlotsOK, NEW r \in Requests, r \notin Holders,
           GoTo(r, "admitted"), Admits,
           inUse' = inUse + 1,
           idle' = IF idle > 0 THEN idle - 1 ELSE idle
    PROVE  SlotsOK'
<1>1. Holders' = Holders \cup {r}
  BY DEF Typed, GoTo, Holders
<1>2. IsFiniteSet(Holders') /\ Cardinality(Holders') = Cardinality(Holders) + 1
  BY <1>1, FS_AddElement DEF SlotsOK
<1>3. inUse' + idle' <= Capacity
  BY RequestAssumption DEF SlotsOK, SlotsConserved, Typed, Admits
<1>4. QED
  BY <1>2, <1>3 DEF SlotsOK, SlotsConserved

(* A request that leaves gives one slot back, which is never one too many. *)
LEMMA HolderLeaves ==
    ASSUME Typed, SlotsOK, NEW r \in Requests, r \in Holders,
           NEW q \in {"recording", "done"}, GoTo(r, q),
           Release \/ Discard
    PROVE  SlotsOK' /\ inUse' \in Nat /\ idle' \in Nat
<1>1. Holders' = Holders \ {r}
  BY DEF Typed, GoTo, Holders, Places
<1>2. IsFiniteSet(Holders') /\ Cardinality(Holders') = Cardinality(Holders) - 1
  BY <1>1, FS_RemoveElement DEF SlotsOK
<1>3. Cardinality(Holders') \in Nat
  BY <1>2, FS_CardinalityType
<1>4. inUse > 0
  BY <1>2, <1>3 DEF SlotsOK, SlotsConserved, Typed
<1>5. inUse' = inUse - 1 /\ (idle' = idle + 1 \/ idle' = idle)
  BY <1>4 DEF Release, Discard, GiveBack
<1>6. QED
  BY <1>2, <1>4, <1>5, RequestAssumption DEF SlotsOK, SlotsConserved, Typed

-----------------------------------------------------------------------------
(* The audit policy's part. *)
EvidenceOK ==
    /\ IsFiniteSet(Unrecorded)
    /\ DropsCounted
    /\ NoAnswerWithoutEvidence
    /\ FrontierCovered

(* Nothing is owed that was not owed before. *)
LEMMA NothingOwed ==
    ASSUME Typed, EvidenceOK, policy' = policy, drops' \in {drops, drops + 1},
           Unrecorded' \subseteq Unrecorded
    PROVE  IsFiniteSet(Unrecorded') /\ DropsCounted'
<1>1. /\ IsFiniteSet(Unrecorded') /\ Cardinality(Unrecorded') <= Cardinality(Unrecorded)
      /\ Cardinality(Unrecorded) \in Nat /\ Cardinality(Unrecorded') \in Nat
  BY FS_Subset, FS_CardinalityType DEF EvidenceOK
<1>2. QED
  BY <1>1 DEF EvidenceOK, DropsCounted, Typed

(* Steps that leave the worker alone: the request is not finished by them, or
   it is finished without an outcome the client could be given. *)
LEMMA EvidenceKept ==
    ASSUME Typed, Typed', EvidenceOK, UNCHANGED <<policy, next, file, skipped>>,
           drops' \in {drops, drops + 1},
           NEW r \in Requests, NEW q \in Places, GoTo(r, q),
           \A s \in Requests \ {r} : /\ outcome'[s] = outcome[s]
                                      /\ answer'[s] = answer[s]
                                      /\ sequence'[s] = sequence[s],
           q = "done" => outcome'[r] \in {"none", "panic"}
    PROVE  EvidenceOK'
<1>1. ~Settled(r)'
  BY DEF Settled, GoTo, Typed
<1>2. ASSUME NEW s \in Requests, s # r
      PROVE  /\ Settled(s)' <=> Settled(s)
             /\ OnRecord(s)' <=> OnRecord(s)
  BY <1>2 DEF Settled, OnRecord, GoTo, Typed
<1>3. Unrecorded' \subseteq Unrecorded
  BY <1>1, <1>2 DEF Unrecorded
<1>4. NoAnswerWithoutEvidence'
  BY <1>1, <1>2 DEF EvidenceOK, NoAnswerWithoutEvidence
<1>5. FrontierCovered'
  BY DEF EvidenceOK, FrontierCovered
<1>6. QED
  BY <1>3, <1>4, <1>5, NothingOwed DEF EvidenceOK

(* The initial state holds no slot and owes no evidence. *)
LEMMA InitIInv == Init => IInv
<1> SUFFICES ASSUME Init PROVE IInv
  OBVIOUS
<1>1. Typed /\ InOrder
  BY DEF Init, Typed, InOrder, Places, Outcomes, Answers
<1>2. Holders = {} /\ Unrecorded = {}
  BY DEF Init, Holders, Unrecorded, Settled
<1>3. Finite /\ SlotsConserved /\ DropsCounted
  BY <1>2, FS_EmptySet, RequestAssumption DEF Init, Finite, SlotsConserved, DropsCounted
<1>4. NoAnswerWithoutEvidence /\ FrontierCovered
  BY DEF Init, NoAnswerWithoutEvidence, Settled, FrontierCovered
<1>5. QED
  BY <1>1, <1>3, <1>4 DEF IInv

(* The steps of one request, one by one. *)
LEMMA StepIInv ==
    ASSUME IInv, NEW r \in Requests, Step(r)
    PROVE  IInv'
<1>0. Typed /\ InOrder /\ SlotsOK /\ EvidenceOK
  BY DEF IInv, Finite, SlotsOK, EvidenceOK
<1> SUFFICES Typed' /\ InOrder' /\ SlotsOK' /\ EvidenceOK'
  BY DEF IInv, Finite, SlotsOK, EvidenceOK
<1>1. ASSUME NEW n \in Sizes, BufferRequest(r, n)
      PROVE  Typed' /\ InOrder' /\ SlotsOK' /\ EvidenceOK'
  <2>1. PICK q \in {"buffered", "done"} : GoTo(r, q)
    BY <1>1 DEF BufferRequest, Return
  <2>2. Typed'
    BY <1>0, <1>1 DEF Typed, BufferRequest, Return, GoTo, poolVars, streamVars, workerVars, Places, Answers
  <2>3. InOrder'
    BY <1>0, <1>1, <2>1 DEF Typed, InOrder, BufferRequest, GoTo, streamVars
  <2>4. SlotsOK'
    BY <1>0, <1>1, <2>1, HoldersKept DEF BufferRequest, Holders, Places
  <2>5. EvidenceOK'
    <3>1. /\ pc[r] = "start" /\ UNCHANGED <<outcome, sequence, next, file, skipped>>
          /\ UNCHANGED <<policy, drops>>
          /\ \A s \in Requests \ {r} : answer'[s] = answer[s]
      BY <1>0, <1>1 DEF BufferRequest, Return, Typed, streamVars, workerVars
    <3>2. QED
      BY <1>0, <2>1, <2>2, <3>1, EvidenceKept DEF InOrder, Places
  <2>6. QED
    BY <2>2, <2>3, <2>4, <2>5
<1>2. ASSUME AcquireSlot(r)
      PROVE  Typed' /\ InOrder' /\ SlotsOK' /\ EvidenceOK'
  <2>1. PICK q \in {"admitted", "done"} : GoTo(r, q)
    BY <1>2 DEF AcquireSlot, Return
  <2>2. Typed'
    BY <1>0, <1>2 DEF Typed, AcquireSlot, Return, GoTo, poolVars, streamVars, workerVars, Places, Answers
  <2>3. InOrder'
    BY <1>0, <1>2, <2>1 DEF Typed, InOrder, AcquireSlot, GoTo, streamVars
  <2>4. SlotsOK'
    <3>1. CASE Admits
      BY <1>0, <1>2, <3>1, HolderEnters DEF AcquireSlot, Holders
    <3>2. CASE ~Admits
      BY <1>0, <1>2, <3>2, HoldersKept DEF AcquireSlot, Return, Holders, Places
    <3>3. QED
      BY <3>1, <3>2
  <2>5. EvidenceOK'
    <3>1. /\ pc[r] = "buffered" /\ UNCHANGED <<outcome, sequence, next, file, skipped>>
          /\ UNCHANGED <<policy, drops>>
          /\ \A s \in Requests \ {r} : answer'[s] = answer[s]
      BY <1>0, <1>2 DEF AcquireSlot, Return, Typed, streamVars, workerVars
    <3>2. QED
      BY <1>0, <2>1, <2>2, <3>1, EvidenceKept DEF InOrder, Places
  <2>6. QED
    BY <2>2, <2>3, <2>4, <2>5
<1>3. ASSUME Preflight(r)
      PROVE  Typed' /\ InOrder' /\ SlotsOK' /\ EvidenceOK'
  <2>1. PICK q \in {"running", "done"} : GoTo(r, q)
    BY <1>3 DEF Preflight, Return
  <2>2. r \in Holders
    BY <1>3 DEF Preflight, Holders
  <2>3. SlotsOK' /\ inUse' \in Nat /\ idle' \in Nat
    <3>1. CASE worker = "failed" /\ policy = "FailClosed"
      BY <1>0, <1>3, <2>2, <3>1, HolderLeaves DEF Preflight, Return
    <3>2. CASE ~(worker = "failed" /\ policy = "FailClosed")
      <4>1. GoTo(r, "running") /\ UNCHANGED poolVars
        BY <1>3, <3>2 DEF Preflight
      <4>2. QED
        BY <1>0, <2>2, <4>1, HoldersKept DEF Places, Typed, poolVars
    <3>3. QED
      BY <3>1, <3>2
  <2>4. Typed'
    BY <1>0, <1>3, <2>3 DEF Typed, Preflight, Return, GoTo, streamVars, workerVars, Places, Answers
  <2>5. InOrder'
    BY <1>0, <1>3, <2>1 DEF Typed, InOrder, Preflight, GoTo, streamVars
  <2>6. EvidenceOK'
    <3>1. /\ pc[r] = "admitted" /\ UNCHANGED <<outcome, sequence, next, file, skipped>>
          /\ policy' = policy /\ drops' \in {drops, drops + 1}
          /\ \A s \in Requests \ {r} : answer'[s] = answer[s]
      BY <1>0, <1>3 DEF Preflight, Return, Typed, streamVars, workerVars
    <3>2. QED
      BY <1>0, <2>1, <2>4, <3>1, EvidenceKept DEF InOrder, Places
  <2>7. QED
    BY <2>3, <2>4, <2>5, <2>6
<1>4. ASSUME (\E n \in Sizes : GuestAnswers(r, n)) \/ GuestFails(r)
      PROVE  Typed' /\ InOrder' /\ SlotsOK' /\ EvidenceOK'
  <2>1. /\ pc[r] = "running" /\ GoTo(r, "settled")
        /\ UNCHANGED <<answer, poolVars, streamVars, workerVars, policy, drops>>
        /\ \E o \in {"ok", "error", "shed"} : outcome' = [outcome EXCEPT ![r] = o]
    BY <1>4 DEF GuestAnswers, GuestFails
  <2>2. Typed'
    BY <1>0, <2>1 DEF Typed, GoTo, poolVars, streamVars, workerVars, Places, Outcomes
  <2>3. InOrder'
    BY <1>0, <2>1 DEF Typed, InOrder, GoTo, streamVars
  <2>4. SlotsOK'
    BY <1>0, <2>1, HoldersKept DEF Holders, Places
  <2>5. EvidenceOK'
    <3>1. \A s \in Requests \ {r} : outcome'[s] = outcome[s] /\ answer'[s] = answer[s]
      BY <1>0, <2>1 DEF Typed
    <3>2. QED
      BY <1>0, <2>1, <2>2, <3>1, EvidenceKept DEF Places, streamVars, workerVars
  <2>6. QED
    BY <2>2, <2>3, <2>4, <2>5
<1>5. ASSUME GuestPanics(r)
      PROVE  Typed' /\ InOrder' /\ SlotsOK' /\ EvidenceOK'
  <2>1. /\ pc[r] = "running" /\ GoTo(r, "done") /\ Release
        /\ answer' = [answer EXCEPT ![r] = "aborted"]
        /\ outcome' = [outcome EXCEPT ![r] = "panic"]
        /\ UNCHANGED <<streamVars, workerVars, policy, drops>>
    BY <1>5 DEF GuestPanics, Return
  <2>2. SlotsOK' /\ inUse' \in Nat /\ idle' \in Nat
    BY <1>0, <2>1, HolderLeaves DEF Holders
  <2>3. Typed'
    BY <1>0, <2>1, <2>2 DEF Typed, GoTo, streamVars, workerVars, Places, Outcomes, Answers
  <2>4. InOrder'
    BY <1>0, <2>1 DEF Typed, InOrder, GoTo, streamVars
  <2>5. EvidenceOK'
    <3>1. /\ outcome'[r] = "panic"
          /\ \A s \in Requests \ {r} : outcome'[s] = outcome[s] /\ answer'[s] = answer[s]
      BY <1>0, <2>1 DEF Typed
    <3>2. QED
      BY <1>0, <2>1, <2>3, <3>1, EvidenceKept DEF Places, streamVars, workerVars
  <2>6. QED
    BY <2>2, <2>3, <2>4, <2>5
<1>6. ASSUME DropPermit(r)
      PROVE  Typed' /\ InOrder' /\ SlotsOK' /\ EvidenceOK'
  <2>1. /\ pc[r] = "settled" /\ GoTo(r, "recording")
        /\ Release \/ Discard
        /\ UNCHANGED <<outcome, answer, streamVars, workerVars, policy, drops>>
    BY <1>6 DEF DropPermit
  <2>2. SlotsOK' /\ inUse' \in Nat /\ idle' \in Nat
    BY <1>0, <2>1, HolderLeaves DEF Holders
  <2>3. Typed'
    BY <1>0, <2>1, <2>2 DEF Typed, GoTo, streamVars, workerVars, Places
  <2>4. InOrder'
    BY <1>0, <2>1 DEF Typed, InOrder, GoTo, streamVars
  <2>5. EvidenceOK'
    BY <1>0, <2>1, <2>3, EvidenceKept DEF Places, streamVars, workerVars
  <2>6. QED
    BY <2>2, <2>3, <2>4, <2>5
<1>7. ASSUME Commit(r) \/ Deliver(r)
      PROVE  Typed' /\ InOrder' /\ SlotsOK' /\ EvidenceOK'
  <2>1. PICK q \in {"committed", "waiting"} : GoTo(r, q)
    BY <1>7 DEF Commit, Deliver
  <2>2. /\ pc[r] \in {"recording", "committed"}
        /\ UNCHANGED <<outcome, answer, poolVars, next, file, skipped, policy, drops>>
        /\ \A s \in Requests \ {r} : sequence'[s] = sequence[s]
    BY <1>0, <1>7 DEF Commit, Deliver, Typed, streamVars, workerVars
  <2>3. Typed'
    <3>1. sequence' \in [Requests -> Nat] /\ assigned' \in Nat
      BY <1>0, <1>7 DEF Typed, Commit, Deliver, streamVars
    <3>2. pending' \subseteq Nat
      <4>1. pending \subseteq Nat /\ sequence[r] \in Nat
        BY <1>0 DEF Typed
      <4>2. pending' = pending \/ pending' = pending \cup {sequence[r]}
        BY <1>7 DEF Commit, Deliver, workerVars
      <4>3. QED
        BY <4>1, <4>2
    <3>3. pc' \in [Requests -> Places]
      BY <1>0, <2>1 DEF Typed, GoTo, Places
    <3>4. QED
      BY <1>0, <2>2, <3>1, <3>2, <3>3 DEF Typed, poolVars
  <2>4. sequence'[r] > 0
    BY <1>0, <1>7 DEF Typed, InOrder, Commit, Deliver, streamVars
  <2>5. InOrder'
    BY <1>0, <2>1, <2>2, <2>4 DEF Typed, InOrder, GoTo
  <2>6. SlotsOK'
    BY <1>0, <2>1, <2>2, HoldersKept DEF Holders, Places
  <2>7. EvidenceOK'
    BY <1>0, <2>1, <2>2, <2>3, EvidenceKept DEF Places
  <2>8. QED
    BY <2>3, <2>5, <2>6, <2>7
<1>8. ASSUME PersistSucceeds(r) \/ PersistFails(r)
      PROVE  Typed' /\ InOrder' /\ SlotsOK' /\ EvidenceOK'
  <2>1. /\ pc[r] \in {"committed", "waiting"} /\ GoTo(r, "done")
        /\ UNCHANGED <<outcome, poolVars, streamVars, workerVars, policy>>
    BY <1>8 DEF PersistSucceeds, PersistFails, Return
  <2>2. AnswerOf(r) \in Answers
    BY <1>0, <2>1 DEF InOrder, AnswerOf, Answers
  <2>3. \/ /\ Passed(r)
           /\ answer' = [answer EXCEPT ![r] = AnswerOf(r)]
           /\ drops' = drops
        \/ /\ policy = "FailClosed"
           /\ answer' = [answer EXCEPT ![r] = "unaudited"]
           /\ drops' = drops
        \/ /\ policy # "FailClosed"
           /\ answer' = [answer EXCEPT ![r] = AnswerOf(r)]
           /\ drops' = drops + 1
    BY <1>8 DEF PersistSucceeds, PersistFails, Return
  <2>4. Typed'
    BY <1>0, <2>1, <2>2, <2>3
    DEF Typed, GoTo, poolVars, streamVars, workerVars, Places, Answers
  <2>5. InOrder'
    BY <1>0, <2>1 DEF Typed, InOrder, GoTo, streamVars
  <2>6. SlotsOK'
    BY <1>0, <2>1, HoldersKept DEF Holders, Places
  <2>7. Passed(r) => OnRecord(r)
    BY <1>0, <2>1 DEF Passed, OnRecord, InOrder, EvidenceOK, FrontierCovered, Typed
  <2>8. ASSUME NEW s \in Requests
        PROVE  /\ OnRecord(s)' <=> OnRecord(s)
               /\ s # r => (Settled(s)' <=> Settled(s)) /\ answer'[s] = answer[s]
    BY <1>0, <2>1, <2>3 DEF OnRecord, Settled, Typed, GoTo, streamVars, workerVars
  <2>9. NoAnswerWithoutEvidence'
    <3>1. policy' = policy
      BY <2>1
    <3>2. policy = "FailClosed" => OnRecord(r) \/ answer'[r] = "unaudited"
      BY <1>0, <2>3, <2>7 DEF Typed
    <3>3. QED
      BY <1>0, <2>8, <3>1, <3>2 DEF EvidenceOK, NoAnswerWithoutEvidence
  <2>10. IsFiniteSet(Unrecorded') /\ DropsCounted'
    <3>1. CASE OnRecord(r) \/ policy = "FailClosed"
      <4>1. CASE OnRecord(r)
        <5>1. Unrecorded' \subseteq Unrecorded
          BY <2>8, <4>1 DEF Unrecorded
        <5>2. drops' \in {drops, drops + 1}
          BY <2>3
        <5>3. QED
          BY <1>0, <2>1, <5>1, <5>2, NothingOwed
      <4>2. CASE policy = "FailClosed"
        <5>1. Unrecorded' \subseteq Unrecorded \cup {r}
          BY <2>8 DEF Unrecorded
        <5>2. IsFiniteSet(Unrecorded \cup {r})
          BY <1>0, FS_AddElement DEF EvidenceOK
        <5>3. QED
          BY <2>1, <4>2, <5>1, <5>2, FS_Subset DEF DropsCounted
      <4>3. QED
        BY <3>1, <4>1, <4>2
    <3>2. CASE ~OnRecord(r) /\ policy # "FailClosed"
      <4>1. drops' = drops + 1
        BY <2>3, <2>7, <3>2
      <4>2. Unrecorded' \subseteq Unrecorded \cup {r} /\ r \notin Unrecorded
        BY <2>1, <2>8 DEF Unrecorded, Settled
      <4>3. /\ IsFiniteSet(Unrecorded \cup {r})
            /\ Cardinality(Unrecorded \cup {r}) = Cardinality(Unrecorded) + 1
            /\ Cardinality(Unrecorded) \in Nat
        BY <1>0, <4>2, FS_AddElement, FS_CardinalityType DEF EvidenceOK
      <4>4. /\ IsFiniteSet(Unrecorded')
            /\ Cardinality(Unrecorded') <= Cardinality(Unrecorded) + 1
            /\ Cardinality(Unrecorded') \in Nat
        BY <4>2, <4>3, FS_Subset, FS_CardinalityType
      <4>5. QED
        BY <1>0, <2>1, <4>1, <4>3, <4>4 DEF EvidenceOK, DropsCounted, Typed
    <3>3. QED
      BY <3>1, <3>2
  <2>11. FrontierCovered'
    BY <1>0, <2>1 DEF EvidenceOK, FrontierCovered, workerVars
  <2>12. QED
    BY <2>4, <2>5, <2>6, <2>9, <2>10, <2>11 DEF EvidenceOK
<1>9. QED
  BY <1>1, <1>2, <1>3, <1>4, <1>5, <1>6, <1>7, <1>8 DEF Step, Handler, GuestCall

(* The worker writes and skips at the frontier, so that the record only grows. *)
LEMMA WorkerIInv == IInv /\ Worker => IInv'
<1> SUFFICES ASSUME IInv, Worker PROVE IInv'
  OBVIOUS
<1>0. Typed /\ InOrder /\ SlotsOK /\ EvidenceOK
  BY DEF IInv, Finite, SlotsOK, EvidenceOK
<1>1. /\ UNCHANGED <<pc, outcome, answer, sequence, assigned, inUse, idle, drops, policy>>
      /\ pending' \subseteq pending
      /\ \/ next' = next + 1 /\ file' = file \cup {next} /\ skipped' = skipped
         \/ next' = next + 1 /\ file' = file /\ skipped' = skipped \cup {next}
         \/ next' = next /\ file' = file /\ skipped' = skipped
  BY DEF Worker, WriteRow, SkipMissing, WorkerFails, requestVars, poolVars, streamVars
<1>2. Typed'
  <2>1. next \in Nat /\ file \subseteq Nat /\ skipped \subseteq Nat /\ pending \subseteq Nat
    BY <1>0 DEF Typed
  <2>2. next' \in Nat /\ file' \subseteq Nat /\ skipped' \subseteq Nat
    <3>1. next' \in Nat
      BY <1>1, <2>1
    <3>2. file' = file \/ file' = file \cup {next}
      BY <1>1
    <3>3. skipped' = skipped \/ skipped' = skipped \cup {next}
      BY <1>1
    <3>4. file' \subseteq Nat /\ skipped' \subseteq Nat
      BY <2>1, <3>2, <3>3, Zenon
    <3>5. QED
      BY <3>1, <3>4
  <2>3. pending' \subseteq Nat
    BY <1>1, <2>1
  <2>4. QED
    BY <1>0, <1>1, <2>2, <2>3 DEF Typed
<1>3. InOrder' /\ SlotsOK'
  BY <1>0, <1>1 DEF InOrder, SlotsOK, SlotsConserved, Holders
<1>4. FrontierCovered'
  BY <1>0, <1>1 DEF Typed, EvidenceOK, FrontierCovered
<1>5. ASSUME NEW r \in Requests
      PROVE  (Settled(r)' <=> Settled(r)) /\ (OnRecord(r) => OnRecord(r)')
  BY <1>1 DEF Settled, OnRecord
<1>6. NoAnswerWithoutEvidence'
  BY <1>0, <1>1, <1>5 DEF EvidenceOK, NoAnswerWithoutEvidence
<1>7. Unrecorded' \subseteq Unrecorded
  BY <1>5 DEF Unrecorded
<1>8. IsFiniteSet(Unrecorded') /\ DropsCounted'
  BY <1>0, <1>1, <1>7, NothingOwed
<1>9. QED
  BY <1>2, <1>3, <1>4, <1>6, <1>8 DEF IInv, Finite, SlotsOK

(* Every step preserves the invariant: the drain touches neither the counts nor
   the evidence. *)
LEMMA NextIInv == IInv /\ [Next]_vars => IInv'
<1> SUFFICES ASSUME IInv, [Next]_vars PROVE IInv'
  OBVIOUS
<1>1. ASSUME NEW r \in Requests, Step(r) PROVE IInv'
  BY <1>1, StepIInv
<1>2. ASSUME Worker PROVE IInv'
  BY <1>2, WorkerIInv
<1>3. ASSUME BeginDrain \/ UNCHANGED vars PROVE IInv'
  <2>1. /\ UNCHANGED <<pc, outcome, answer, inUse, idle, drops, policy>>
        /\ UNCHANGED <<sequence, assigned, pending, next, file, skipped>>
    BY <1>3 DEF BeginDrain, vars, requestVars, poolVars, streamVars, workerVars
  <2>2. Holders' = Holders
    BY <2>1 DEF Holders
  <2>3. Unrecorded' = Unrecorded
    BY <2>1 DEF Unrecorded, Settled, OnRecord
  <2>4. Typed' /\ InOrder' /\ Finite' /\ FrontierCovered'
    BY <2>1, <2>2, <2>3 DEF IInv, Typed, InOrder, Finite, FrontierCovered
  <2>5. SlotsConserved' /\ DropsCounted'
    BY <2>1, <2>2, <2>3 DEF IInv, SlotsConserved, DropsCounted
  <2>6. NoAnswerWithoutEvidence'
    BY <2>1 DEF IInv, NoAnswerWithoutEvidence, Settled, OnRecord
  <2>7. QED
    BY <2>4, <2>5, <2>6 DEF IInv
<1>4. QED
  BY <1>1, <1>2, <1>3 DEF Next

-----------------------------------------------------------------------------
(* The invariant holds in every reachable state of handle_request's model. *)
THEOREM Invariance == Spec => []IInv
<1>1. QED
  BY InitIInv, NextIInv, PTL DEF Spec

(* Pool: in_use counts exactly the requests that hold a slot, and slots in use
   and idle never exceed the capacity, on every path of handle_request. *)
THEOREM SlotsAlwaysConserved == Spec => []SlotsConserved
<1>1. IInv => SlotsConserved
  BY DEF IInv
<1>2. QED
  BY <1>1, Invariance, PTL

(* AuditFailurePolicy::FailClosed: a client gets the outcome of a guest call only
   with its row in the file or on record as given up by the worker. *)
THEOREM AnswersAlwaysEvidenced == Spec => []NoAnswerWithoutEvidence
<1>1. IInv => NoAnswerWithoutEvidence
  BY DEF IInv
<1>2. QED
  BY <1>1, Invariance, PTL

(* AuditFailurePolicy::FailOpenWithAlarm: note_audit_drop has counted every
   answer whose row is neither in the file nor on record as given up. *)
THEOREM DropsAlwaysCounted == Spec => []DropsCounted
<1>1. IInv => DropsCounted
  BY DEF IInv
<1>2. QED
  BY <1>1, Invariance, PTL

-----------------------------------------------------------------------------
(* The buffer budget. *)

Held == [r \in Requests |-> body[r] + reply[r]]

(* A request has no permit before it takes one: its permits are dropped when
   handle_request returns and taken at most once each. *)
PermitsInOrder ==
    \A r \in Requests :
        /\ pc[r] = "start" => body[r] = 0
        /\ pc[r] \in {"start", "buffered", "admitted", "running"} => reply[r] = 0

BudgetTyped ==
    /\ pc \in [Requests -> Places]
    /\ body \in [Requests -> {0} \cup Sizes]
    /\ reply \in [Requests -> {0} \cup Sizes]
    /\ free \in Nat
    /\ draining \in BOOLEAN
    /\ worker \in {"up", "failed"}

(* The inductive invariant of the budget. *)
BudgetInv ==
    /\ BudgetTyped
    /\ PermitsInOrder
    /\ IsFiniteSet(Units(Held, Requests))
    /\ BudgetConserved

LEMMA PermitsAreNaturals ==
    ASSUME NEW h \in [Requests -> {0} \cup Sizes]
    PROVE  \A r \in Requests : h[r] \in Nat
<1>1. \A r \in Requests : h[r] \in {0} \cup Sizes
  OBVIOUS
<1>2. \A n \in {0} \cup Sizes : n \in Nat
  BY RequestAssumption
<1> QED
  BY <1>1, <1>2

(* The units that one request contributes. *)
LEMMA PermitUnits ==
    ASSUME NEW r, NEW n \in Nat
    PROVE  IsFiniteSet({r} \X (1..n)) /\ Cardinality({r} \X (1..n)) = n
<1> DEFINE f == [b \in 1..n |-> <<r, b>>]
<1>1. f \in Bijection(1..n, {r} \X (1..n))
  <2>1. f \in [1..n -> {r} \X (1..n)]
    OBVIOUS
  <2>2. \A b, c \in 1..n : f[b] = f[c] => b = c
    OBVIOUS
  <2>3. \A u \in {r} \X (1..n) : \E b \in 1..n : f[b] = u
    OBVIOUS
  <2> HIDE DEF f
  <2> QED
    BY <2>1, <2>2, <2>3 DEF Bijection, Injection, Surjection, IsInjective
<1>2. IsFiniteSet(1..n) /\ Cardinality(1..n) = n
  BY FS_Interval
<1> QED
  BY <1>1, <1>2, FS_Bijection DEF ExistsBijection

(* The sum is what the others hold and what one request holds. *)
LEMMA PermitShare ==
    ASSUME NEW h, NEW r \in Requests, h[r] \in Nat,
           IsFiniteSet(Units(h, Requests \ {r}))
    PROVE  /\ IsFiniteSet(Units(h, Requests))
           /\ SumOf(h, Requests) = SumOf(h, Requests \ {r}) + h[r]
           /\ SumOf(h, Requests \ {r}) \in Nat
<1> DEFINE U == Units(h, Requests \ {r})
           V == {r} \X (1..h[r])
<1>1. Units(h, Requests) = U \cup V /\ U \cap V = {}
  BY DEF Units
<1>2. IsFiniteSet(V) /\ Cardinality(V) = h[r]
  BY PermitUnits
<1>3. IsFiniteSet(U) /\ Cardinality(U) \in Nat
  BY FS_CardinalityType
<1> HIDE DEF U, V
<1>4. /\ IsFiniteSet(U \cup V)
      /\ Cardinality(U \cup V) = Cardinality(U) + Cardinality(V) - Cardinality(U \cap V)
  BY <1>2, <1>3, FS_Union
<1>5. Cardinality(U \cap V) = 0
  BY <1>1, FS_EmptySet
<1>6. Cardinality(U \cup V) = Cardinality(U) + h[r]
  BY <1>2, <1>3, <1>4, <1>5
<1> QED
  BY <1>1, <1>3, <1>4, <1>6 DEF SumOf, U

(* A request's share of the sum changes. *)
LEMMA PermitSum ==
    ASSUME NEW f, NEW g, NEW r \in Requests, f[r] \in Nat, g[r] \in Nat,
           \A p \in Requests : p # r => g[p] = f[p],
           IsFiniteSet(Units(f, Requests))
    PROVE  /\ IsFiniteSet(Units(g, Requests))
           /\ SumOf(g, Requests) = SumOf(f, Requests) - f[r] + g[r]
           /\ SumOf(f, Requests) \in Nat
<1> DEFINE others == Requests \ {r}
<1>1. Units(g, others) = Units(f, others)
  BY DEF Units
<1>2. Units(f, others) \in SUBSET Units(f, Requests)
  BY DEF Units
<1>3. IsFiniteSet(Units(f, others)) /\ IsFiniteSet(Units(g, others))
  BY <1>1, <1>2, FS_Subset
<1>4. /\ SumOf(f, Requests) = SumOf(f, others) + f[r]
      /\ IsFiniteSet(Units(g, Requests))
      /\ SumOf(g, Requests) = SumOf(g, others) + g[r]
      /\ SumOf(f, others) \in Nat
  BY <1>3, PermitShare
<1>5. SumOf(g, others) = SumOf(f, others)
  BY <1>1 DEF SumOf
<1> HIDE DEF others
<1> QED
  BY <1>4, <1>5

(* Permits move between the semaphore and one request. *)
PermitsMove(r) ==
    /\ \A p \in Requests : p # r => body'[p] = body[p] /\ reply'[p] = reply[p]
    /\ free' + (body'[r] + reply'[r]) = free + (body[r] + reply[r])

LEMMA MovedPermits ==
    ASSUME BudgetInv, BudgetTyped', NEW r \in Requests, PermitsMove(r)
    PROVE  IsFiniteSet(Units(Held', Requests)) /\ BudgetConserved'
<1>1. /\ \A p \in Requests : body[p] \in Nat /\ reply[p] \in Nat
      /\ \A p \in Requests : body'[p] \in Nat /\ reply'[p] \in Nat
      /\ free \in Nat /\ free' \in Nat
  BY PermitsAreNaturals DEF BudgetInv, BudgetTyped
<1> DEFINE f == Held
           g == Held'
<1>2. /\ \A p \in Requests : f[p] = body[p] + reply[p]
      /\ \A p \in Requests : g[p] = body'[p] + reply'[p]
  BY DEF Held
<1>3. f[r] \in Nat /\ g[r] \in Nat /\ \A p \in Requests : p # r => g[p] = f[p]
  BY <1>1, <1>2 DEF PermitsMove
<1>4. IsFiniteSet(Units(f, Requests)) /\ free + SumOf(f, Requests) = Budget
  BY DEF BudgetInv, BudgetConserved, Held
<1> HIDE DEF f, g
<1>5. /\ IsFiniteSet(Units(g, Requests))
      /\ SumOf(g, Requests) = SumOf(f, Requests) - f[r] + g[r]
      /\ SumOf(f, Requests) \in Nat
  BY <1>3, <1>4, PermitSum
<1>6. free' + g[r] = free + f[r]
  BY <1>2 DEF PermitsMove
<1>7. free' + SumOf(g, Requests) = Budget
  BY <1>1, <1>3, <1>4, <1>5, <1>6
<1> QED
  BY <1>5, <1>7 DEF g, Held, BudgetConserved

LEMMA BudgetMoves ==
    ASSUME BudgetInv, BudgetTyped', NEW r \in Requests,
           \A p \in Requests : p # r => body'[p] = body[p] /\ reply'[p] = reply[p],
           free' + (body'[r] + reply'[r]) = free + (body[r] + reply[r])
    PROVE  IsFiniteSet(Units(Held', Requests)) /\ BudgetConserved'
BY MovedPermits DEF PermitsMove

(* handle_request returns: its permits go back. *)
LEMMA ReturnBudget ==
    ASSUME BudgetInv, NEW r \in Requests, NEW with, Return(r, with),
           draining' \in BOOLEAN, worker' \in {"up", "failed"}
    PROVE  BudgetInv'
<1>1. /\ pc' = [pc EXCEPT ![r] = "done"] /\ free' = free + body[r] + reply[r]
      /\ body' = [body EXCEPT ![r] = 0] /\ reply' = [reply EXCEPT ![r] = 0]
  BY DEF Return, GoTo
<1>2. BudgetTyped /\ PermitsInOrder /\ body[r] \in Nat /\ reply[r] \in Nat /\ free \in Nat
  BY PermitsAreNaturals DEF BudgetInv, BudgetTyped
<1>3. BudgetTyped'
  <2>1. free' \in Nat
    BY <1>1, <1>2
  <2> QED
    BY <1>1, <1>2, <2>1 DEF BudgetTyped, Places
<1>4. PermitsInOrder'
  BY <1>1, <1>2 DEF PermitsInOrder, BudgetTyped
<1>5. /\ \A p \in Requests : p # r => body'[p] = body[p] /\ reply'[p] = reply[p]
      /\ body'[r] = 0 /\ reply'[r] = 0
  BY <1>1, <1>2 DEF BudgetTyped
<1>6. free' + (body'[r] + reply'[r]) = free + (body[r] + reply[r])
  BY <1>1, <1>2, <1>5
<1>7. IsFiniteSet(Units(Held', Requests)) /\ BudgetConserved'
  BY <1>3, <1>5, <1>6, BudgetMoves
<1> QED
  BY <1>3, <1>4, <1>7 DEF BudgetInv

(* A step that keeps the permits. *)
LEMMA PermitsKept ==
    ASSUME BudgetInv, UNCHANGED <<body, reply, free>>,
           draining' \in BOOLEAN, worker' \in {"up", "failed"},
           pc' \in [Requests -> Places],
           \A r \in Requests :
               /\ pc'[r] = "start" => pc[r] = "start"
               /\ pc'[r] \in {"start", "buffered", "admitted", "running"}
                    => pc[r] \in {"start", "buffered", "admitted", "running"}
    PROVE  BudgetInv'
<1>1. BudgetTyped' /\ PermitsInOrder'
  BY DEF BudgetInv, BudgetTyped, PermitsInOrder
<1>2. IsFiniteSet(Units(Held, Requests))' /\ BudgetConserved'
  <2>1. IsFiniteSet(Units(Held, Requests)) /\ BudgetConserved
    BY DEF BudgetInv
  <2>2. Held' = Held
    BY DEF Held
  <2>3. IsFiniteSet(Units(Held, Requests))'
    BY <2>1, <2>2
  <2>4. BudgetConserved'
    BY <2>1 DEF BudgetConserved
  <2> QED
    BY <2>3, <2>4
<1> QED
  BY <1>1, <1>2 DEF BudgetInv

LEMMA StepBudget == ASSUME BudgetInv, NEW r \in Requests, Step(r) PROVE BudgetInv'
<1>0. /\ BudgetTyped /\ PermitsInOrder /\ pc \in [Requests -> Places]
      /\ body[r] \in Nat /\ reply[r] \in Nat /\ free \in Nat
      /\ draining \in BOOLEAN /\ worker \in {"up", "failed"}
  BY PermitsAreNaturals DEF BudgetInv, BudgetTyped
<1>1. ASSUME NEW n \in Sizes, BufferRequest(r, n) PROVE BudgetInv'
  <2>1. pc[r] = "start" /\ body[r] = 0 /\ reply[r] = 0 /\ n \in Nat
        /\ UNCHANGED <<draining, worker>>
    BY <1>0, <1>1, RequestAssumption DEF BufferRequest, PermitsInOrder, poolVars, workerVars
  <2>2. CASE n > free /\ Return(r, "overloaded")
    BY <1>0, <2>1, <2>2, ReturnBudget
  <2>3. CASE /\ n <= free /\ free' = free - n /\ body' = [body EXCEPT ![r] = n]
             /\ pc' = [pc EXCEPT ![r] = "buffered"] /\ reply' = reply
    <3>1. BudgetTyped'
      <4>1. free' \in Nat
        BY <1>0, <2>1, <2>3
      <4> QED
        BY <1>0, <2>1, <2>3, <4>1 DEF BudgetTyped, Places
    <3>2. PermitsInOrder'
      BY <1>0, <2>1, <2>3 DEF PermitsInOrder, BudgetTyped
    <3>3. /\ \A p \in Requests : p # r => body'[p] = body[p] /\ reply'[p] = reply[p]
          /\ body'[r] = n /\ reply'[r] = reply[r]
      BY <1>0, <2>3 DEF BudgetTyped
    <3>4. free' + (body'[r] + reply'[r]) = free + (body[r] + reply[r])
      BY <1>0, <2>1, <2>3, <3>3
    <3>5. IsFiniteSet(Units(Held', Requests)) /\ BudgetConserved'
      BY <3>1, <3>3, <3>4, BudgetMoves
    <3> QED
      BY <3>1, <3>2, <3>5 DEF BudgetInv
  <2> QED
    BY <1>1, <2>2, <2>3 DEF BufferRequest, GoTo
<1>2. ASSUME NEW m \in Sizes, GuestAnswers(r, m) PROVE BudgetInv'
  <2>1. /\ pc[r] = "running" /\ reply[r] = 0 /\ m \in Nat
        /\ pc' = [pc EXCEPT ![r] = "settled"]
        /\ UNCHANGED <<body, draining, worker>>
    BY <1>0, <1>2, RequestAssumption DEF GuestAnswers, GoTo, PermitsInOrder, poolVars, workerVars
  <2>2. CASE UNCHANGED <<free, reply>>
    <3>1. /\ pc' \in [Requests -> Places]
          /\ \A p \in Requests : pc'[p] = pc[p] \/ pc'[p] = "settled"
      BY <1>0, <2>1 DEF Places
    <3> QED
      BY <1>0, <2>1, <2>2, <3>1, PermitsKept
  <2>3. CASE m <= free /\ free' = free - m /\ reply' = [reply EXCEPT ![r] = m]
    <3>1. BudgetTyped'
      <4>1. free' \in Nat
        BY <1>0, <2>1, <2>3
      <4> QED
        BY <1>0, <2>1, <2>3, <4>1 DEF BudgetTyped, Places
    <3>2. PermitsInOrder'
      BY <1>0, <2>1, <2>3 DEF PermitsInOrder, BudgetTyped
    <3>3. /\ \A p \in Requests : p # r => body'[p] = body[p] /\ reply'[p] = reply[p]
          /\ body'[r] = body[r] /\ reply'[r] = m
      BY <1>0, <2>1, <2>3 DEF BudgetTyped
    <3>4. free' + (body'[r] + reply'[r]) = free + (body[r] + reply[r])
      BY <1>0, <2>1, <2>3, <3>3
    <3>5. IsFiniteSet(Units(Held', Requests)) /\ BudgetConserved'
      BY <3>1, <3>3, <3>4, BudgetMoves
    <3> QED
      BY <3>1, <3>2, <3>5 DEF BudgetInv
  <2> QED
    BY <1>2, <2>2, <2>3 DEF GuestAnswers
<1>3. ASSUME NEW with, Return(r, with), draining' = draining, worker' = worker PROVE BudgetInv'
  BY <1>0, <1>3, ReturnBudget
<1>4. CASE GuestPanics(r) \/ PersistSucceeds(r) \/ PersistFails(r)
  BY <1>3, <1>4 DEF GuestPanics, PersistSucceeds, PersistFails, Release, GiveBack,
                    poolVars, workerVars
<1>5. ASSUME pc[r] # "start",
             \/ pc' = [pc EXCEPT ![r] = "admitted"] /\ pc[r] = "buffered"
             \/ pc' = [pc EXCEPT ![r] = "running"] /\ pc[r] = "admitted"
             \/ pc' = [pc EXCEPT ![r] = "settled"]
             \/ pc' = [pc EXCEPT ![r] = "recording"]
             \/ pc' = [pc EXCEPT ![r] = "committed"]
             \/ pc' = [pc EXCEPT ![r] = "waiting"],
             UNCHANGED <<body, reply, free, draining, worker>>
      PROVE  BudgetInv'
  <2>1. pc' \in [Requests -> Places]
    BY <1>0, <1>5 DEF Places
  <2>2. \A p \in Requests :
            /\ pc'[p] = "start" => pc[p] = "start"
            /\ pc'[p] \in {"start", "buffered", "admitted", "running"}
                 => pc[p] \in {"start", "buffered", "admitted", "running"}
    BY <1>0, <1>5
  <2> QED
    BY <1>0, <1>5, <2>1, <2>2, PermitsKept
<1>6. CASE AcquireSlot(r)
  <2>1. CASE Admits
    <3>1. /\ pc[r] = "buffered" /\ pc' = [pc EXCEPT ![r] = "admitted"]
          /\ UNCHANGED <<body, reply, free, draining, worker>>
      BY <1>6, <2>1 DEF AcquireSlot, GoTo, workerVars
    <3> QED
      BY <1>5, <3>1
  <2>2. CASE ~Admits
    BY <1>3, <1>6, <2>2 DEF AcquireSlot, poolVars, workerVars
  <2> QED
    BY <2>1, <2>2
<1>7. CASE Preflight(r)
  <2>1. CASE worker = "failed" /\ policy = "FailClosed"
    BY <1>3, <1>7, <2>1 DEF Preflight, Release, GiveBack, workerVars
  <2>2. CASE ~(worker = "failed" /\ policy = "FailClosed")
    BY <1>5, <1>7, <2>2 DEF Preflight, GoTo, poolVars, workerVars
  <2> QED
    BY <2>1, <2>2
<1>8. CASE GuestFails(r) \/ DropPermit(r)
  BY <1>5, <1>8 DEF GuestFails, DropPermit, GoTo, Release, Discard, GiveBack,
                    poolVars, workerVars
<1>9. CASE Commit(r) \/ Deliver(r)
  BY <1>5, <1>9 DEF Commit, Deliver, GoTo, poolVars, workerVars
<1> QED
  BY <1>1, <1>2, <1>4, <1>6, <1>7, <1>8, <1>9 DEF Step, Handler, GuestCall

LEMMA InitBudget == Init => BudgetInv
<1> SUFFICES ASSUME Init PROVE BudgetInv
  OBVIOUS
<1>1. BudgetTyped /\ PermitsInOrder
  BY RequestAssumption DEF Init, BudgetTyped, PermitsInOrder, Places
<1>2. \A r \in Requests : Held[r] = 0
  BY DEF Init, Held
<1>3. IsFiniteSet(Units(Held, Requests)) /\ SumOf(Held, Requests) = 0
  BY <1>2, FS_EmptySet DEF Units, SumOf
<1>4. free + SumOf(Held, Requests) = Budget
  BY <1>3, RequestAssumption DEF Init
<1> QED
  BY <1>1, <1>3, <1>4 DEF BudgetInv, BudgetConserved, Held

LEMMA NextBudget == BudgetInv /\ [Next]_vars => BudgetInv'
<1> SUFFICES ASSUME BudgetInv, [Next]_vars PROVE BudgetInv'
  OBVIOUS
<1>1. ASSUME NEW r \in Requests, Step(r) PROVE BudgetInv'
  BY <1>1, StepBudget
<1>2. CASE Worker \/ BeginDrain \/ UNCHANGED vars
  <2>1. /\ UNCHANGED <<pc, body, reply, free>>
        /\ draining' \in BOOLEAN /\ worker' \in {"up", "failed"}
    BY <1>2 DEF Worker, WriteRow, SkipMissing, WorkerFails, BeginDrain, vars, requestVars,
                poolVars, workerVars, BudgetInv, BudgetTyped
  <2>2. pc' \in [Requests -> Places]
    BY <2>1 DEF BudgetInv, BudgetTyped
  <2> QED
    BY <2>1, <2>2, PermitsKept
<1> QED
  BY <1>1, <1>2 DEF Next

(* The buffer semaphore: on every path of handle_request its free permits and
   those the requests hold add up to BUFFER_BUDGET_BYTES. *)
THEOREM BudgetAlwaysConserved == Spec => []BudgetConserved
<1>1. Spec => []BudgetInv
  BY InitBudget, NextBudget, PTL DEF Spec
<1>2. BudgetInv => BudgetConserved
  BY DEF BudgetInv
<1> QED
  BY <1>1, <1>2, PTL

(* Every variable has its type: the semaphore never holds more than its budget
   and the pool never more slots than its capacity. *)
THEOREM TypeCorrect == Spec => []TypeOK
<1>1. Spec => []BudgetInv
  BY InitBudget, NextBudget, PTL DEF Spec
<1>2. BudgetInv => free \in 0..Budget
  <2> SUFFICES ASSUME BudgetInv PROVE free \in 0..Budget
    OBVIOUS
  <2>1. free \in Nat /\ free + SumOf(Held, Requests) = Budget
    BY DEF BudgetInv, BudgetTyped, BudgetConserved, Held
  <2>2. SumOf(Held, Requests) \in Nat
    BY FS_CardinalityType DEF BudgetInv, SumOf
  <2> QED
    BY <2>1, <2>2, RequestAssumption
<1>3. IInv => inUse \in 0..Capacity /\ idle \in 0..Capacity
  BY RequestAssumption DEF IInv, Typed, SlotsConserved
<1>4. IInv /\ BudgetInv => TypeOK
  BY <1>2, <1>3 DEF IInv, Typed, BudgetInv, BudgetTyped, TypeOK
<1> QED
  BY <1>1, <1>4, Invariance, PTL
=============================================================================
