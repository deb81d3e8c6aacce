------------------------ MODULE AuditAppenderProofs ------------------------
(* Proofs about AuditAppender, for every number of requests and rows and     *)
(* every queue bound and batch size.                                         *)
EXTENDS AuditAppender, FiniteSetTheorems, TLAPS

(* The rows of a request that has begun to persist have been committed. *)
RowsCommitted ==
    \A p \in Producers :
        call[p] # "idle" => /\ first[p] >= 1
                            /\ count[p] >= 1
                            /\ sent[p] <= count[p]
                            /\ first[p] + count[p] - 1 <= last

(* A worker that may still write has everything in the file behind its
   frontier.  A failed batch leaves rows past it, and ends the worker. *)
FileBehind == at # "stopped" => \A i \in 1..Len(file) : file[i] < next

(* The inductive invariant. *)
IInv ==
    /\ TypeOK
    /\ RowsCommitted
    /\ NoStrandedRow
    /\ FileBehind
    /\ FileInOrder
    /\ RowsAccounted

USE DEF Counters, Calls

-----------------------------------------------------------------------------
(* Appending consecutive rows from n on to a file that is behind n. *)
LEMMA AppendOrdered ==
    ASSUME NEW f \in Seq(Nat), NEW n \in Nat, NEW k \in Nat,
           \A i \in 1..Len(f) : f[i] < n,
           \A i, j \in 1..Len(f) : i < j => f[i] < f[j],
           NEW g, g = f \o [i \in 1..k |-> n + i - 1]
    PROVE  /\ g \in Seq(Nat)
           /\ Len(g) = Len(f) + k
           /\ \A i \in 1..Len(g) : g[i] < n + k
           /\ \A i, j \in 1..Len(g) : i < j => g[i] < g[j]
<1> DEFINE r == [i \in 1..k |-> n + i - 1]
<1>1. r \in Seq(Nat) /\ Len(r) = k
  <2>1. r \in [1..k -> Nat]
    OBVIOUS
  <2> QED
    BY <2>1
<1>2. /\ g \in Seq(Nat)
      /\ Len(g) = Len(f) + k
      /\ \A i \in 1..Len(g) : g[i] = IF i <= Len(f) THEN f[i] ELSE n + (i - Len(f)) - 1
  BY <1>1
<1>3. \A i \in 1..Len(g) : g[i] < n + k
  BY <1>2
<1>4. ASSUME NEW i \in 1..Len(g), NEW j \in 1..Len(g), i < j PROVE g[i] < g[j]
  BY <1>2, <1>4
<1> QED
  BY <1>2, <1>3, <1>4

(* The buffer is finite. *)
LEMMA PendingFinite ==
    ASSUME TypeOK
    PROVE  IsFiniteSet(pending) /\ Cardinality(pending) \in Nat
<1>1. IsFiniteSet(Sequences1)
  BY FS_Interval, AppenderAssumption DEF Sequences1
<1> QED
  BY <1>1, FS_Subset, FS_CardinalityType DEF TypeOK, WorkerTyped

(* Taking a run of k rows leaves k rows less. *)
LEMMA RunTaken ==
    ASSUME TypeOK, NEW k \in Nat, NEW d \in Nat, d <= k, IsRun(k)
    PROVE  /\ Cardinality(pending \ (next .. (next + d - 1))) = Cardinality(pending) - d
           /\ d <= Cardinality(pending)
<1>1. next .. (next + d - 1) \subseteq pending
  <2> SUFFICES ASSUME NEW s \in next .. (next + d - 1) PROVE s \in pending
    OBVIOUS
  <2>1. next \in Nat /\ s - next \in 0..(k - 1) /\ next + (s - next) = s
    BY DEF TypeOK, WorkerTyped
  <2> QED
    BY <2>1 DEF IsRun
<1>2. Cardinality(next .. (next + d - 1)) = d
  BY FS_Interval DEF TypeOK, WorkerTyped
<1>3. pending \cap (next .. (next + d - 1)) = next .. (next + d - 1)
  BY <1>1
<1>4. IsFiniteSet(pending) /\ Cardinality(pending) \in Nat
  BY PendingFinite
<1>5. Cardinality(pending \ (next .. (next + d - 1)))
        = Cardinality(pending) - Cardinality(pending \cap (next .. (next + d - 1)))
  BY <1>4, FS_Difference
<1>6. Cardinality(next .. (next + d - 1)) <= Cardinality(pending)
  BY <1>1, <1>4, FS_Subset
<1> QED
  BY <1>2, <1>3, <1>5, <1>6

-----------------------------------------------------------------------------
(* The invariant holds initially ... *)
LEMMA InitIInv == Init => IInv
<1> SUFFICES ASSUME Init PROVE IInv
  OBVIOUS
<1>1. RequestsTyped
  BY AppenderAssumption DEF Init, RequestsTyped
<1>2. QueueTyped
  BY AppenderAssumption DEF Init, QueueTyped
<1>3. WorkerTyped
  BY DEF Init, WorkerTyped
<1>4. Cardinality(pending) = 0
  BY FS_EmptySet DEF Init
<1> QED
  BY <1>1, <1>2, <1>3, <1>4 DEF Init, IInv, TypeOK, RowsCommitted, NoStrandedRow,
     FileBehind, FileInOrder, RowsAccounted

(* What a request does leaves the worker alone ... *)
LEMMA WorkerUntouched ==
    ASSUME IInv, UNCHANGED workerVars
    PROVE  (WorkerTyped /\ NoStrandedRow /\ FileBehind /\ FileInOrder /\ RowsAccounted)'
<1>1. WorkerTyped'
  BY DEF IInv, TypeOK, WorkerTyped, workerVars
<1> QED
  BY <1>1 DEF IInv, workerVars, NoStrandedRow, FileBehind, FileInOrder, RowsAccounted

(* ... and what the worker does, except for its answers, the requests. *)
LEMMA RequestsUntouched ==
    ASSUME IInv, UNCHANGED requestVars
    PROVE  RequestsTyped' /\ RowsCommitted'
<1>1. RequestsTyped'
  BY DEF IInv, TypeOK, RequestsTyped, requestVars
<1> QED
  BY <1>1 DEF IInv, RowsCommitted, requestVars

LEMMA RequestIInv ==
    ASSUME IInv, NEW p \in Producers, Request(p) PROVE IInv'
<1> USE AppenderAssumption
<1>0. RequestsTyped /\ QueueTyped /\ RowsCommitted
  BY DEF IInv, TypeOK
<1>1. ASSUME UNCHANGED workerVars, RequestsTyped', QueueTyped', RowsCommitted' PROVE IInv'
  BY <1>1, WorkerUntouched DEF IInv, TypeOK
<1>2. UNCHANGED <<queue, senders, handed>> => QueueTyped'
  BY <1>0 DEF QueueTyped
<1>3. ASSUME NEW n \in 1..MaxRows, Commit(p, n) PROVE IInv'
  <2>1. RequestsTyped'
    BY <1>0, <1>3 DEF Commit, RequestsTyped
  <2>2. RowsCommitted'
    BY <1>0, <1>3 DEF Commit, RequestsTyped, RowsCommitted
  <2> QED
    BY <1>1, <1>2, <1>3, <2>1, <2>2 DEF Commit
<1>4. CASE Send(p)
  <2>0. /\ first[p] \in Nat /\ count[p] \in Nat /\ sent[p] \in Nat /\ last \in Nat
        /\ first[p] >= 1 /\ count[p] >= 1 /\ sent[p] <= count[p]
        /\ first[p] + count[p] - 1 <= MaxSequence
    BY <1>0, <1>4 DEF Send, RequestsTyped, RowsCommitted
  <2>1. CASE sent[p] < count[p]
    <3>1. first[p] + sent[p] \in Sequences1
      BY <2>0, <2>1 DEF Sequences1
    <3>2. Row(first[p] + sent[p]) \in Work
      BY <3>1 DEF Row, Work
    <3>3. QueueTyped'
      BY <1>0, <1>4, <2>1, <3>1, <3>2 DEF Send, HasRoom, QueueTyped
    <3>4. sent' = [sent EXCEPT ![p] = @ + 1] /\ UNCHANGED <<last, call, first, count, attempt>>
      BY <1>4, <2>1 DEF Send
    <3>5. RequestsTyped'
      BY <1>0, <2>0, <2>1, <3>4 DEF RequestsTyped
    <3>6. RowsCommitted'
      BY <1>0, <2>0, <2>1, <3>4 DEF RequestsTyped, RowsCommitted
    <3> QED
      BY <1>1, <1>4, <3>3, <3>5, <3>6 DEF Send
  <2>2. CASE ~(sent[p] < count[p])
    <3>1. first[p] + count[p] - 1 \in Sequences1
      BY <2>0 DEF Sequences1
    <3>2. attempt[p] \in 0..MaxAttempts
      BY <1>0 DEF RequestsTyped
    <3>3. Barrier(p) \in Work
      BY <3>1, <3>2 DEF Barrier, Work
    <3>4. QueueTyped'
      BY <1>0, <1>4, <2>2, <3>3 DEF Send, HasRoom, QueueTyped
    <3>5. call' = [call EXCEPT ![p] = "waiting"] /\ UNCHANGED <<last, first, count, sent, attempt>>
      BY <1>4, <2>2 DEF Send
    <3>6. RequestsTyped' /\ RowsCommitted'
      BY <1>0, <1>4, <3>5 DEF Send, RequestsTyped, RowsCommitted
    <3> QED
      BY <1>1, <1>4, <3>4, <3>6 DEF Send
  <2> QED
    BY <2>1, <2>2
<1>5. CASE Fail(p)
  <2>1. RequestsTyped' /\ RowsCommitted'
    BY <1>0, <1>5 DEF Fail, RequestsTyped, RowsCommitted
  <2> QED
    BY <1>1, <1>2, <1>5, <2>1 DEF Fail
<1>6. CASE Appended(p)
  <2>1. RequestsTyped' /\ RowsCommitted'
    BY <1>0, <1>6 DEF Appended, RequestsTyped, RowsCommitted
  <2> QED
    BY <1>1, <1>2, <1>6, <2>1 DEF Appended
<1>7. CASE Resubmit(p)
  <2>1. RequestsTyped'
    BY <1>0, <1>7 DEF Resubmit, RequestsTyped
  <2>2. RowsCommitted'
    BY <1>0, <1>7 DEF Resubmit, RequestsTyped, RowsCommitted
  <2> QED
    BY <1>1, <1>2, <1>7, <2>1, <2>2 DEF Resubmit
<1> QED
  BY <1>3, <1>4, <1>5, <1>6, <1>7 DEF Request

(* Answering barriers moves requests from "waiting" to "acked", no more. *)
LEMMA ClearBarriersTyped ==
    ASSUME IInv, NEW f, ClearBarriers(f), UNCHANGED <<last, first, count, sent, attempt>>
    PROVE  barriers' \in SUBSET Work /\ RequestsTyped' /\ RowsCommitted'
<1>1. barriers' \in SUBSET Work
  BY DEF ClearBarriers, IInv, TypeOK, WorkerTyped
<1>2. /\ call' \in [Producers -> Calls]
      /\ \A p \in Producers : call'[p] = call[p] \/ call[p] = "waiting"
  BY DEF ClearBarriers, IInv, TypeOK, RequestsTyped
<1>3. RequestsTyped'
  BY <1>2 DEF IInv, TypeOK, RequestsTyped
<1> QED
  BY <1>1, <1>2, <1>3 DEF IInv, RowsCommitted

LEMMA ReceiveIInv == ASSUME IInv, Receive PROVE IInv'
<1>0. RequestsTyped /\ QueueTyped /\ WorkerTyped
  BY DEF IInv, TypeOK
<1>1. Head(queue) \in Work /\ QueueTyped'
  BY <1>0, AppenderAssumption DEF Receive, QueueTyped
<1>2. at' \in {"drain", "write"} /\ at # "stopped"
  BY DEF Receive
<1>3. /\ NoStrandedRow' /\ RowsAccounted'
      /\ pending' \in SUBSET Sequences1
      /\ stats' \in [Counters -> Nat]
      /\ barriers' \in SUBSET Work
  <2>1. CASE Head(queue).kind = "row"
    <3> DEFINE s == Head(queue).through
    <3>1. s \in Sequences1 /\ SortRow(s) /\ barriers' = barriers
      BY <1>1, <2>1 DEF Receive, Sort, Work
    <3>2. CASE s >= written /\ s \notin pending /\ s >= next
      <4>1. pending' = pending \cup {s} /\ stats' = [stats EXCEPT !["submitted"] = @ + 1]
        BY <1>0, <3>1, <3>2 DEF SortRow, WorkerTyped, Sequences1
      <4>2. Cardinality(pending') = Cardinality(pending) + 1 /\ Cardinality(pending) \in Nat
        BY <3>2, <4>1, PendingFinite, FS_AddElement DEF IInv
      <4>3. /\ stats' \in [Counters -> Nat]
            /\ stats'["submitted"] = stats["submitted"] + 1
            /\ stats'["unpersisted"] = stats["unpersisted"]
            /\ stats["submitted"] \in Nat /\ stats["unpersisted"] \in Nat
        BY <1>0, <4>1 DEF WorkerTyped
      <4>4. RowsAccounted'
        BY <1>0, <4>2, <4>3 DEF Receive, IInv, WorkerTyped, RowsAccounted
      <4>5. NoStrandedRow'
        BY <3>2, <4>1 DEF Receive, IInv, NoStrandedRow
      <4> QED
        BY <1>0, <3>1, <4>1, <4>3, <4>4, <4>5 DEF WorkerTyped
    <3>3. CASE ~(s >= written /\ s \notin pending /\ s >= next)
      <4>1. /\ pending' = pending
            /\ \/ stats' = [stats EXCEPT !["resent"] = @ + 1]
               \/ stats' = [stats EXCEPT !["late"] = @ + 1]
        BY <1>0, <3>1, <3>3 DEF SortRow, WorkerTyped, Sequences1
      <4>2. /\ stats' \in [Counters -> Nat]
            /\ stats'["submitted"] = stats["submitted"]
            /\ stats'["unpersisted"] = stats["unpersisted"]
        BY <1>0, <4>1 DEF WorkerTyped
      <4> QED
        BY <1>0, <3>1, <4>1, <4>2 DEF Receive, IInv, WorkerTyped, NoStrandedRow, RowsAccounted
    <3> QED
      BY <3>2, <3>3
  <2>2. CASE Head(queue).kind = "barrier"
    <3>1. pending' = pending /\ stats' = stats /\ barriers' = barriers \cup {Head(queue)}
      BY <2>2 DEF Receive, Sort
    <3> QED
      BY <1>0, <1>1, <3>1 DEF Receive, IInv, WorkerTyped, NoStrandedRow, RowsAccounted
  <2> QED
    BY <2>1, <2>2 DEF Receive, Sort
<1>4. WorkerTyped'
  BY <1>0, <1>2, <1>3 DEF Receive, WorkerTyped
<1>5. FileBehind' /\ FileInOrder'
  BY <1>2 DEF Receive, IInv, FileBehind, FileInOrder
<1> QED
  BY <1>1, <1>3, <1>4, <1>5, RequestsUntouched DEF Receive, IInv, TypeOK

LEMMA WroteIInv == ASSUME IInv, NEW k \in 1..BatchSize, Wrote(k) PROVE IInv'
<1> USE AppenderAssumption
<1>0. /\ TypeOK /\ QueueTyped /\ WorkerTyped
      /\ k \in Nat /\ next \in Nat
  BY DEF IInv, TypeOK, WorkerTyped
<1>1. /\ at # "stopped" /\ at' \in {"recv", "closing"}
      /\ IsRun(k)
      /\ next' = next + k /\ written' = next + k
      /\ pending' = pending \ (next .. (next + k - 1))
      /\ stats' = [stats EXCEPT !["persisted"] = @ + k]
      /\ file' = file \o [i \in 1..k |-> next + i - 1]
      /\ timer' \in {timer, "off"}
  BY DEF Wrote, Writing, AfterWrite, Cursor, AppendToFile
<1>2. /\ file' \in Seq(Nat)
      /\ Len(file') = Len(file) + k
      /\ \A i \in 1..Len(file') : file'[i] < next + k
      /\ \A i, j \in 1..Len(file') : i < j => file'[i] < file'[j]
  <2>1. /\ file \in Seq(Nat)
        /\ \A i \in 1..Len(file) : file[i] < next
        /\ \A i, j \in 1..Len(file) : i < j => file[i] < file[j]
    BY <1>0, <1>1 DEF IInv, WorkerTyped, FileBehind, FileInOrder
  <2> QED
    BY <1>0, <1>1, <2>1, AppendOrdered
<1>3. barriers' \in SUBSET Work /\ RequestsTyped' /\ RowsCommitted'
  BY ClearBarriersTyped DEF Wrote
<1>4. /\ stats' \in [Counters -> Nat]
      /\ stats'["submitted"] = stats["submitted"]
      /\ stats'["unpersisted"] = stats["unpersisted"]
      /\ stats["submitted"] \in Nat /\ stats["unpersisted"] \in Nat
  BY <1>0, <1>1 DEF WorkerTyped
<1>5. WorkerTyped'
  BY <1>0, <1>1, <1>2, <1>3, <1>4 DEF WorkerTyped
<1>6. QueueTyped'
  BY <1>0 DEF Wrote, QueueTyped
<1>7. NoStrandedRow'
  <2>1. ASSUME NEW s \in pending' PROVE s >= next'
    <3>1. s \in pending /\ s \notin next .. (next + k - 1) /\ s \in Nat /\ s >= next
      BY <1>0, <1>1, <2>1 DEF IInv, WorkerTyped, NoStrandedRow, Sequences1
    <3> QED
      BY <1>0, <1>1, <3>1
  <2> QED
    BY <2>1 DEF NoStrandedRow
<1>8. FileBehind' /\ FileInOrder'
  BY <1>1, <1>2 DEF FileBehind, FileInOrder
<1>9. RowsAccounted'
  <2>1. Cardinality(pending') = Cardinality(pending) - k /\ Cardinality(pending) \in Nat
    BY <1>0, <1>1, RunTaken, PendingFinite
  <2>2. stats["submitted"] <= Len(file) + Cardinality(pending) + stats["unpersisted"]
        /\ Len(file) \in Nat
    BY <1>0 DEF IInv, RowsAccounted, WorkerTyped
  <2> QED
    BY <1>0, <1>2, <1>4, <2>1, <2>2 DEF RowsAccounted
<1> QED
  BY <1>3, <1>5, <1>6, <1>7, <1>8, <1>9 DEF IInv, TypeOK

LEMMA WriteFailsIInv ==
    ASSUME IInv, NEW k \in 1..BatchSize, NEW done \in 0..BatchSize, WriteFails(k, done)
    PROVE  IInv'
<1> USE AppenderAssumption
<1>0. /\ TypeOK /\ QueueTyped /\ WorkerTyped
      /\ k \in Nat /\ done \in Nat /\ next \in Nat
  BY DEF IInv, TypeOK, WorkerTyped
<1>1. /\ at # "stopped" /\ at' = "stopped"
      /\ done <= k /\ IsRun(k)
      /\ pending' = {} /\ queue' = <<>> /\ barriers' = {}
      /\ file' = file \o [i \in 1..done |-> next + i - 1]
      /\ stats' = [stats EXCEPT !["failedBatches"] = @ + 1,
                                !["unpersisted"] = @ + Lost(k, done)]
      /\ UNCHANGED <<next, written, timer, senders, handed, requestVars>>
  BY DEF WriteFails, Writing, AppendToFile
<1>2. /\ file' \in Seq(Nat)
      /\ Len(file') = Len(file) + done
      /\ \A i, j \in 1..Len(file') : i < j => file'[i] < file'[j]
  <2>1. /\ file \in Seq(Nat)
        /\ \A i \in 1..Len(file) : file[i] < next
        /\ \A i, j \in 1..Len(file) : i < j => file[i] < file[j]
    BY <1>0, <1>1 DEF IInv, WorkerTyped, FileBehind, FileInOrder
  <2> QED
    BY <1>0, <1>1, <2>1, AppendOrdered
<1>3. /\ Lost(k, done) \in Nat /\ Cardinality(pending) \in Nat
      /\ Lost(k, done) = Cardinality(pending) - done
  <2>1. done <= Cardinality(pending) /\ Cardinality(pending) \in Nat
    BY <1>0, <1>1, RunTaken, PendingFinite
  <2> QED
    BY <1>0, <2>1 DEF Lost
<1>4. /\ stats' \in [Counters -> Nat]
      /\ stats'["submitted"] = stats["submitted"]
      /\ stats'["unpersisted"] = stats["unpersisted"] + Lost(k, done)
      /\ stats["submitted"] \in Nat /\ stats["unpersisted"] \in Nat
  <2>1. stats \in [Counters -> Nat]
    BY <1>0 DEF WorkerTyped
  <2> QED
    BY <1>1, <1>3, <2>1
<1>5. QueueTyped'
  BY <1>0, <1>1 DEF QueueTyped
<1>8. WorkerTyped'
  BY <1>0, <1>1, <1>2, <1>4 DEF WorkerTyped
<1>6. NoStrandedRow' /\ FileBehind' /\ FileInOrder'
  BY <1>1, <1>2 DEF NoStrandedRow, FileBehind, FileInOrder
<1>7. RowsAccounted'
  <2>1. Cardinality(pending') = 0
    BY <1>1, FS_EmptySet
  <2>2. stats["submitted"] <= Len(file) + Cardinality(pending) + stats["unpersisted"]
        /\ Len(file) \in Nat
    BY <1>0 DEF IInv, RowsAccounted, WorkerTyped
  <2>3. Len(file') = Len(file) + done
    BY <1>2
  <2>4. /\ stats'["unpersisted"] = stats["unpersisted"] + (Cardinality(pending) - done)
        /\ Cardinality(pending) \in Nat /\ stats["unpersisted"] \in Nat /\ done \in Nat
    BY <1>0, <1>3, <1>4
  <2>5. Len(file') + Cardinality(pending') + stats'["unpersisted"]
          = Len(file) + Cardinality(pending) + stats["unpersisted"]
    BY <2>1, <2>2, <2>3, <2>4
  <2> QED
    BY <1>4, <2>2, <2>5 DEF RowsAccounted
<1> QED
  BY <1>1, <1>5, <1>6, <1>7, <1>8, RequestsUntouched DEF IInv, TypeOK

(* The frontier skips a sequence that is not buffered. *)
LEMMA SkipIInv ==
    ASSUME IInv, SkipMissing, next \notin pending, pending' = pending, file' = file,
           at # "stopped"
    PROVE  /\ next' \in Nat
           /\ stats' \in [Counters -> Nat]
           /\ (NoStrandedRow /\ FileBehind /\ FileInOrder /\ RowsAccounted)'
<1>0. WorkerTyped /\ NoStrandedRow /\ FileBehind /\ FileInOrder /\ RowsAccounted
  BY DEF IInv, TypeOK
<1>1. /\ next' = next + 1 /\ next \in Nat
      /\ stats' = [stats EXCEPT !["unpersisted"] = @ + 1]
      /\ \A i \in 1..Len(file) : file[i] \in Nat
      /\ Len(file) \in Nat
  BY <1>0 DEF SkipMissing, WorkerTyped
<1>2. /\ stats' \in [Counters -> Nat]
      /\ stats["submitted"] \in Nat /\ stats["unpersisted"] \in Nat
      /\ stats'["submitted"] = stats["submitted"]
      /\ stats'["unpersisted"] = stats["unpersisted"] + 1
  BY <1>0, <1>1 DEF WorkerTyped
<1>3. NoStrandedRow'
  BY <1>0, <1>1 DEF WorkerTyped, NoStrandedRow, Sequences1
<1>4. FileBehind' /\ FileInOrder'
  BY <1>0, <1>1 DEF FileBehind, FileInOrder
<1>5. RowsAccounted'
  BY <1>0, <1>1, <1>2, PendingFinite DEF IInv, RowsAccounted
<1> QED
  BY <1>1, <1>2, <1>3, <1>4, <1>5

LEMMA GapIInv == ASSUME IInv, Gap PROVE IInv'
<1>0. /\ at' = "recv" /\ at # "stopped" /\ next \notin pending /\ pending' = pending
      /\ file' = file /\ timer' \in {"off", "armed"} /\ written' = written
      /\ UNCHANGED <<queue, senders, handed>>
  BY DEF Gap, Writing
<1>1. barriers' \in SUBSET Work /\ RequestsTyped' /\ RowsCommitted'
  BY ClearBarriersTyped DEF Gap
<1>2. QueueTyped'
  BY <1>0 DEF IInv, TypeOK, QueueTyped
<1>3. /\ next' \in Nat
      /\ stats' \in [Counters -> Nat]
      /\ (NoStrandedRow /\ FileBehind /\ FileInOrder /\ RowsAccounted)'
  <2>1. CASE SkipMissing
    BY <1>0, <2>1, SkipIInv
  <2>2. CASE UNCHANGED <<next, stats>>
    BY <1>0, <2>2 DEF IInv, TypeOK, WorkerTyped, NoStrandedRow, FileBehind, FileInOrder,
       RowsAccounted
  <2> QED
    BY <2>1, <2>2 DEF Gap
<1>4. WorkerTyped'
  BY <1>0, <1>1, <1>3 DEF IInv, TypeOK, WorkerTyped
<1> QED
  BY <1>1, <1>2, <1>3, <1>4 DEF IInv, TypeOK

(* ... and every step preserves it. *)
LEMMA NextIInv == IInv /\ [Next]_vars => IInv'
<1> SUFFICES ASSUME IInv, [Next]_vars PROVE IInv'
  OBVIOUS
<1>0. QueueTyped /\ WorkerTyped
  BY DEF IInv, TypeOK
<1>1. CASE Close
  <2>1. QueueTyped'
    BY <1>0, <1>1 DEF Close, QueueTyped
  <2> QED
    BY <1>1, <2>1, WorkerUntouched, RequestsUntouched DEF Close, IInv, TypeOK
<1>2. CASE Disconnected
  <2>1. QueueTyped' /\ WorkerTyped'
    BY <1>0, <1>2 DEF Disconnected, QueueTyped, WorkerTyped
  <2>2. (NoStrandedRow /\ FileBehind /\ FileInOrder /\ RowsAccounted)'
    BY <1>2 DEF Disconnected, IInv, NoStrandedRow, FileBehind, FileInOrder, RowsAccounted
  <2> QED
    BY <1>2, <2>1, <2>2, RequestsUntouched DEF Disconnected, IInv, TypeOK
<1>3. CASE ClosingDone
  <2>1. QueueTyped' /\ WorkerTyped'
    BY <1>0, <1>3 DEF ClosingDone, QueueTyped, WorkerTyped
  <2>2. (NoStrandedRow /\ FileBehind /\ FileInOrder /\ RowsAccounted)'
    BY <1>3 DEF ClosingDone, IInv, NoStrandedRow, FileBehind, FileInOrder, RowsAccounted
  <2> QED
    BY <1>3, <2>1, <2>2, RequestsUntouched DEF ClosingDone, IInv, TypeOK
<1>4. CASE ClosingGap
  <2>1. /\ next' \in Nat
        /\ stats' \in [Counters -> Nat]
        /\ (NoStrandedRow /\ FileBehind /\ FileInOrder /\ RowsAccounted)'
    BY <1>4, SkipIInv DEF ClosingGap
  <2>2. QueueTyped' /\ WorkerTyped'
    BY <1>0, <1>4, <2>1 DEF ClosingGap, QueueTyped, WorkerTyped
  <2> QED
    BY <1>4, <2>1, <2>2, RequestsUntouched DEF ClosingGap, IInv, TypeOK
<1>5. CASE UNCHANGED vars
  <2>1. QueueTyped'
    BY <1>0, <1>5 DEF vars, QueueTyped
  <2> QED
    BY <1>5, <2>1, WorkerUntouched, RequestsUntouched DEF vars, IInv, TypeOK
<1> QED
  BY <1>1, <1>2, <1>3, <1>4, <1>5, RequestIInv, ReceiveIInv, WroteIInv, WriteFailsIInv,
     GapIInv DEF Next, Worker

-----------------------------------------------------------------------------
(* The inductive invariant holds throughout. *)
THEOREM Invariance == Spec => []IInv
BY InitIInv, NextIInv, PTL DEF Spec

(* The appender's state is well typed: the queue keeps its bound and the
   counters never run below zero. *)
THEOREM TypeCorrect == Spec => []TypeOK
BY Invariance, PTL DEF IInv

(* The audit file is in sequence order without duplicates, whatever requests
   and failures do. *)
THEOREM FileAlwaysInOrder == Spec => []FileInOrder
BY Invariance, PTL DEF IInv

(* No row is ever buffered where the frontier cannot reach it. *)
THEOREM NoRowStranded == Spec => []NoStrandedRow
BY Invariance, PTL DEF IInv

(* Every row the worker accepted is in the file, buffered or counted as lost. *)
THEOREM RowsAlwaysAccounted == Spec => []RowsAccounted
BY Invariance, PTL DEF IInv

-----------------------------------------------------------------------------
(***************************************************************************)
(* The appender implements the abstract audit trail, for every number of    *)
(* requests and rows and every queue bound and batch size: no answer hides  *)
(* a loss and no clean shutdown report hides a row.                         *)
(***************************************************************************)

LossOnRecord == stats["unpersisted"] > 0

(* The frontier passes a sequence with the row in the file or with a loss on
   record; what is before `written` has been passed. *)
FrontierCovered ==
    /\ written <= next
    /\ \A s \in 1..(next - 1) : s \in InFile \/ LossOnRecord

(* Work carries claimed sequences, and a barrier those of its request. *)
Claimed(w) ==
    /\ w.through <= last
    /\ w.kind = "barrier" =>
         /\ call[w.who] # "idle"
         /\ w.through = first[w.who] + count[w.who] - 1

QueueClaimed == \A i \in 1..Len(queue) : Claimed(queue[i])
BarriersClaimed == \A b \in barriers : b.kind = "barrier" /\ Claimed(b)
RowsClaimed == \A s \in pending \cup InFile : s \in 1..last
IdleEmpty == \A p \in Producers : call[p] = "idle" => count[p] = 0

(* A row that was handed over is somewhere, or the counters show a blemish. *)
Queued(s) == \E i \in 1..Len(queue) : queue[i] = Row(s)
Blemished == LossOnRecord \/ stats["late"] > 0 \/ stats["failedBatches"] > 0
HandedAccounted == \A s \in handed : s \in pending \/ s \in InFile \/ Queued(s) \/ Blemished

(* A worker that ends without a failed batch leaves nothing behind. *)
Ended ==
    /\ senders = "gone" => \A p \in Producers : call[p] \notin {"sending", "waiting"}
    /\ at = "closing" => queue = <<>> /\ senders = "gone"
    /\ at = "stopped" => stats["failedBatches"] > 0 \/ (queue = <<>> /\ pending = {})

(* The part of the invariant that is about requests and their work ... *)
Claims == QueueClaimed /\ BarriersClaimed /\ RowsClaimed /\ IdleEmpty

(* ... and the part that is about what became of the rows. *)
Evidence == FrontierCovered /\ HandedAccounted /\ Ended /\ AckNeverHidesLoss

TrailInv == IInv /\ Claims /\ Evidence

USE DEF Counters, Calls

-----------------------------------------------------------------------------
(* Appending k rows from the frontier adds just these rows to the file. *)
LEMMA AppendAdds ==
    ASSUME TypeOK, NEW k \in Nat, AppendToFile(k)
    PROVE  /\ InFile' = InFile \cup (next .. (next + k - 1))
           /\ Len(file') = Len(file) + k
           /\ \A i \in 1..Len(file) : file'[i] = file[i]
<1> DEFINE r == [i \in 1..k |-> next + i - 1]
<1>0. next \in Nat /\ file \in Seq(Nat) /\ Len(file) \in Nat
  BY DEF TypeOK, WorkerTyped
<1>1. r \in Seq(Nat) /\ Len(r) = k
  <2>1. r \in [1..k -> Nat]
    BY <1>0
  <2> QED
    BY <2>1
<1>2. /\ Len(file') = Len(file) + k
      /\ \A i \in 1..Len(file') :
            file'[i] = IF i <= Len(file) THEN file[i] ELSE next + (i - Len(file)) - 1
  BY <1>0, <1>1 DEF AppendToFile
<1>3. \A i \in 1..Len(file) : file'[i] = file[i]
  BY <1>0, <1>2
<1>4. ASSUME NEW s \in InFile' PROVE s \in InFile \cup (next .. (next + k - 1))
  <2>1. PICK i \in 1..Len(file') : s = file'[i]
    BY <1>4 DEF InFile
  <2>2. CASE i <= Len(file)
    BY <1>0, <1>2, <2>1, <2>2 DEF InFile
  <2>3. CASE ~(i <= Len(file))
    BY <1>0, <1>2, <2>1, <2>3
  <2> QED
    BY <2>2, <2>3
<1>5. ASSUME NEW s \in InFile PROVE s \in InFile'
  <2>1. PICK i \in 1..Len(file) : s = file[i]
    BY <1>5 DEF InFile
  <2>2. i \in 1..Len(file') /\ s = file'[i]
    BY <1>0, <1>2, <1>3, <2>1
  <2> QED
    BY <2>2 DEF InFile
<1>6. ASSUME NEW s \in next .. (next + k - 1) PROVE s \in InFile'
  <2>1. /\ s - next + 1 + Len(file) \in 1..Len(file')
        /\ file'[s - next + 1 + Len(file)] = s
    BY <1>0, <1>2
  <2> QED
    BY <2>1 DEF InFile
<1> QED
  BY <1>2, <1>3, <1>4, <1>5, <1>6

(* Nothing that counts as evidence changes: the rows keep their place. *)
LEMMA EvidenceUntouched ==
    ASSUME TrailInv, UNCHANGED <<file, stats, next, written, pending>>
    PROVE  FrontierCovered' /\ (UNCHANGED <<queue, handed>> => HandedAccounted')
BY DEF TrailInv, Evidence, FrontierCovered, HandedAccounted, InFile, LossOnRecord, Blemished,
   Queued, Row

(* The invariant holds initially. *)
LEMMA InitTrailInv == Init => TrailInv
<1> SUFFICES ASSUME Init PROVE TrailInv
  OBVIOUS
<1>1. IInv
  BY InitIInv
<1>2. Claims
  BY DEF Init, Claims, QueueClaimed, BarriersClaimed, RowsClaimed, IdleEmpty, InFile
<1>3. Evidence
  BY DEF Init, Evidence, FrontierCovered, HandedAccounted, Ended, AckNeverHidesLoss
<1> QED
  BY <1>1, <1>2, <1>3 DEF TrailInv

-----------------------------------------------------------------------------
(* The requests. *)
LEMMA RequestTrailInv ==
    ASSUME TrailInv, NEW p \in Producers, Request(p) PROVE TrailInv'
<1> USE AppenderAssumption
<1>0. /\ RequestsTyped /\ QueueTyped /\ WorkerTyped /\ RowsCommitted
      /\ QueueClaimed /\ BarriersClaimed /\ RowsClaimed /\ IdleEmpty
      /\ HandedAccounted /\ Ended /\ AckNeverHidesLoss
  BY DEF TrailInv, IInv, TypeOK, Claims, Evidence
<1>1. IInv'
  BY RequestIInv DEF TrailInv
<1>2. UNCHANGED workerVars
  BY DEF Request, Commit, Send, Fail, Appended, Resubmit
<1>3. FrontierCovered' /\ (UNCHANGED <<queue, handed>> => HandedAccounted')
  BY <1>2, EvidenceUntouched DEF workerVars
<1>4. \A i \in 1..Len(queue) : /\ queue[i] \in Work
                               /\ queue[i].kind = "barrier" => queue[i].who \in Producers
  BY <1>0 DEF QueueTyped, Work
<1>5. \A b \in barriers : b \in Work /\ (b.kind = "barrier" => b.who \in Producers)
  BY <1>0 DEF WorkerTyped, Work
<1>6. ASSUME NEW n \in 1..MaxRows, Commit(p, n) PROVE TrailInv'
  <2>1. /\ call[p] = "idle" /\ senders = "live"
        /\ last' = last + n
        /\ first' = [first EXCEPT ![p] = last + 1]
        /\ count' = [count EXCEPT ![p] = n]
        /\ call' = [call EXCEPT ![p] = "sending"]
        /\ UNCHANGED <<queue, senders, handed>>
        /\ last \in Nat /\ last' \in Nat /\ n \in Nat /\ last <= last'
    BY <1>0, <1>6 DEF Commit, RequestsTyped
  <2>2. ASSUME NEW w \in Work, Claimed(w), w.kind = "barrier" => w.who \in Producers
        PROVE  Claimed(w)'
    <3>1. w.through \in Nat
      BY <2>2 DEF Work, Sequences1
    <3>2. w.kind = "barrier" => w.who # p
      BY <2>1, <2>2 DEF Claimed
    <3> QED
      BY <1>0, <2>1, <2>2, <3>1, <3>2 DEF Claimed, RequestsTyped
  <2>3. QueueClaimed'
    BY <1>0, <1>4, <2>1, <2>2 DEF QueueClaimed
  <2>4. BarriersClaimed'
    BY <1>0, <1>2, <1>5, <2>2 DEF BarriersClaimed, workerVars
  <2>5. RowsClaimed'
    BY <1>0, <1>2, <2>1 DEF RowsClaimed, workerVars, InFile, WorkerTyped
  <2>6. IdleEmpty'
    BY <1>0, <2>1 DEF IdleEmpty, RequestsTyped
  <2>7. Ended'
    BY <1>0, <1>2, <2>1 DEF Ended, workerVars
  <2>8. AckNeverHidesLoss'
    BY <1>0, <1>2, <2>1 DEF AckNeverHidesLoss, workerVars, InFile, RowsOf, RequestsTyped
  <2> QED
    BY <1>1, <1>3, <2>1, <2>3, <2>4, <2>5, <2>6, <2>7, <2>8
       DEF TrailInv, Claims, Evidence
\* The other steps leave the claims alone; only `call`, `sent` and `attempt` change.
<1>7. ASSUME UNCHANGED <<last, first, count>>,
             \A q \in Producers : /\ call'[q] = "acked" <=> call[q] = "acked"
                                  /\ call'[q] = "idle" <=> call[q] = "idle"
      PROVE  /\ BarriersClaimed' /\ RowsClaimed' /\ IdleEmpty' /\ AckNeverHidesLoss'
             /\ \A w \in Work : Claimed(w) => Claimed(w)'
  <2>1. ASSUME NEW w \in Work, Claimed(w) PROVE Claimed(w)'
    <3>1. w.kind = "barrier" => w.who \in Producers
      BY DEF Work
    <3> QED
      BY <1>7, <2>1, <3>1 DEF Claimed
  <2>2. BarriersClaimed'
    BY <1>0, <1>2, <1>5, <2>1 DEF BarriersClaimed, workerVars
  <2>3. RowsClaimed'
    BY <1>0, <1>2, <1>7 DEF RowsClaimed, workerVars, InFile
  <2>4. IdleEmpty'
    BY <1>0, <1>7 DEF IdleEmpty
  <2>5. AckNeverHidesLoss'
    BY <1>0, <1>2, <1>7 DEF AckNeverHidesLoss, workerVars, InFile, RowsOf
  <2> QED
    BY <2>1, <2>2, <2>3, <2>4, <2>5
<1>8. ASSUME Fail(p) \/ Appended(p) \/ Resubmit(p) PROVE TrailInv'
  <2>1. /\ UNCHANGED <<last, first, count, queue, senders, handed>>
        /\ \A q \in Producers : /\ call'[q] = "acked" <=> call[q] = "acked"
                                /\ call'[q] = "idle" <=> call[q] = "idle"
    BY <1>0, <1>8 DEF Fail, Appended, Resubmit, RequestsTyped
  <2>2. QueueClaimed'
    BY <1>0, <1>4, <1>7, <2>1 DEF QueueClaimed
  <2>3. Ended'
    BY <1>0, <1>2, <1>8 DEF Fail, Appended, Resubmit, Ended, workerVars, RequestsTyped
  <2> QED
    BY <1>1, <1>3, <1>7, <2>1, <2>2, <2>3 DEF TrailInv, Claims, Evidence
<1>9. ASSUME Send(p) PROVE TrailInv'
  <2>1. /\ UNCHANGED <<last, first, count, senders>>
        /\ call[p] = "sending" /\ at # "stopped" /\ at # "closing" /\ senders = "live"
        /\ \A q \in Producers : /\ call'[q] = "acked" <=> call[q] = "acked"
                                /\ call'[q] = "idle" <=> call[q] = "idle"
    BY <1>0, <1>9 DEF Send, RequestsTyped, Ended, QueueTyped
  <2>2. Ended'
    BY <1>0, <1>2, <2>1 DEF Ended, workerVars
  <2>3. /\ first[p] \in Nat /\ count[p] \in Nat /\ sent[p] \in Nat /\ last \in Nat
        /\ first[p] >= 1 /\ count[p] >= 1 /\ sent[p] <= count[p]
        /\ first[p] + count[p] - 1 <= last
    BY <1>0, <2>1 DEF RequestsTyped, RowsCommitted
  <2>4. PICK w : /\ queue' = Append(queue, w)
                 /\ Claimed(w)'
                 /\ \/ w.kind = "row" /\ handed' = handed \cup {w.through} /\ w = Row(w.through)
                    \/ handed' = handed
    <3>1. CASE sent[p] < count[p]
      <4>0. PICK w : w = Row(first[p] + sent[p])
        OBVIOUS
      <4>1. queue' = Append(queue, w) /\ handed' = handed \cup {w.through}
        BY <1>9, <3>1, <4>0 DEF Send, Row
      <4>2. w.kind = "row" /\ w.through = first[p] + sent[p] /\ w = Row(w.through)
        BY <4>0 DEF Row
      <4>3. Claimed(w)'
        BY <2>1, <2>3, <3>1, <4>2 DEF Claimed
      <4> QED
        BY <4>1, <4>2, <4>3
    <3>2. CASE ~(sent[p] < count[p])
      <4>0. PICK w : w = Barrier(p)
        OBVIOUS
      <4>1. queue' = Append(queue, w) /\ handed' = handed /\ call' = [call EXCEPT ![p] = "waiting"]
        BY <1>9, <3>2, <4>0 DEF Send
      <4>2. w.kind = "barrier" /\ w.who = p /\ w.through = first[p] + count[p] - 1
        BY <4>0 DEF Barrier
      <4>3. Claimed(w)'
        BY <1>0, <2>1, <2>3, <4>1, <4>2 DEF Claimed, RequestsTyped
      <4> QED
        BY <4>1, <4>3
    <3> QED
      BY <3>1, <3>2
  <2>5. /\ queue \in Seq(Work) /\ Len(queue) \in Nat
        /\ Len(queue') = Len(queue) + 1
        /\ \A i \in 1..Len(queue) : queue'[i] = queue[i]
        /\ queue'[Len(queue) + 1] = w
    BY <1>0, <2>4 DEF QueueTyped
  <2>6. QueueClaimed'
    <3>1. ASSUME NEW i \in 1..Len(queue') PROVE Claimed(queue[i])'
      <4>1. CASE i = Len(queue) + 1
        BY <2>4, <2>5, <4>1 DEF Claimed
      <4>2. CASE i \in 1..Len(queue)
        <5>1. PICK v : v = queue[i]
          OBVIOUS
        <5>2. v \in Work /\ Claimed(v) /\ queue'[i] = v
          BY <1>0, <1>4, <2>5, <4>2, <5>1 DEF QueueClaimed
        <5>3. Claimed(v)'
          BY <1>7, <2>1, <5>2
        <5> QED
          BY <5>2, <5>3 DEF Claimed
      <4> QED
        BY <2>5, <4>1, <4>2
    <3> QED
      BY <3>1 DEF QueueClaimed
  <2>7. HandedAccounted'
    <3>1. ASSUME NEW s \in handed'
          PROVE  (s \in pending \/ s \in InFile \/ Queued(s) \/ Blemished)'
      <4>1. CASE s \in handed
        <5>1. Queued(s) => Queued(s)'
          BY <2>5 DEF Queued, Row
        <5> QED
          BY <1>0, <1>2, <4>1, <5>1 DEF HandedAccounted, workerVars, InFile, Blemished,
             LossOnRecord
      <4>2. CASE s \notin handed
        <5>1. queue'[Len(queue) + 1] = Row(s) /\ Len(queue) + 1 \in 1..Len(queue')
          BY <2>4, <2>5, <4>2
        <5> QED
          BY <5>1 DEF Queued, Row
      <4> QED
        BY <4>1, <4>2
    <3> QED
      BY <3>1 DEF HandedAccounted
  <2> QED
    BY <1>1, <1>3, <1>7, <2>1, <2>2, <2>6, <2>7 DEF TrailInv, Claims, Evidence
<1> QED
  BY <1>6, <1>8, <1>9 DEF Request

-----------------------------------------------------------------------------
(* The worker. *)

(* A step of the worker that answers nobody leaves the claims alone. *)
LEMMA NobodyAnswered ==
    ASSUME TrailInv, UNCHANGED requestVars,
           \A s \in InFile : s \in InFile', LossOnRecord => LossOnRecord'
    PROVE  /\ IdleEmpty' /\ AckNeverHidesLoss'
           /\ \A w \in Work : Claimed(w) => Claimed(w)'
<1>1. IdleEmpty'
  BY DEF TrailInv, Claims, IdleEmpty, requestVars
<1>2. AckNeverHidesLoss'
  BY DEF TrailInv, Evidence, AckNeverHidesLoss, requestVars, RowsOf, LossOnRecord
<1>3. \A w \in Work : Claimed(w) => Claimed(w)'
  BY DEF Claimed, requestVars
<1> QED
  BY <1>1, <1>2, <1>3

(* An answer goes to a request all of whose rows the frontier has passed. *)
LEMMA AnswersHonest ==
    ASSUME TrailInv, NEW f \in Nat, ClearBarriers(f),
           UNCHANGED <<last, first, count, sent, attempt>>,
           \A s \in InFile : s \in InFile', LossOnRecord => LossOnRecord',
           \A s \in 1..(f - 1) : s \in InFile' \/ LossOnRecord'
    PROVE  /\ BarriersClaimed' /\ IdleEmpty' /\ AckNeverHidesLoss'
           /\ \A w \in Work : Claimed(w) => Claimed(w)'
           /\ \A p \in Producers : call'[p] \in {"sending", "waiting"} => call'[p] = call[p]
<1>0. /\ RequestsTyped /\ WorkerTyped /\ RowsCommitted
      /\ BarriersClaimed /\ IdleEmpty /\ AckNeverHidesLoss
  BY DEF TrailInv, IInv, TypeOK, Claims, Evidence
<1>1. \A p \in Producers : call'[p] = call[p] \/ (call[p] = "waiting" /\ call'[p] = "acked")
  BY DEF ClearBarriers
<1>2. ASSUME NEW w \in Work, Claimed(w) PROVE Claimed(w)'
  <2>1. w.kind = "barrier" => w.who \in Producers
    BY DEF Work
  <2> QED
    BY <1>1, <1>2, <2>1 DEF Claimed
<1>3. BarriersClaimed'
  BY <1>0, <1>2 DEF BarriersClaimed, ClearBarriers, WorkerTyped
<1>4. IdleEmpty'
  BY <1>0, <1>1 DEF IdleEmpty
<1>5. ASSUME NEW p \in Producers, call'[p] = "acked", NEW s \in RowsOf(p)'
      PROVE  s \in InFile' \/ LossOnRecord'
  <2>1. s \in RowsOf(p)
    BY <1>5 DEF RowsOf
  <2>2. CASE call[p] = "acked"
    BY <1>0, <2>1, <2>2 DEF AckNeverHidesLoss, LossOnRecord
  <2>3. CASE call[p] # "acked"
    <3>1. call[p] = "waiting"
      BY <1>1, <1>5, <2>3
    <3>2. PICK b \in barriers : b.through < f /\ b.who = p
      BY <1>5, <2>3 DEF ClearBarriers
    <3>3. b.through = first[p] + count[p] - 1
      BY <1>0, <3>2 DEF BarriersClaimed, Claimed
    <3>4. first[p] \in Nat /\ count[p] \in Nat /\ first[p] >= 1
      BY <1>0, <3>1 DEF RequestsTyped, RowsCommitted
    <3>5. s \in 1..(f - 1)
      BY <2>1, <3>2, <3>3, <3>4 DEF RowsOf
    <3> QED
      BY <3>5
  <2> QED
    BY <2>2, <2>3
<1>6. AckNeverHidesLoss'
  <2>1. ASSUME NEW p \in Producers, call'[p] = "acked", ~(RowsOf(p) \subseteq InFile)'
        PROVE  stats'["unpersisted"] > 0
    <3>1. PICK s \in RowsOf(p)' : s \notin InFile'
      BY <2>1
    <3> QED
      BY <1>5, <2>1, <3>1 DEF LossOnRecord
  <2> QED
    BY <2>1 DEF AckNeverHidesLoss
<1> QED
  BY <1>1, <1>2, <1>3, <1>4, <1>6

LEMMA ReceiveTrailInv == ASSUME TrailInv, Receive PROVE TrailInv'
<1> USE AppenderAssumption
<1>0. /\ TypeOK /\ RequestsTyped /\ QueueTyped /\ WorkerTyped
      /\ QueueClaimed /\ BarriersClaimed /\ RowsClaimed
      /\ FrontierCovered /\ HandedAccounted /\ Ended
  BY DEF TrailInv, IInv, TypeOK, Claims, Evidence
<1>1. IInv'
  BY ReceiveIInv DEF TrailInv
<1>2. /\ UNCHANGED requestVars /\ UNCHANGED <<senders, next, written, timer, file, handed>>
      /\ at \in {"recv", "drain"} /\ at' \in {"drain", "write"}
      /\ queue # <<>> /\ queue' = Tail(queue)
      /\ Sort(Head(queue))
  BY DEF Receive
<1>3. PICK w : w = Head(queue)
  OBVIOUS
<1>4. /\ w \in Work /\ Claimed(w) /\ w = queue[1]
      /\ Len(queue) \in Nat /\ Len(queue) >= 1
      /\ Len(queue') = Len(queue) - 1
      /\ \A i \in 1..Len(queue') : queue'[i] = queue[i + 1]
  BY <1>0, <1>2, <1>3 DEF QueueTyped, QueueClaimed
<1>5. /\ InFile' = InFile
      /\ stats'["unpersisted"] = stats["unpersisted"]
      /\ stats'["failedBatches"] = stats["failedBatches"]
      /\ stats'["late"] >= stats["late"]
      /\ stats["late"] \in Nat /\ stats'["late"] \in Nat
      /\ stats["unpersisted"] \in Nat /\ stats["failedBatches"] \in Nat
  <2>1. InFile' = InFile
    BY <1>2 DEF InFile
  <2>2. stats \in [Counters -> Nat]
    BY <1>0 DEF WorkerTyped
  <2>3. stats' \in {stats, [stats EXCEPT !["resent"] = @ + 1],
                    [stats EXCEPT !["late"] = @ + 1], [stats EXCEPT !["submitted"] = @ + 1]}
    BY <1>2 DEF Sort, SortRow
  <2> QED
    BY <2>1, <2>2, <2>3
<1>6. IdleEmpty' /\ AckNeverHidesLoss' /\ (\A v \in Work : Claimed(v) => Claimed(v)')
  BY <1>2, <1>5, NobodyAnswered DEF LossOnRecord
<1>7. FrontierCovered'
  BY <1>0, <1>2, <1>5 DEF FrontierCovered, LossOnRecord
<1>8. Ended'
  BY <1>0, <1>2 DEF Ended, requestVars
<1>9. QueueClaimed'
  <2>1. ASSUME NEW i \in 1..Len(queue') PROVE Claimed(queue[i])'
    <3>1. PICK v : v = queue[i + 1]
      OBVIOUS
    <3>2. v \in Work /\ Claimed(v) /\ queue'[i] = v
      BY <1>0, <1>4, <3>1 DEF QueueTyped, QueueClaimed
    <3> QED
      BY <1>6, <3>2 DEF Claimed
  <2> QED
    BY <2>1 DEF QueueClaimed
\* What becomes of the item that was received.
<1>10. /\ BarriersClaimed' /\ RowsClaimed'
       /\ \A s \in pending : s \in pending'
       /\ \A s \in Nat : w = Row(s) => (s \in pending \/ s \in InFile \/ Blemished)'
  <2>1. CASE w.kind = "row"
    <3> DEFINE t == w.through
    <3>1. t \in Sequences1 /\ t \in 1..last /\ SortRow(t) /\ barriers' = barriers
      BY <1>0, <1>2, <1>3, <1>4, <2>1 DEF Sort, Work, Claimed, Sequences1, RequestsTyped
    <3>2. BarriersClaimed'
      BY <1>0, <1>6, <3>1 DEF BarriersClaimed, WorkerTyped
    <3>3. pending' \in {pending, pending \cup {t}}
      BY <3>1 DEF SortRow
    <3>4. RowsClaimed'
      BY <1>0, <1>2, <1>5, <3>1, <3>3 DEF RowsClaimed, requestVars
    <3>5. (t \in pending \/ t \in InFile \/ Blemished)'
      <4>1. CASE t < written
        <5>1. t \in InFile \/ LossOnRecord
          BY <1>0, <3>1, <4>1 DEF FrontierCovered, WorkerTyped, Sequences1
        <5> QED
          BY <1>5, <5>1 DEF Blemished, LossOnRecord
      <4>2. CASE t \in pending
        BY <3>3, <4>2
      <4>3. CASE t >= written /\ t \notin pending /\ t < next
        <5>1. stats' = [stats EXCEPT !["late"] = @ + 1]
          BY <1>0, <3>1, <4>3 DEF SortRow, WorkerTyped, Sequences1
        <5>2. stats'["late"] > 0
          BY <1>0, <5>1 DEF WorkerTyped
        <5> QED
          BY <5>2 DEF Blemished
      <4>4. CASE t >= written /\ t \notin pending /\ t >= next
        BY <1>0, <3>1, <4>4 DEF SortRow, WorkerTyped, Sequences1
      <4> QED
        BY <1>0, <3>1, <4>1, <4>2, <4>3, <4>4 DEF WorkerTyped, Sequences1
    <3>6. \A s \in Nat : w = Row(s) => s = t
      BY DEF Row
    <3> QED
      BY <3>2, <3>3, <3>4, <3>5, <3>6
  <2>2. CASE w.kind = "barrier"
    <3>1. barriers' = barriers \cup {w} /\ pending' = pending
      BY <1>2, <1>3, <2>2 DEF Sort
    <3>2. BarriersClaimed'
      BY <1>0, <1>4, <1>6, <2>2, <3>1 DEF BarriersClaimed, WorkerTyped
    <3>3. RowsClaimed'
      BY <1>0, <1>2, <1>5, <3>1 DEF RowsClaimed, requestVars
    <3>4. \A s \in Nat : w # Row(s)
      BY <2>2 DEF Row
    <3> QED
      BY <3>1, <3>2, <3>3, <3>4
  <2> QED
    BY <1>4, <2>1, <2>2 DEF Work
<1>11. HandedAccounted'
  <2>1. ASSUME NEW s \in handed
        PROVE  (s \in pending \/ s \in InFile \/ Queued(s) \/ Blemished)'
    <3>0. s \in Nat
      BY <1>0 DEF QueueTyped, Sequences1
    <3>1. CASE Queued(s)
      <4>1. PICK i \in 1..Len(queue) : queue[i] = Row(s)
        BY <3>1 DEF Queued
      <4>2. CASE i = 1
        BY <1>4, <1>10, <3>0, <4>1, <4>2
      <4>3. CASE i # 1
        <5>1. i - 1 \in 1..Len(queue') /\ queue'[i - 1] = Row(s)
          BY <1>4, <4>1, <4>3
        <5> QED
          BY <5>1 DEF Queued, Row
      <4> QED
        BY <4>2, <4>3
    <3>2. CASE Blemished
      BY <1>5, <3>2 DEF Blemished, LossOnRecord
    <3> QED
      BY <1>0, <1>5, <1>10, <3>1, <3>2 DEF HandedAccounted
  <2> QED
    BY <1>2, <2>1 DEF HandedAccounted
<1> QED
  BY <1>1, <1>6, <1>7, <1>8, <1>9, <1>10, <1>11 DEF TrailInv, Claims, Evidence

(* The queue is as it was, so its claims are. *)
LEMMA QueueStillClaimed ==
    ASSUME TrailInv, queue' = queue, \A w \in Work : Claimed(w) => Claimed(w)'
    PROVE  QueueClaimed'
<1>1. queue \in Seq(Work) /\ QueueClaimed
  BY DEF TrailInv, IInv, TypeOK, QueueTyped, Claims
<1>2. ASSUME NEW i \in 1..Len(queue') PROVE Claimed(queue[i])'
  <2>1. PICK v : v = queue[i]
    OBVIOUS
  <2>2. v \in Work /\ Claimed(v) /\ queue'[i] = v
    BY <1>1, <2>1 DEF QueueClaimed
  <2> QED
    BY <2>2 DEF Claimed
<1> QED
  BY <1>2 DEF QueueClaimed

(* The rows of a run are buffered, so they have been claimed. *)
LEMMA RunBuffered ==
    ASSUME TypeOK, NEW k \in Nat, IsRun(k), NEW s \in next .. (next + k - 1)
    PROVE  s \in pending
<1>1. next \in Nat /\ s - next \in 0..(k - 1) /\ next + (s - next) = s
  BY DEF TypeOK, WorkerTyped
<1> QED
  BY <1>1 DEF IsRun

LEMMA WroteTrailInv == ASSUME TrailInv, NEW k \in 1..BatchSize, Wrote(k) PROVE TrailInv'
<1> USE AppenderAssumption
<1>0. /\ TypeOK /\ RequestsTyped /\ QueueTyped /\ WorkerTyped
      /\ RowsClaimed /\ FrontierCovered /\ HandedAccounted /\ Ended
      /\ k \in Nat /\ next \in Nat
  BY DEF TrailInv, IInv, TypeOK, WorkerTyped, Claims, Evidence
<1>1. IInv'
  BY WroteIInv DEF TrailInv
<1>2. /\ IsRun(k) /\ AppendToFile(k) /\ ClearBarriers(next + k)
      /\ next' = next + k /\ written' = next + k
      /\ pending' = pending \ (next .. (next + k - 1))
      /\ stats' = [stats EXCEPT !["persisted"] = @ + k]
      /\ at' = (IF at = "closing" THEN "closing" ELSE "recv")
      /\ UNCHANGED <<last, first, count, sent, attempt, queue, senders, handed>>
  BY DEF Wrote, Cursor, AfterWrite
<1>3. InFile' = InFile \cup (next .. (next + k - 1))
  BY <1>0, <1>2, AppendAdds
<1>4. /\ stats'["unpersisted"] = stats["unpersisted"] /\ stats'["late"] = stats["late"]
      /\ stats'["failedBatches"] = stats["failedBatches"]
  BY <1>0, <1>2 DEF WorkerTyped
<1>5. FrontierCovered'
  <2>1. ASSUME NEW s \in 1..(next + k - 1) PROVE s \in InFile' \/ LossOnRecord'
    <3>1. CASE s < next
      BY <1>0, <1>3, <1>4, <3>1 DEF FrontierCovered, LossOnRecord
    <3>2. CASE s >= next
      BY <1>0, <1>3, <3>2
    <3> QED
      BY <1>0, <3>1, <3>2
  <2> QED
    BY <1>0, <1>2, <2>1 DEF FrontierCovered
<1>6. /\ BarriersClaimed' /\ IdleEmpty' /\ AckNeverHidesLoss'
      /\ \A w \in Work : Claimed(w) => Claimed(w)'
      /\ \A p \in Producers : call'[p] \in {"sending", "waiting"} => call'[p] = call[p]
  <2>1. \A s \in 1..((next + k) - 1) : s \in InFile' \/ LossOnRecord'
    BY <1>2, <1>5 DEF FrontierCovered
  <2>2. next + k \in Nat
    BY <1>0
  <2> QED
    BY <1>2, <1>3, <1>4, <2>1, <2>2, AnswersHonest DEF LossOnRecord
<1>7. QueueClaimed'
  BY <1>2, <1>6, QueueStillClaimed
<1>8. RowsClaimed'
  BY <1>0, <1>2, <1>3, RunBuffered DEF RowsClaimed
<1>9. HandedAccounted'
  BY <1>0, <1>2, <1>3, <1>4 DEF HandedAccounted, Queued, Row, Blemished, LossOnRecord
<1>10. Ended'
  BY <1>0, <1>2, <1>6 DEF Ended
<1> QED
  BY <1>1, <1>5, <1>6, <1>7, <1>8, <1>9, <1>10 DEF TrailInv, Claims, Evidence

LEMMA WriteFailsTrailInv ==
    ASSUME TrailInv, NEW k \in 1..BatchSize, NEW done \in 0..BatchSize, WriteFails(k, done)
    PROVE  TrailInv'
<1> USE AppenderAssumption
<1>0. /\ TypeOK /\ QueueTyped /\ WorkerTyped
      /\ RowsClaimed /\ FrontierCovered /\ Ended
      /\ k \in Nat /\ done \in Nat /\ next \in Nat
  BY DEF TrailInv, IInv, TypeOK, WorkerTyped, Claims, Evidence
<1>1. IInv'
  BY WriteFailsIInv DEF TrailInv
<1>2. /\ IsRun(k) /\ AppendToFile(done) /\ done <= k
      /\ pending' = {} /\ queue' = <<>> /\ barriers' = {} /\ at' = "stopped"
      /\ stats' = [stats EXCEPT !["failedBatches"] = @ + 1,
                                !["unpersisted"] = @ + Lost(k, done)]
      /\ UNCHANGED <<next, written, senders, handed>> /\ UNCHANGED requestVars
  BY DEF WriteFails
<1>3. InFile' = InFile \cup (next .. (next + done - 1))
  BY <1>0, <1>2, AppendAdds
<1>4. /\ stats'["failedBatches"] > 0
      /\ LossOnRecord => LossOnRecord'
  <2>1. Lost(k, done) \in Nat
    <3>1. done <= Cardinality(pending) /\ Cardinality(pending) \in Nat
      BY <1>0, <1>2, RunTaken, PendingFinite
    <3> QED
      BY <1>0, <3>1 DEF Lost
  <2>2. stats \in [Counters -> Nat]
    BY <1>0 DEF WorkerTyped
  <2> QED
    BY <1>2, <2>1, <2>2 DEF LossOnRecord
<1>5. IdleEmpty' /\ AckNeverHidesLoss'
  BY <1>2, <1>3, <1>4, NobodyAnswered
<1>6. QueueClaimed' /\ BarriersClaimed'
  BY <1>2 DEF QueueClaimed, BarriersClaimed
<1>7. RowsClaimed'
  <2>1. ASSUME NEW s \in next .. (next + done - 1) PROVE s \in pending
    <3>1. s \in next .. (next + k - 1)
      BY <1>0, <1>2
    <3> QED
      BY <1>0, <1>2, <3>1, RunBuffered
  <2> QED
    BY <1>0, <1>2, <1>3, <2>1 DEF RowsClaimed, requestVars
<1>8. FrontierCovered'
  BY <1>0, <1>2, <1>3, <1>4 DEF FrontierCovered
<1>9. HandedAccounted'
  BY <1>4 DEF HandedAccounted, Blemished
<1>10. Ended'
  BY <1>0, <1>2, <1>4 DEF Ended, requestVars
<1> QED
  BY <1>1, <1>5, <1>6, <1>7, <1>8, <1>9, <1>10 DEF TrailInv, Claims, Evidence

(* The frontier passes a missing sequence: the loss goes on record. *)
LEMMA SkipTrailInv ==
    ASSUME TrailInv, SkipMissing, UNCHANGED <<pending, file, written, queue, handed>>
    PROVE  /\ FrontierCovered' /\ HandedAccounted'
           /\ stats'["failedBatches"] = stats["failedBatches"]
<1>1. WorkerTyped /\ FrontierCovered
  BY DEF TrailInv, IInv, TypeOK, Evidence
<1>2. /\ LossOnRecord' /\ next' = next + 1 /\ next \in Nat /\ written \in Nat
      /\ stats'["failedBatches"] = stats["failedBatches"]
  BY <1>1 DEF SkipMissing, WorkerTyped, LossOnRecord
<1> QED
  BY <1>1, <1>2 DEF FrontierCovered, HandedAccounted, Blemished

LEMMA GapTrailInv == ASSUME TrailInv, Gap PROVE TrailInv'
<1>0. WorkerTyped /\ RowsClaimed /\ FrontierCovered /\ Ended /\ next \in Nat
  BY DEF TrailInv, IInv, TypeOK, WorkerTyped, Claims, Evidence
<1>1. IInv'
  BY GapIInv DEF TrailInv
<1>2. /\ at' = "recv" /\ at # "closing" /\ at # "stopped"
      /\ SkipMissing \/ UNCHANGED <<next, stats>>
      /\ UNCHANGED <<last, first, count, sent, attempt, queue, senders, pending, written,
                     file, handed>>
  BY DEF Gap, Writing
<1>3. InFile' = InFile
  BY <1>2 DEF InFile
<1>4. FrontierCovered' /\ HandedAccounted' /\ (LossOnRecord => LossOnRecord')
  <2>1. CASE SkipMissing
    <3>1. LossOnRecord => LossOnRecord'
      BY <1>0, <2>1 DEF SkipMissing, LossOnRecord, WorkerTyped
    <3> QED
      BY <1>2, <2>1, <3>1, SkipTrailInv
  <2>2. CASE UNCHANGED <<next, stats>>
    <3>1. LossOnRecord => LossOnRecord'
      BY <2>2 DEF LossOnRecord
    <3> QED
      BY <1>2, <2>2, <3>1, EvidenceUntouched
  <2> QED
    BY <1>2, <2>1, <2>2
<1>5. /\ BarriersClaimed' /\ IdleEmpty' /\ AckNeverHidesLoss'
      /\ \A w \in Work : Claimed(w) => Claimed(w)'
      /\ \A p \in Producers : call'[p] \in {"sending", "waiting"} => call'[p] = call[p]
  <2>1. ClearBarriers(next)
    BY DEF Gap
  <2>2. \A s \in 1..(next - 1) : s \in InFile' \/ LossOnRecord'
    BY <1>0, <1>3, <1>4 DEF FrontierCovered
  <2> QED
    BY <1>0, <1>2, <1>3, <1>4, <2>1, <2>2, AnswersHonest
<1>6. QueueClaimed'
  BY <1>2, <1>5, QueueStillClaimed
<1>7. RowsClaimed'
  BY <1>0, <1>2, <1>3 DEF RowsClaimed
<1>8. Ended'
  BY <1>0, <1>2, <1>5 DEF Ended
<1> QED
  BY <1>1, <1>4, <1>5, <1>6, <1>7, <1>8 DEF TrailInv, Claims, Evidence

(* The steps that end the worker or touch nothing but its place. *)
LEMMA EndTrailInv ==
    ASSUME TrailInv, Close \/ Disconnected \/ ClosingGap \/ ClosingDone \/ UNCHANGED vars
    PROVE  TrailInv'
<1>0. /\ WorkerTyped /\ QueueTyped /\ RequestsTyped
      /\ RowsClaimed /\ BarriersClaimed /\ FrontierCovered /\ Ended
  BY DEF TrailInv, IInv, TypeOK, Claims, Evidence
<1>1. IInv'
  <2>1. [Next]_vars
    BY DEF Next, Worker
  <2> QED
    BY <2>1, NextIInv DEF TrailInv
<1>2. /\ UNCHANGED requestVars
      /\ UNCHANGED <<queue, pending, written, file, handed>>
      /\ barriers' \in {barriers, {}}
      /\ SkipMissing \/ UNCHANGED <<next, stats>>
  BY DEF Close, Disconnected, ClosingGap, ClosingDone, vars, workerVars
<1>3. InFile' = InFile
  BY <1>2 DEF InFile
<1>4. /\ FrontierCovered' /\ HandedAccounted' /\ (LossOnRecord => LossOnRecord')
      /\ stats'["failedBatches"] = stats["failedBatches"]
  <2>1. CASE SkipMissing
    <3>1. LossOnRecord => LossOnRecord'
      BY <1>0, <2>1 DEF SkipMissing, LossOnRecord, WorkerTyped
    <3> QED
      BY <1>2, <2>1, <3>1, SkipTrailInv
  <2>2. CASE UNCHANGED <<next, stats>>
    <3>1. LossOnRecord => LossOnRecord'
      BY <2>2 DEF LossOnRecord
    <3> QED
      BY <1>2, <2>2, <3>1, EvidenceUntouched
  <2> QED
    BY <1>2, <2>1, <2>2
<1>5. IdleEmpty' /\ AckNeverHidesLoss' /\ (\A w \in Work : Claimed(w) => Claimed(w)')
  BY <1>2, <1>3, <1>4, NobodyAnswered
<1>6. QueueClaimed' /\ BarriersClaimed' /\ RowsClaimed'
  <2>1. QueueClaimed'
    BY <1>2, <1>5, QueueStillClaimed
  <2>2. BarriersClaimed'
    BY <1>0, <1>2, <1>5 DEF BarriersClaimed, WorkerTyped
  <2> QED
    BY <1>0, <1>2, <1>3, <2>1, <2>2 DEF RowsClaimed, requestVars
<1>7. Ended'
  BY <1>0, <1>2, <1>4 DEF Ended, requestVars, Close, Disconnected, ClosingGap, ClosingDone,
     vars, workerVars
<1> QED
  BY <1>1, <1>4, <1>5, <1>6, <1>7 DEF TrailInv, Claims, Evidence

LEMMA NextTrailInv == TrailInv /\ [Next]_vars => TrailInv'
BY RequestTrailInv, ReceiveTrailInv, WroteTrailInv, WriteFailsTrailInv, GapTrailInv,
   EndTrailInv DEF Next, Worker

-----------------------------------------------------------------------------
(* The strengthened invariant holds throughout. *)
THEOREM TrailInvariance == Spec => []TrailInv
BY InitTrailInv, NextTrailInv, PTL DEF Spec

(* A request whose persist succeeded has its rows in the file, or a loss is
   counted, however rows and barriers of several requests and attempts mix. *)
THEOREM AckNeverHides == Spec => []AckNeverHidesLoss
BY TrailInvariance, PTL DEF TrailInv, Evidence

(* A clean shutdown report means that every row handed over is in the file. *)
THEOREM CleanReportIsComplete == Spec => []CleanReportComplete
<1>1. TrailInv => CleanReportComplete
  <2> SUFFICES ASSUME TrailInv, at = "stopped", senders = "gone", DrainedCleanly,
                      NEW s \in handed
               PROVE  s \in InFile
    BY DEF CleanReportComplete
  <2>1. ~Blemished
    BY DEF DrainedCleanly, Blemished, LossOnRecord
  <2>2. queue = <<>> /\ pending = {}
    BY DEF TrailInv, Evidence, Ended, DrainedCleanly
  <2>3. ~Queued(s)
    BY <2>2 DEF Queued
  <2> QED
    BY <2>1, <2>2, <2>3 DEF TrailInv, Evidence, HandedAccounted
<1> QED
  BY <1>1, TrailInvariance, PTL

-----------------------------------------------------------------------------
(* The refinement.  The file only grows, by claimed rows and in order. *)
LEMMA FileExtends ==
    ASSUME TrailInv, TrailInv', last' = last,
           Len(file') >= Len(file), \A i \in 1..Len(file) : file'[i] = file[i]
    PROVE  Trail!Extends(file')
<1>1. \A i, j \in 1..Len(file') : i < j => file'[i] < file'[j]
  BY DEF TrailInv, IInv, FileInOrder
<1>2. \A i \in 1..Len(file') : file'[i] \in 1..last
  BY DEF TrailInv, Claims, RowsClaimed, InFile
<1> QED
  BY <1>1, <1>2 DEF Trail!Extends, Trail!InTrail

(* A step that leaves rows and claims alone and answers only requests whose
   evidence is in place is a Record. *)
LEMMA IsRecord ==
    ASSUME TrailInv, TrailInv', UNCHANGED <<last, first, count>>,
           Len(file') >= Len(file), \A i \in 1..Len(file) : file'[i] = file[i],
           stats'["unpersisted"] >= stats["unpersisted"],
           \A p \in Producers : call[p] = "acked" => call'[p] = "acked",
           \A p \in Producers : call'[p] = "acked" => call[p] \in {"acked", "waiting"}
    PROVE  Trail!Record
<1>1. Trail!Extends(file')
  BY FileExtends
<1>2. ASSUME NEW p \in Producers, call'[p] = "acked", call[p] # "acked"
      PROVE  /\ RowsOf(p) # {}
             /\ RowsOf(p) \subseteq Trail!InTrail(file') \/ stats'["unpersisted"] > 0
  <2>1. first[p] \in Nat /\ count[p] \in Nat /\ count[p] >= 1
    BY <1>2 DEF TrailInv, IInv, TypeOK, RequestsTyped, RowsCommitted
  <2>2. first[p] \in RowsOf(p)
    BY <2>1 DEF RowsOf
  <2>3. RowsOf(p)' = RowsOf(p)
    BY DEF RowsOf
  <2>4. InFile' = Trail!InTrail(file')
    BY DEF InFile, Trail!InTrail
  <2> QED
    BY <1>2, <2>2, <2>3, <2>4 DEF TrailInv, Evidence, AckNeverHidesLoss
<1>3. [p \in Producers |-> RowsOf(p)]' = [p \in Producers |-> RowsOf(p)]
  BY DEF RowsOf
<1> QED
  BY <1>1, <1>2, <1>3 DEF Trail!Record

(* Every step of the appender is a step of the trail or changes nothing of it. *)
LEMMA StepImplements == TrailInv /\ TrailInv' /\ [Next]_vars => [Trail!Next]_Trail!trailVars
<1> SUFFICES ASSUME TrailInv, TrailInv', [Next]_vars PROVE [Trail!Next]_Trail!trailVars
  OBVIOUS
<1>0. TypeOK /\ RequestsTyped /\ WorkerTyped /\ IdleEmpty
  BY DEF TrailInv, IInv, TypeOK, Claims
<1>1. ASSUME NEW p \in Producers, NEW n \in 1..MaxRows, Commit(p, n)
      PROVE  Trail!Claim(p)
  <2> DEFINE rows == [q \in Producers |-> RowsOf(q)]
  <2>1. /\ call[p] = "idle" /\ count[p] = 0 /\ first[p] \in Nat
        /\ last \in Nat /\ n \in Nat /\ n >= 1 /\ last' = last + n
        /\ first' = [first EXCEPT ![p] = last + 1]
        /\ count' = [count EXCEPT ![p] = n]
        /\ call' = [call EXCEPT ![p] = "sending"]
        /\ UNCHANGED <<file, stats>>
    BY <1>0, <1>1, AppenderAssumption DEF Commit, IdleEmpty, RequestsTyped, workerVars
  <2>2. RowsOf(p) = {}
    BY <2>1 DEF RowsOf
  <2>3. \A q \in Producers : RowsOf(q)' = IF q = p THEN (last + 1) .. last' ELSE RowsOf(q)
    BY <1>0, <2>1 DEF RowsOf, RequestsTyped
  <2>4. rows' = [rows EXCEPT ![p] = (last + 1) .. last']
    BY <2>3
  <2>5. {q \in Producers : call[q] = "acked"}' = {q \in Producers : call[q] = "acked"}
    BY <1>0, <2>1 DEF RequestsTyped
  <2> QED
    BY <2>1, <2>2, <2>4, <2>5 DEF Trail!Claim
\* Everything else is a Record.
<1>2. ASSUME UNCHANGED <<last, first, count, file, stats>>,
             \A p \in Producers : call'[p] = "acked" <=> call[p] = "acked"
      PROVE  Trail!Record
  <2>1. stats["unpersisted"] \in Nat /\ Len(file) \in Nat
    BY <1>0 DEF WorkerTyped
  <2> QED
    BY <1>2, <2>1, IsRecord
<1>3. ASSUME NEW p \in Producers, Send(p) \/ Fail(p) \/ Appended(p) \/ Resubmit(p)
      PROVE  Trail!Record
  BY <1>0, <1>2, <1>3 DEF Send, Fail, Appended, Resubmit, RequestsTyped, workerVars
<1>4. CASE Close \/ Disconnected \/ ClosingDone
  BY <1>2, <1>4 DEF Close, Disconnected, ClosingDone, requestVars, workerVars, Trail!Next
<1>5. ASSUME SkipMissing \/ UNCHANGED <<next, stats>>, UNCHANGED <<last, first, count, file>>,
             call' = call \/ ClearBarriers(next)
      PROVE  Trail!Record
  <2>1. stats'["unpersisted"] >= stats["unpersisted"] /\ Len(file) \in Nat
    BY <1>0, <1>5 DEF SkipMissing, WorkerTyped
  <2>2. \A p \in Producers : call'[p] = call[p] \/ (call[p] = "waiting" /\ call'[p] = "acked")
    BY <1>5 DEF ClearBarriers
  <2> QED
    BY <1>5, <2>1, <2>2, IsRecord
<1>6. CASE Gap
  BY <1>5, <1>6 DEF Gap, Trail!Next
<1>7. CASE ClosingGap
  BY <1>5, <1>7 DEF ClosingGap, requestVars, Trail!Next
<1>8. CASE Receive
  <2>1. stats'["unpersisted"] = stats["unpersisted"] /\ stats["unpersisted"] \in Nat
    <3>1. stats \in [Counters -> Nat]
      BY <1>0 DEF WorkerTyped
    <3> QED
      BY <1>8, <3>1 DEF Receive, Sort, SortRow
  <2>2. Len(file) \in Nat /\ UNCHANGED <<last, first, count, file, call>>
    BY <1>0, <1>8 DEF Receive, WorkerTyped, requestVars
  <2> QED
    BY <2>1, <2>2, IsRecord DEF Trail!Next
<1>9. ASSUME NEW k \in 1..BatchSize, Wrote(k) PROVE Trail!Record
  <2>1. k \in Nat /\ AppendToFile(k) /\ UNCHANGED <<last, first, count>>
    BY <1>9, AppenderAssumption DEF Wrote
  <2>2. Len(file') >= Len(file) /\ \A i \in 1..Len(file) : file'[i] = file[i]
    BY <1>0, <2>1, AppendAdds DEF WorkerTyped
  <2>3. stats'["unpersisted"] >= stats["unpersisted"]
    BY <1>0, <1>9 DEF Wrote, WorkerTyped
  <2>4. \A p \in Producers : call'[p] = call[p] \/ (call[p] = "waiting" /\ call'[p] = "acked")
    BY <1>9 DEF Wrote, ClearBarriers
  <2> QED
    BY <2>1, <2>2, <2>3, <2>4, IsRecord
<1>10. ASSUME NEW k \in 1..BatchSize, NEW done \in 0..BatchSize, WriteFails(k, done)
       PROVE  Trail!Record
  <2>1. /\ k \in Nat /\ done \in Nat /\ done <= k /\ IsRun(k) /\ AppendToFile(done)
        /\ UNCHANGED <<last, first, count, call>>
        /\ stats' = [stats EXCEPT !["failedBatches"] = @ + 1,
                                  !["unpersisted"] = @ + Lost(k, done)]
    BY <1>10, AppenderAssumption DEF WriteFails, requestVars
  <2>2. Len(file') >= Len(file) /\ \A i \in 1..Len(file) : file'[i] = file[i]
    BY <1>0, <2>1, AppendAdds DEF WorkerTyped
  <2>3. Lost(k, done) \in Nat
    <3>1. done <= Cardinality(pending) /\ Cardinality(pending) \in Nat
      BY <1>0, <2>1, RunTaken, PendingFinite
    <3> QED
      BY <2>1, <3>1 DEF Lost
  <2>4. stats'["unpersisted"] >= stats["unpersisted"]
    <3>1. stats \in [Counters -> Nat]
      BY <1>0 DEF WorkerTyped
    <3> QED
      BY <2>1, <2>3, <3>1
  <2> QED
    BY <2>1, <2>2, <2>4, IsRecord
<1>11. CASE UNCHANGED vars
  BY <1>2, <1>11 DEF vars, requestVars, workerVars, Trail!Next
<1> QED
  BY <1>1, <1>3, <1>4, <1>6, <1>7, <1>8, <1>9, <1>10, <1>11
     DEF Next, Request, Worker, Trail!Next

(* The appender with its queue, batches, stall timer, retries and failures
   implements the abstract audit trail. *)
THEOREM AppenderImplementsTrail == Spec => ImplementsTrail
<1>1. Init => Trail!Init
  <2> SUFFICES ASSUME Init PROVE Trail!Init
    OBVIOUS
  <2>1. \A p \in Producers : RowsOf(p) = {}
    BY DEF Init, RowsOf
  <2> QED
    BY <2>1 DEF Init, Trail!Init
<1> QED
  BY <1>1, StepImplements, TrailInvariance, PTL DEF Spec, ImplementsTrail, Trail!Spec
=============================================================================
