------------------------------- MODULE AuditLog -------------------------------
(***************************************************************************)
(* The file the capability audit stream survives a restart in:             *)
(* crates/qqq-host/src/audit_sink.rs, with the chain of                    *)
(* crates/qqq-host/src/audit.rs and the attach path of                     *)
(* crates/qqq-run/src/guest_handler.rs, across crashes and restarts.       *)
(*                                                                         *)
(* The file is a sequence of tokens: the text of a record, a fragment of   *)
(* one (which has no closing brace) and the line feed, which writeln!      *)
(* writes after the record.  A record is its sequence number, an identity  *)
(* that stands for its digest and the identity of its predecessor; 0 is    *)
(* the genesis digest.  A crash keeps a prefix of the file that includes   *)
(* everything the last fsync covered, and may cut a record short.          *)
(*                                                                         *)
(* Durability is the default, FsyncPerBatch.  How requests interleave on   *)
(* the way to the worker is the subject of AuditAppender; here rows reach  *)
(* it in sequence order, or never (an orphan).                             *)
(***************************************************************************)
EXTENDS Integers, Sequences, SequencesExt, FiniteSetsExt

CONSTANTS
    MaxRows,       \* bound: records the stream makes in a behaviour
    MaxCrashes,    \* bound: crashes
    MaxOrphans,    \* bound: records whose producer never delivers them
    RingCapacity   \* the stream's window (DEFAULT_RING_CAPACITY)

ASSUME LogAssumption ==
    /\ MaxRows \in Nat
    /\ MaxCrashes \in Nat
    /\ MaxOrphans \in Nat
    /\ RingCapacity \in Nat \ {0}

VARIABLES
    disk,         \* the bytes of the log
    synced,       \* how many tokens the last fsync covered
    quarantined,  \* the contents of the quarantine files
    mode,         \* where the process is: down, starting, running
    loaded,       \* Loaded::records of this start
    stream,       \* AuditStream: next and head
    unwritten,    \* rows the worker has, in sequence order
    frontier,     \* WorkerState::next
    made,         \* records made so far; the last identity given
    orphans,      \* records lost between the stream and the worker
    crashes,      \* crashes so far
    acked         \* history: rows a persist has reported durable

vars == <<disk, synced, quarantined, mode, loaded, stream, unwritten, frontier,
          made, orphans, crashes, acked>>

Genesis == 0
Newline == [kind |-> "newline"]
Fragment == [kind |-> "fragment"]
Record == [kind : {"record"}, id : 1..MaxRows, sequence : 1..MaxRows,
           previous : 0..MaxRows]
IsRecord(t) == t.kind = "record"
Ids(s) == {s[i].id : i \in {j \in 1..Len(s) : IsRecord(s[j])}}

TypeOK ==
    /\ disk \in Seq(Record \cup {Newline, Fragment})
    /\ synced \in 0..Len(disk)
    /\ mode \in {"down", "torn", "quarantined", "loaded", "running", "refused"}
    /\ loaded \in Seq(Record)
    /\ stream \in [next : Nat \ {0}, head : 0..MaxRows]
    /\ unwritten \in Seq(Record)
    /\ frontier \in Nat
    /\ made \in 0..MaxRows
    /\ orphans \in 0..MaxOrphans
    /\ crashes \in 0..MaxCrashes
    /\ acked \in SUBSET (1..MaxRows)

Init ==
    /\ disk = <<>>
    /\ synced = 0
    /\ quarantined = {}
    /\ mode = "down"
    /\ loaded = <<>>
    /\ stream = [next |-> 1, head |-> Genesis]
    /\ unwritten = <<>>
    /\ frontier = 1
    /\ made = 0
    /\ orphans = 0
    /\ crashes = 0
    /\ acked = {}

-----------------------------------------------------------------------------
(* Reading the log. *)

LineStarts == {i \in 1..Len(disk) : i = 1 \/ disk[i - 1] = Newline}
LineEnd(i) == Min({j \in i..Len(disk) : j = Len(disk) \/ disk[j] = Newline})

(* line.trim_end().ends_with('}') *)
LineClosed(i) ==
    LET e == LineEnd(i) IN
    IF disk[e] = Newline THEN e > i /\ IsRecord(disk[e - 1]) ELSE IsRecord(disk[e])

Torn == {i \in LineStarts : ~LineClosed(i)}

Lines == LineStarts \ Torn

(* The start of the k-th complete line. *)
Line(k) == CHOOSE i \in Lines : Cardinality({j \in Lines : j <= i}) = k

(* from_json looks each key up by its first occurrence, so a line reads as the
   first record on it. *)
LineRecords == [k \in 1..Cardinality(Lines) |-> disk[Line(k)]]

(* Faulty form of CompleteBytes: it ends before the last complete line. *)
CompleteBytesShort == Max({i \in LineStarts : i = 1 \/ i < Min(Torn)}) - 1

(* complete_bytes: everything before the torn line. *)
CompleteBytes == Min(Torn) - 1

(* load: a torn final line is dropped and reported, a torn line elsewhere
   would be refused; otherwise every line is a record. *)
Load ==
    /\ mode = "down"
    /\ loaded' = LineRecords
    /\ mode' = IF \E i \in Torn : LineEnd(i) < Len(disk) THEN "refused"
               ELSE IF Torn # {} THEN "torn" ELSE "loaded"
    /\ UNCHANGED <<disk, synced, quarantined, stream, unwritten, frontier, made,
                   orphans, crashes, acked>>

(* Faulty form of Quarantine: the torn tail is not copied. *)
QuarantineNothing ==
    /\ mode = "torn"
    /\ mode' = "quarantined"
    /\ UNCHANGED <<disk, synced, quarantined, loaded, stream, unwritten, frontier,
                   made, orphans, crashes, acked>>

(* quarantine_and_truncate, first half: the tail goes to a file of its own. *)
Quarantine ==
    /\ mode = "torn"
    /\ quarantined' = quarantined \cup {SubSeq(disk, CompleteBytes + 1, Len(disk))}
    /\ mode' = "quarantined"
    /\ UNCHANGED <<disk, synced, loaded, stream, unwritten, frontier, made, orphans,
                   crashes, acked>>

(* Second half: set_len(complete_bytes). *)
Truncate ==
    /\ mode = "quarantined"
    /\ disk' = SubSeq(disk, 1, CompleteBytes)
    /\ synced' = Min({synced, CompleteBytes})
    /\ mode' = "loaded"
    /\ UNCHANGED <<quarantined, loaded, stream, unwritten, frontier, made, orphans,
                   crashes, acked>>

Evicted == Max({0, Len(loaded) - RingCapacity})
Base == IF Evicted = 0 THEN Genesis ELSE loaded[Evicted].id

(* verify_chain over the records the ring keeps. *)
ChainVerifies ==
    \A i \in (Evicted + 1)..Len(loaded) :
        loaded[i].previous = IF i = Evicted + 1 THEN Base ELSE loaded[i - 1].id

(* Faulty form of ResumedNext: the sequence follows the number of records. *)
ResumedNextByCount == Len(loaded) + 1

(* Faulty form of ResumedNext: an empty log starts at 0. *)
ResumedNextFromZero == IF loaded = <<>> THEN 0 ELSE Last(loaded).sequence + 1

(* The stream continues after the last record it kept. *)
ResumedNext == IF loaded = <<>> THEN 1 ELSE Last(loaded).sequence + 1

(* Faulty form of OpenedAt: the frontier is one past the next row. *)
OpenedAtPast == Len(loaded) + 2

(* AuditFile::open(path, records.len()) and append_loop's next. *)
OpenedAt == Len(loaded) + 1

(* resume_ring_with_key, AuditFile::open and AuditAppender::spawn; a chain
   that does not verify ends the start. *)
Resume ==
    /\ mode = "loaded"
    /\ IF ChainVerifies
       THEN /\ mode' = "running"
            /\ stream' = [next |-> ResumedNext,
                          head |-> IF loaded = <<>> THEN Genesis ELSE Last(loaded).id]
            /\ frontier' = OpenedAt
       ELSE mode' = "refused" /\ UNCHANGED <<stream, frontier>>
    /\ UNCHANGED <<disk, synced, quarantined, loaded, unwritten, made, orphans,
                   crashes, acked>>

-----------------------------------------------------------------------------
(* Serving. *)

(* AuditStream::record: the row takes the next sequence and chains from the
   head.  It reaches the worker, or its producer gives up. *)
RecordRow(delivered) ==
    /\ mode = "running"
    /\ made < MaxRows
    /\ LET row == [kind |-> "record", id |-> made + 1, sequence |-> stream.next,
                   previous |-> stream.head]
       IN /\ \/ delivered /\ unwritten' = Append(unwritten, row) /\ UNCHANGED orphans
             \/ /\ ~delivered /\ orphans < MaxOrphans
                /\ orphans' = orphans + 1
                /\ UNCHANGED unwritten
          /\ stream' = [next |-> stream.next + 1, head |-> row.id]
    /\ made' = made + 1
    /\ UNCHANGED <<disk, synced, quarantined, mode, loaded, frontier, crashes, acked>>

(* The last record's line is not ended yet. *)
MidLine == disk # <<>> /\ IsRecord(Last(disk)) /\ unwritten # <<>>
           /\ Last(disk) = Head(unwritten)

(* writeln!, first write: the record at the frontier. *)
WriteRecord ==
    /\ mode = "running"
    /\ unwritten # <<>>
    /\ ~MidLine
    /\ Head(unwritten).sequence = frontier
    /\ disk' = Append(disk, Head(unwritten))
    /\ UNCHANGED <<synced, quarantined, mode, loaded, stream, unwritten, frontier,
                   made, orphans, crashes, acked>>

(* writeln!, second write: the line feed completes the row. *)
WriteNewline ==
    /\ mode = "running"
    /\ MidLine
    /\ disk' = Append(disk, Newline)
    /\ unwritten' = Tail(unwritten)
    /\ frontier' = frontier + 1
    /\ UNCHANGED <<synced, quarantined, mode, loaded, stream, made, orphans, crashes,
                   acked>>

(* The batch ends with sync_all, and only then the barriers are answered. *)
SyncBatch ==
    /\ mode = "running"
    /\ disk # <<>>
    /\ Last(disk) = Newline
    /\ synced < Len(disk)
    /\ acked' = acked \cup (Ids(SubSeq(disk, synced + 1, Len(disk))) \ Ids(loaded))
    /\ synced' = Len(disk)
    /\ UNCHANGED <<disk, quarantined, mode, loaded, stream, unwritten, frontier, made,
                   orphans, crashes>>

(* note_gap: the frontier passes a sequence that never arrived. *)
SkipMissing ==
    /\ mode = "running"
    /\ unwritten # <<>>
    /\ Head(unwritten).sequence > frontier
    /\ frontier' = frontier + 1
    /\ UNCHANGED <<disk, synced, quarantined, mode, loaded, stream, unwritten, made,
                   orphans, crashes, acked>>

(* The process or the machine dies after n tokens reached the disk, the last
   of them possibly cut short; a clean exit is the case n = Len(disk). *)
Crash(n, cut) ==
    /\ mode \notin {"down", "refused"}
    /\ crashes < MaxCrashes
    /\ n >= synced
    /\ cut => n > synced /\ IsRecord(disk[n])
    /\ disk' = IF cut THEN Append(SubSeq(disk, 1, n - 1), Fragment) ELSE SubSeq(disk, 1, n)
    /\ mode' = "down"
    /\ crashes' = crashes + 1
    /\ loaded' = <<>>
    /\ unwritten' = <<>>
    /\ UNCHANGED <<synced, quarantined, stream, frontier, made, orphans, acked>>

Next ==
    \/ Load \/ Quarantine \/ Truncate \/ Resume
    \/ \E delivered \in BOOLEAN : RecordRow(delivered)
    \/ WriteRecord \/ WriteNewline \/ SyncBatch \/ SkipMissing
    \/ \E n \in 0..Len(disk), cut \in BOOLEAN : Crash(n, cut)

Spec == Init /\ [][Next]_vars

-----------------------------------------------------------------------------
(* Properties. *)

(* No sequence of crashes, torn lines and truncations removes a row from the
   file that a request was told is durable. *)
AckedBytesKept == acked \subseteq Ids(disk)

(* Whatever a start cuts off the log is in a quarantine file by then, also
   when an earlier start died between the two steps. *)
QuarantinedFirst ==
    [][mode = "quarantined" /\ mode' = "loaded" =>
         SubSeq(disk, Len(disk') + 1, Len(disk)) \in quarantined]_vars

(* Rows come back in sequence order: a resumed stream never gives a sequence
   number again that the log already shows, skipped sequences or not. *)
RecoveredInOrder ==
    \A i, j \in 1..Len(loaded) : i < j => loaded[i].sequence < loaded[j].sequence

(* The worker never starts, or moves, past a row that is still to be written:
   it would drop that row as a duplicate and report it durable. *)
FrontierNeverAhead ==
    mode = "running" =>
        /\ frontier <= stream.next
        /\ \A i \in 1..Len(unwritten) : unwritten[i].sequence >= frontier

(* "a log that cannot be re-read after a crash has failed at its one job"
   (quarantine_and_truncate): a start accepts the log and sees every row that
   a request was told is durable. *)
LogReread ==
    /\ mode # "refused"
    /\ mode = "loaded" => acked \subseteq Ids(loaded)
=============================================================================
