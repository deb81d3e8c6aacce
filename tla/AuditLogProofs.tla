--------------------------- MODULE AuditLogProofs ---------------------------
(***************************************************************************)
(* The audit log across crashes and restarts, for any number of rows,      *)
(* crashes and orphans and any window of the stream: rows reported durable *)
(* stay in the file, what a start cuts off was copied first, rows come     *)
(* back in order and the worker never starts past a row to be written.     *)
(***************************************************************************)
EXTENDS AuditLog, FiniteSetTheorems, SequenceTheorems, TLAPS

-----------------------------------------------------------------------------
(* The inductive invariant. *)

Token == Record \cup {Newline, Fragment}

(* A line of d begins at i and reads as the record there. *)
Heads(d, i) == IsRecord(d[i]) /\ (i = 1 \/ d[i - 1] = Newline)

(* What every prefix of a log that was written line by line has: a line feed
   ends a record, a fragment is the last thing written, and the records that
   lines read as are in sequence order.  A record that joined another's line is
   not read, and its place in the order is not known. *)
Shape(d) ==
    /\ \A i \in 1..Len(d) : d[i] = Newline => i > 1 /\ IsRecord(d[i - 1])
    /\ \A i \in 1..Len(d) : d[i] = Fragment => i = Len(d)
    /\ \A i, j \in 1..Len(d) :
          Heads(d, i) /\ Heads(d, j) /\ i < j => d[i].sequence < d[j].sequence

(* The last line of d begins at i and ends in a fragment. *)
TornAt(d, i) ==
    /\ i \in 1..Len(d)
    /\ i = 1 \/ d[i - 1] = Newline
    /\ d[Len(d)] = Fragment
    /\ \A j \in i..Len(d) : d[j] # Newline

(* A row's sequence is no larger than the number of rows made up to it. *)
Aged(s, n) ==
    \A i \in 1..Len(s) : IsRecord(s[i]) => s[i].sequence <= s[i].id /\ s[i].id <= n

Ages ==
    /\ Aged(disk, made) /\ Aged(loaded, made) /\ Aged(unwritten, made)
    /\ stream.next <= made + 1 /\ stream.head <= made

SyncedLines == synced > 0 => disk[synced] = Newline

Whole == mode \in {"loaded", "running"} => \A i \in 1..Len(disk) : disk[i] # Fragment

TornKnown == mode \in {"torn", "quarantined"} => \E i \in 1..Len(disk) : TornAt(disk, i)

TailKept ==
    mode = "quarantined" =>
        \A i \in 1..Len(disk) :
            TornAt(disk, i) => SubSeq(disk, i, Len(disk)) \in quarantined

AckedSynced ==
    \A a \in acked : \E i \in 1..synced : IsRecord(disk[i]) /\ disk[i].id = a

(* What the log reads as, whatever is cut off, is no newer than the last record
   that was loaded. *)
ReadBack ==
    mode \in {"torn", "quarantined", "loaded"} =>
        \A i \in 1..Len(disk) :
            Heads(disk, i) /\ ~TornAt(disk, i) =>
                loaded # <<>> /\ disk[i].sequence <= Last(loaded).sequence

Idle == mode # "running" => unwritten = <<>>

(* Rows to be written are in order and newer than what the log reads as; only
   the row whose line feed is missing is both in the file and to be written. *)
RowsAhead ==
    mode = "running" =>
        /\ \A i, j \in 1..Len(unwritten) :
              i < j => unwritten[i].sequence < unwritten[j].sequence
        /\ \A i \in 1..Len(unwritten) : unwritten[i].sequence < stream.next
        /\ \A i \in 1..Len(disk) : Heads(disk, i) =>
              /\ disk[i].sequence < stream.next
              /\ unwritten # <<>> =>
                    \/ i = Len(disk) /\ disk[i] = unwritten[1]
                    \/ disk[i].sequence < unwritten[1].sequence

IInv ==
    /\ TypeOK
    /\ Ages
    /\ Shape(disk)
    /\ SyncedLines
    /\ Whole
    /\ TornKnown
    /\ TailKept
    /\ AckedSynced
    /\ RecoveredInOrder
    /\ ReadBack
    /\ Idle
    /\ RowsAhead
    /\ FrontierNeverAhead

-----------------------------------------------------------------------------
(* Least and greatest elements, and ranks. *)

LEMMA LeastNat ==
    ASSUME NEW T \in SUBSET Nat, T # {}
    PROVE  \E x \in T : \A y \in T : x <= y
<1>1. IsWellFoundedOn(OpToRel(<, Nat), Nat)
  BY NatLessThanWellFounded
<1>2. \E x \in T : \A y \in T : ~ (<<y, x>> \in OpToRel(<, Nat))
  BY <1>1, WFMin
<1>3. \A x, y \in Nat : x < y => <<x, y>> \in OpToRel(<, Nat)
  BY DEF OpToRel
<1>4. PICK x \in T : \A y \in T : ~ (<<y, x>> \in OpToRel(<, Nat))
  BY <1>2
<1>5. \A y \in T : ~ (y < x)
  BY <1>3, <1>4, Zenon
<1> QED
  BY <1>5

LEMMA MinIs ==
    ASSUME NEW T \in SUBSET Nat, T # {}
    PROVE  Min(T) \in T /\ \A y \in T : Min(T) <= y
BY LeastNat DEF Min

LEMMA GreatestBelow ==
    ASSUME NEW n \in Nat, NEW T \in SUBSET (0..n), T # {}
    PROVE  \E x \in T : \A y \in T : y <= x
<1> DEFINE D == {n - i : i \in T}
<1>1. D \in SUBSET Nat /\ D # {}
  <2>1. \A i \in T : i \in Int /\ 0 <= i /\ i <= n
    OBVIOUS
  <2>2. \A i \in T : n - i \in Nat
    BY <2>1
  <2> QED
    BY <2>2
<1>2. PICK d \in D : \A y \in D : d <= y
  <2> HIDE DEF D
  <2> QED BY <1>1, LeastNat
<1>3. PICK x \in T : d = n - x
  OBVIOUS
<1>4. \A y \in T : n - x <= n - y
  BY <1>2, <1>3
<1> QED
  BY <1>4

(* The ranks of a finite set of numbers count it without a gap, in order. *)
LEMMA RanksCount ==
    ASSUME NEW E \in SUBSET Nat, IsFiniteSet(E)
    PROVE  LET rank(i) == Cardinality({j \in E : j <= i})
               n == Cardinality(E)
           IN /\ \A i \in E : rank(i) \in 1..n
              /\ \A i, j \in E : i < j => rank(i) < rank(j)
              /\ \A k \in 1..n : \E i \in E : rank(i) = k
<1> DEFINE Below(i) == {j \in E : j <= i}
           rank(i) == Cardinality(Below(i))
           n == Cardinality(E)
           f == [i \in E |-> rank(i)]
<1>1. \A i \in E : IsFiniteSet(Below(i)) /\ rank(i) \in 1..n
  <2> SUFFICES ASSUME NEW i \in E PROVE IsFiniteSet(Below(i)) /\ rank(i) \in 1..n
    OBVIOUS
  <2>1. i \in Below(i) /\ Below(i) \in SUBSET E
    OBVIOUS
  <2>2. IsFiniteSet(Below(i)) /\ Cardinality(Below(i)) <= n
    BY <2>1, FS_Subset
  <2>3. Cardinality(Below(i)) \in Nat /\ n \in Nat
    BY <2>2, FS_CardinalityType
  <2>4. Cardinality(Below(i)) # 0
    BY <2>1, <2>2, FS_EmptySet
  <2> QED
    BY <2>2, <2>3, <2>4
<1>2. \A i, j \in E : i < j => rank(i) < rank(j)
  <2> SUFFICES ASSUME NEW i \in E, NEW j \in E, i < j PROVE rank(i) < rank(j)
    OBVIOUS
  <2>0. \A k \in E : k \in Int
    OBVIOUS
  <2>1. Below(i) \in SUBSET Below(j) /\ j \in Below(j) /\ j \notin Below(i)
    <3>1. \A k \in E : k <= i => k <= j
      BY <2>0
    <3>2. j <= j /\ ~ (j <= i)
      BY <2>0
    <3> QED
      BY <3>1, <3>2
  <2>2. IsFiniteSet(Below(j)) /\ rank(i) \in Nat /\ rank(j) \in Nat
    BY <1>1
  <2>3. rank(i) <= rank(j) /\ rank(i) # rank(j)
    <3> HIDE DEF Below
    <3> QED BY <2>1, <2>2, FS_Subset
  <2> HIDE DEF rank
  <2> QED
    BY <2>2, <2>3
<1>3. n \in Nat
  BY FS_CardinalityType
<1>4. IsFiniteSet(1..n) /\ Cardinality(1..n) = n
  BY <1>3, FS_Interval
<1>5. f \in Injection(E, 1..n)
  <2> HIDE DEF rank, n
  <2>1. f \in [E -> 1..n]
    BY <1>1
  <2>2. \A i, j \in E : f[i] = f[j] => i = j
    <3> SUFFICES ASSUME NEW i \in E, NEW j \in E, f[i] = f[j], i # j PROVE FALSE
      OBVIOUS
    <3>1. i < j \/ j < i
      OBVIOUS
    <3>2. rank(i) = rank(j) /\ rank(i) \in 1..n
      BY <1>1
    <3> QED
      BY <1>2, <3>1, <3>2
  <2> HIDE DEF f
  <2> QED
    BY <2>1, <2>2 DEF Injection, IsInjective
<1>6. f \in Surjection(E, 1..n)
  <2> HIDE DEF f
  <2> QED
    BY <1>4, <1>5, FS_Injection
<1>7. \A k \in 1..n : \E i \in E : rank(i) = k
  <2> HIDE DEF rank, n
  <2> QED
    BY <1>6 DEF Surjection
<1> QED
  BY <1>1, <1>2, <1>7

(* An increasing sequence of positive numbers reaches at least its length. *)
LEMMA OrderedReaches ==
    ASSUME NEW n \in Nat, n > 0, NEW v,
           \A i \in 1..n : v[i] \in Nat /\ v[i] >= 1,
           \A i, j \in 1..n : i < j => v[i] < v[j]
    PROVE  n <= v[n]
<1> DEFINE m == v[n]
           f == [i \in 1..n |-> v[i]]
<1>1. m \in Nat /\ \A i \in 1..n : v[i] \in 1..m
  <2>1. n \in 1..n
    OBVIOUS
  <2>2. \A i \in 1..n : i = n \/ i < n
    OBVIOUS
  <2> QED
    BY <2>1, <2>2
<1> HIDE DEF m
<1>2. \A i, j \in 1..n : v[i] = v[j] => i = j
  <2> SUFFICES ASSUME NEW i \in 1..n, NEW j \in 1..n, v[i] = v[j], i # j PROVE FALSE
    OBVIOUS
  <2>1. i < j \/ j < i
    OBVIOUS
  <2>2. v[i] < v[j] \/ v[j] < v[i]
    BY <2>1
  <2>3. v[i] \in Nat
    OBVIOUS
  <2> QED
    BY <2>2, <2>3
<1>3. f \in Injection(1..n, 1..m)
  <2>1. f \in [1..n -> 1..m]
    BY <1>1
  <2>2. \A i, j \in 1..n : f[i] = f[j] => i = j
    BY <1>2
  <2> HIDE DEF f
  <2> QED
    BY <2>1, <2>2 DEF Injection, IsInjective
<1>4. /\ IsFiniteSet(1..n) /\ Cardinality(1..n) = n
      /\ IsFiniteSet(1..m) /\ Cardinality(1..m) = m
  BY <1>1, FS_Interval
<1>5. n <= m
  <2> HIDE DEF f
  <2> QED
    BY <1>3, <1>4, FS_Injection
<1> QED
  BY <1>5 DEF m

-----------------------------------------------------------------------------
(* Tokens. *)

LEMMA Tokens ==
    /\ ~IsRecord(Newline) /\ ~IsRecord(Fragment) /\ Newline # Fragment
    /\ \A t \in Record : IsRecord(t) /\ t # Newline /\ t # Fragment
    /\ \A t \in Token : IsRecord(t) => t \in Record
    /\ \A t \in Token : ~IsRecord(t) => t = Newline \/ t = Fragment
    /\ \A t \in Record : /\ t.sequence \in Nat /\ t.sequence >= 1
                        /\ t.id \in Nat /\ t.id >= 1 /\ t.id <= MaxRows
<1>1. ~IsRecord(Newline) /\ ~IsRecord(Fragment) /\ Newline # Fragment
  BY DEF IsRecord, Newline, Fragment
<1>2. \A t \in Record : IsRecord(t)
  BY DEF IsRecord, Record
<1>3. \A t \in Record : /\ t.sequence \in Nat /\ t.sequence >= 1
                       /\ t.id \in Nat /\ t.id >= 1 /\ t.id <= MaxRows
  BY LogAssumption DEF Record
<1> QED
  BY <1>1, <1>2, <1>3 DEF Token

LEMMA PrefixOf ==
    ASSUME NEW d \in Seq(Token), NEW n \in 0..Len(d)
    PROVE  /\ SubSeq(d, 1, n) \in Seq(Token)
           /\ Len(SubSeq(d, 1, n)) = n
           /\ \A i \in 1..n : SubSeq(d, 1, n)[i] = d[i]
OBVIOUS

LEMMA Appended ==
    ASSUME NEW d \in Seq(Token), NEW t \in Token
    PROVE  /\ Append(d, t) \in Seq(Token)
           /\ Len(Append(d, t)) = Len(d) + 1
           /\ \A i \in 1..Len(d) : Append(d, t)[i] = d[i]
           /\ Append(d, t)[Len(d) + 1] = t
OBVIOUS

(* A prefix keeps the shape. *)
LEMMA ShapePrefix ==
    ASSUME NEW d \in Seq(Token), NEW n \in 0..Len(d), Shape(d)
    PROVE  Shape(SubSeq(d, 1, n))
<1> DEFINE e == SubSeq(d, 1, n)
<1>1. Len(e) = n /\ \A i \in 1..n : e[i] = d[i]
  BY PrefixOf
<1> HIDE DEF e
<1>2. \A i \in 1..n : Heads(e, i) => Heads(d, i)
  BY <1>1 DEF Heads
<1>3. \A i \in 1..n : i \in 1..Len(d) /\ i - 1 < n
  OBVIOUS
<1>4. \A i \in 1..n : e[i] = Newline => i > 1 /\ IsRecord(e[i - 1])
  BY <1>1 DEF Shape
<1>5. \A i \in 1..n : e[i] = Fragment => i = n
  BY <1>1 DEF Shape
<1>6. \A i, j \in 1..n :
          Heads(e, i) /\ Heads(e, j) /\ i < j => e[i].sequence < e[j].sequence
  BY <1>1, <1>2, <1>3 DEF Shape
<1> QED
  BY <1>1, <1>4, <1>5, <1>6 DEF Shape, e

(* Any token but a line feed in the wrong place keeps the shape behind a log
   without a fragment. *)
LEMMA ShapeAppend ==
    ASSUME NEW d \in Seq(Token), NEW t \in Token, Shape(d),
           \A i \in 1..Len(d) : d[i] # Fragment,
           t = Newline => Len(d) > 0 /\ IsRecord(d[Len(d)]),
           IsRecord(t) =>
               \A i \in 1..Len(d) : Heads(d, i) => d[i].sequence < t.sequence
    PROVE  Shape(Append(d, t))
<1> DEFINE e == Append(d, t)
           n == Len(d)
<1>1. Len(e) = n + 1 /\ e[n + 1] = t /\ \A i \in 1..n : e[i] = d[i]
  BY Appended
<1>0. n \in Nat
  OBVIOUS
<1> HIDE DEF e
<1>2. \A i \in 1..n : Heads(e, i) => Heads(d, i)
  BY <1>1 DEF Heads
<1>3. \A i \in 1..(n + 1) : i \in 1..n \/ i = n + 1
  BY <1>0
<1>4. \A i \in 1..(n + 1) : e[i] = Newline => i > 1 /\ IsRecord(e[i - 1])
  BY <1>0, <1>1, <1>3 DEF Shape
<1>5. \A i \in 1..(n + 1) : e[i] = Fragment => i = n + 1
  BY <1>1, <1>3
<1>6. \A i, j \in 1..(n + 1) :
          Heads(e, i) /\ Heads(e, j) /\ i < j => e[i].sequence < e[j].sequence
  <2> SUFFICES ASSUME NEW i \in 1..(n + 1), NEW j \in 1..(n + 1),
                      Heads(e, i), Heads(e, j), i < j
               PROVE  e[i].sequence < e[j].sequence
    OBVIOUS
  <2>1. i \in 1..n
    BY <1>0
  <2>2. CASE j \in 1..n
    BY <1>1, <1>2, <2>1, <2>2 DEF Shape
  <2>3. CASE j = n + 1
    BY <1>1, <1>2, <2>1, <2>3 DEF Heads
  <2> QED
    BY <1>3, <2>2, <2>3
<1> QED
  BY <1>1, <1>4, <1>5, <1>6 DEF Shape, e

-----------------------------------------------------------------------------
(* What load finds. *)

LEMMA LineEnds ==
    ASSUME disk \in Seq(Token), NEW i \in 1..Len(disk)
    PROVE  /\ LineEnd(i) \in i..Len(disk)
           /\ LineEnd(i) = Len(disk) \/ disk[LineEnd(i)] = Newline
           /\ \A j \in i..Len(disk) : disk[j] = Newline => LineEnd(i) <= j
<1> DEFINE T == {j \in i..Len(disk) : j = Len(disk) \/ disk[j] = Newline}
<1>1. T \in SUBSET Nat /\ T # {}
  <2>1. Len(disk) \in T
    OBVIOUS
  <2> QED
    BY <2>1
<1>2. Min(T) \in T /\ \A y \in T : Min(T) <= y
  <2> HIDE DEF T
  <2> QED
    BY <1>1, MinIs
<1>3. LineEnd(i) = Min(T)
  BY DEF LineEnd
<1> QED
  BY <1>2, <1>3

(* In a log of this shape a torn line is one that ends in a fragment. *)
LEMMA TornIs ==
    ASSUME disk \in Seq(Token), Shape(disk)
    PROVE  \A i : i \in Torn <=> TornAt(disk, i)
<1> SUFFICES ASSUME NEW i PROVE i \in Torn <=> TornAt(disk, i)
  OBVIOUS
<1>1. ASSUME i \in Torn PROVE TornAt(disk, i)
  <2>1. i \in 1..Len(disk) /\ (i = 1 \/ disk[i - 1] = Newline) /\ ~LineClosed(i)
    BY <1>1 DEF Torn, LineStarts
  <2> DEFINE e == LineEnd(i)
  <2>2. /\ e \in i..Len(disk)
        /\ e = Len(disk) \/ disk[e] = Newline
        /\ \A j \in i..Len(disk) : disk[j] = Newline => e <= j
    BY <2>1, LineEnds
  <2>3. IF disk[e] = Newline THEN ~(e > i /\ IsRecord(disk[e - 1])) ELSE ~IsRecord(disk[e])
    BY <2>1 DEF LineClosed
  <2> HIDE DEF e
  <2>4. e \in 1..Len(disk)
    BY <2>1, <2>2
  <2>5. disk[e] # Newline
    <3> SUFFICES ASSUME disk[e] = Newline PROVE FALSE
      OBVIOUS
    <3>1. e > 1 /\ IsRecord(disk[e - 1])
      BY <2>4 DEF Shape
    <3>2. e = i
      BY <2>1, <2>2, <2>3, <3>1
    <3> QED
      BY <2>1, <3>1, <3>2, Tokens
  <2>6. e = Len(disk) /\ disk[e] = Fragment
    BY <2>2, <2>3, <2>4, <2>5, Tokens
  <2>7. \A j \in i..Len(disk) : disk[j] # Newline
    <3> SUFFICES ASSUME NEW j \in i..Len(disk), disk[j] = Newline PROVE FALSE
      OBVIOUS
    <3>1. e <= j /\ j <= e
      BY <2>1, <2>2, <2>6
    <3>2. j = e
      BY <2>1, <2>4, <3>1
    <3> QED
      BY <2>5, <3>2
  <2> QED
    BY <2>1, <2>6, <2>7 DEF TornAt
<1>2. ASSUME TornAt(disk, i) PROVE i \in Torn
  <2>1. /\ i \in 1..Len(disk) /\ (i = 1 \/ disk[i - 1] = Newline)
        /\ disk[Len(disk)] = Fragment
        /\ \A j \in i..Len(disk) : disk[j] # Newline
    BY <1>2 DEF TornAt
  <2>2. LineEnd(i) = Len(disk) /\ disk[LineEnd(i)] # Newline
    BY <2>1, LineEnds
  <2>3. ~LineClosed(i)
    BY <2>1, <2>2, Tokens DEF LineClosed
  <2> QED
    BY <2>1, <2>3 DEF Torn, LineStarts
<1> QED
  BY <1>1, <1>2

LEMMA TornOnce ==
    ASSUME NEW d \in Seq(Token), NEW i, NEW j, TornAt(d, i), TornAt(d, j)
    PROVE  i = j
<1>1. \A x, y : TornAt(d, x) /\ TornAt(d, y) => ~(x < y)
  <2> SUFFICES ASSUME NEW x, NEW y, TornAt(d, x), TornAt(d, y), x < y PROVE FALSE
    OBVIOUS
  <2>1. x \in 1..Len(d) /\ y \in 1..Len(d)
    BY DEF TornAt
  <2>2. y - 1 \in x..Len(d) /\ y # 1
    BY <2>1
  <2>3. d[y - 1] = Newline
    BY <2>2 DEF TornAt
  <2> QED
    BY <2>2, <2>3 DEF TornAt
<1>2. i \in Int /\ j \in Int
  BY DEF TornAt
<1>3. ~(i < j) /\ ~(j < i)
  BY <1>1, Zenon
<1> QED
  BY <1>2, <1>3

(* set_len cuts at the start of the only torn line. *)
LEMMA CompleteIs ==
    ASSUME disk \in Seq(Token), Shape(disk), NEW i, TornAt(disk, i)
    PROVE  CompleteBytes = i - 1
<1>0. \A j : TornAt(disk, j) => j = i
  <2> SUFFICES ASSUME NEW j, TornAt(disk, j) PROVE j = i
    OBVIOUS
  <2> QED
    BY TornOnce, Zenon
<1>1. Torn = {i}
  BY <1>0, TornIs
<1>2. i \in Nat
  BY DEF TornAt
<1>3. Min(Torn) \in Torn
  BY <1>1, <1>2, MinIs
<1> QED
  BY <1>1, <1>3 DEF CompleteBytes

LEMMA FragmentTears ==
    ASSUME NEW d \in Seq(Token), NEW n \in 1..Len(d), Shape(d), d[n] = Fragment
    PROVE  \E i \in 1..Len(d) : TornAt(d, i)
<1>1. n = Len(d)
  BY DEF Shape
<1> DEFINE T == {i \in 1..n : i = 1 \/ d[i - 1] = Newline}
<1>2. n \in Nat /\ T \in SUBSET (0..n) /\ T # {}
  <2>1. 1 \in T
    OBVIOUS
  <2> QED
    BY <2>1
<1>3. PICK x \in T : \A y \in T : y <= x
  <2> HIDE DEF T
  <2> QED
    BY <1>2, GreatestBelow
<1>4. \A j \in x..n : d[j] # Newline
  <2> SUFFICES ASSUME NEW j \in x..n, d[j] = Newline PROVE FALSE
    OBVIOUS
  <2>1. x \in 1..n /\ j \in 1..n /\ x <= j
    BY <1>3
  <2>2. j # n
    BY Tokens
  <2>3. j + 1 \in 1..n /\ (j + 1) - 1 = j
    BY <2>1, <2>2
  <2>4. j + 1 \in T
    BY <2>3
  <2>5. j + 1 <= x
    BY <1>3, <2>4
  <2> HIDE DEF T
  <2> QED
    BY <2>1, <2>5
<1> QED
  BY <1>1, <1>3, <1>4 DEF TornAt

(* The lines load reads are those that begin with a record and are not torn;
   they come back in their order. *)
LEMMA RecordsRead ==
    ASSUME disk \in Seq(Token), Shape(disk)
    PROVE  /\ LineRecords \in Seq(Record)
           /\ \A i, j \in 1..Len(LineRecords) :
                 i < j => LineRecords[i].sequence < LineRecords[j].sequence
           /\ \A k \in 1..Len(LineRecords) : \E i \in 1..Len(disk) : LineRecords[k] = disk[i]
           /\ \A i \in 1..Len(disk) : Heads(disk, i) /\ ~TornAt(disk, i) =>
                 \E k \in 1..Len(LineRecords) : LineRecords[k] = disk[i]
<1> DEFINE n == Cardinality(Lines)
<1>1. \A i \in Lines : i \in 1..Len(disk) /\ Heads(disk, i)
  <2> SUFFICES ASSUME NEW i \in Lines PROVE i \in 1..Len(disk) /\ Heads(disk, i)
    OBVIOUS
  <2>1. i \in 1..Len(disk) /\ (i = 1 \/ disk[i - 1] = Newline) /\ ~TornAt(disk, i)
    BY TornIs DEF Lines, LineStarts
  <2>2. disk[i] # Newline
    BY <2>1, Tokens DEF Shape
  <2>3. disk[i] # Fragment
    <3> SUFFICES ASSUME disk[i] = Fragment PROVE FALSE
      OBVIOUS
    <3>1. i = Len(disk)
      BY <2>1 DEF Shape
    <3>2. \A j \in i..Len(disk) : disk[j] # Newline
      BY <2>1, <2>2, <3>1
    <3> QED
      BY <2>1, <3>1, <3>2 DEF TornAt
  <2>4. IsRecord(disk[i])
    BY <2>1, <2>2, <2>3, Tokens
  <2> QED
    BY <2>1, <2>4 DEF Heads
<1>2. \A i \in 1..Len(disk) : Heads(disk, i) /\ ~TornAt(disk, i) => i \in Lines
  BY TornIs DEF Lines, LineStarts, Heads
<1>3. Lines \in SUBSET Nat /\ IsFiniteSet(Lines) /\ n \in Nat
  <2>1. Lines \in SUBSET (1..Len(disk)) /\ Len(disk) \in Nat
    BY <1>1
  <2>2. IsFiniteSet(1..Len(disk))
    BY <2>1, FS_Interval
  <2>3. IsFiniteSet(Lines)
    BY <2>1, <2>2, FS_Subset
  <2> QED
    BY <2>1, <2>3, FS_CardinalityType
<1> DEFINE rank(i) == Cardinality({j \in Lines : j <= i})
<1>4. /\ \A i \in Lines : rank(i) \in 1..n
      /\ \A i, j \in Lines : i < j => rank(i) < rank(j)
      /\ \A k \in 1..n : \E i \in Lines : rank(i) = k
  BY <1>3, RanksCount
<1>5. \A k \in 1..n : Line(k) \in Lines /\ rank(Line(k)) = k
  <2> SUFFICES ASSUME NEW k \in 1..n PROVE Line(k) \in Lines /\ rank(Line(k)) = k
    OBVIOUS
  <2>1. \E i \in Lines : rank(i) = k
    BY <1>4
  <2>2. Line(k) = CHOOSE i \in Lines : rank(i) = k
    BY DEF Line
  <2> HIDE DEF rank
  <2> QED
    BY <2>1, <2>2
<1> HIDE DEF rank
<1>6. \A k, l \in 1..n : k < l => Line(k) < Line(l)
  <2> SUFFICES ASSUME NEW k \in 1..n, NEW l \in 1..n, k < l PROVE Line(k) < Line(l)
    OBVIOUS
  <2>1. /\ Line(k) \in Lines /\ Line(l) \in Lines /\ Line(k) \in Nat /\ Line(l) \in Nat
        /\ rank(Line(k)) = k /\ rank(Line(l)) = l
    BY <1>3, <1>5
  <2>2. Line(k) # Line(l)
    BY <2>1
  <2>3. ~(Line(l) < Line(k))
    BY <1>4, <2>1
  <2> QED
    BY <2>1, <2>2, <2>3
<1>7. \A i \in Lines : \E k \in 1..n : Line(k) = i
  <2> SUFFICES ASSUME NEW i \in Lines PROVE Line(rank(i)) = i
    BY <1>4
  <2>1. rank(i) \in 1..n
    BY <1>4
  <2>2. Line(rank(i)) \in Lines /\ rank(Line(rank(i))) = rank(i)
    BY <1>5, <2>1
  <2>3. Line(rank(i)) \in Nat /\ i \in Nat
    BY <1>3, <2>2
  <2>4. ~(Line(rank(i)) < i) /\ ~(i < Line(rank(i)))
    BY <1>4, <2>1, <2>2
  <2> QED
    BY <2>3, <2>4
<1> HIDE DEF n
<1>8. \A k \in 1..n : disk[Line(k)] \in Record /\ Line(k) \in 1..Len(disk) /\ Heads(disk, Line(k))
  BY <1>1, <1>5, Tokens DEF Heads
<1>9. /\ LineRecords \in Seq(Record) /\ Len(LineRecords) = n
      /\ \A k \in 1..n : LineRecords[k] = disk[Line(k)]
  <2>1. LineRecords = [k \in 1..n |-> disk[Line(k)]]
    BY DEF LineRecords, n
  <2>2. LineRecords \in [1..n -> Record]
    BY <1>8, <2>1
  <2> QED
    BY <1>3, <2>1, <2>2
<1>10. \A i, j \in 1..n : i < j => LineRecords[i].sequence < LineRecords[j].sequence
  BY <1>6, <1>8, <1>9 DEF Shape
<1> QED
  BY <1>2, <1>7, <1>8, <1>9, <1>10

-----------------------------------------------------------------------------
(* Every step keeps the invariant. *)

LEMMA InitHolds == Init => IInv
<1> SUFFICES ASSUME Init PROVE IInv
  OBVIOUS
<1>1. /\ disk = <<>> /\ loaded = <<>> /\ unwritten = <<>> /\ Len(<<>>) = 0
      /\ synced = 0 /\ mode = "down" /\ acked = {} /\ made = 0 /\ frontier = 1
      /\ orphans = 0 /\ crashes = 0
      /\ stream = [next |-> 1, head |-> 0]
  BY DEF Init, Genesis
<1>2. TypeOK
  BY <1>1, LogAssumption DEF TypeOK
<1>3. Ages
  BY <1>1 DEF Ages, Aged
<1>4. Shape(disk)
  BY <1>1 DEF Shape
<1> QED
  BY <1>1, <1>2, <1>3, <1>4
  DEF IInv, SyncedLines, Whole, TornKnown, TailKept, AckedSynced, RecoveredInOrder,
      ReadBack, Idle, RowsAhead, FrontierNeverAhead

(* A step that leaves the file alone. *)
LEMMA FileUntouched ==
    ASSUME IInv, disk' = disk, synced' = synced, acked' = acked
    PROVE  /\ Shape(disk') /\ SyncedLines' /\ AckedSynced'
           /\ disk' \in Seq(Token) /\ synced' \in 0..Len(disk')
BY DEF IInv, TypeOK, Token, SyncedLines, AckedSynced

LEMMA LoadStep == IInv /\ Load => IInv'
<1> SUFFICES ASSUME IInv, Load PROVE IInv'
  OBVIOUS
<1>1. /\ mode = "down" /\ loaded' = LineRecords
      /\ mode' = IF \E i \in Torn : LineEnd(i) < Len(disk) THEN "refused"
                 ELSE IF Torn # {} THEN "torn" ELSE "loaded"
      /\ disk' = disk /\ synced' = synced /\ quarantined' = quarantined /\ stream' = stream
      /\ unwritten' = unwritten /\ frontier' = frontier /\ made' = made
      /\ orphans' = orphans /\ crashes' = crashes /\ acked' = acked
  BY DEF Load
<1>2. mode' \in {"refused", "torn", "loaded"}
  BY <1>1
<1>3. disk \in Seq(Token) /\ Shape(disk) /\ unwritten = <<>>
  BY <1>1 DEF IInv, TypeOK, Token, Idle
<1> DEFINE R == LineRecords
<1>4. /\ R \in Seq(Record)
      /\ \A i, j \in 1..Len(R) : i < j => R[i].sequence < R[j].sequence
      /\ \A k \in 1..Len(R) : \E i \in 1..Len(disk) : R[k] = disk[i]
      /\ \A i \in 1..Len(disk) : Heads(disk, i) /\ ~TornAt(disk, i) =>
            \E k \in 1..Len(R) : R[k] = disk[i]
  BY <1>3, RecordsRead
<1>5. \A i : i \in Torn <=> TornAt(disk, i)
  BY <1>3, TornIs
<1> HIDE DEF R
<1>6. TypeOK'
  BY <1>1, <1>2, <1>4 DEF IInv, TypeOK, R
<1>7. Ages'
  <2>1. Aged(R, made)
    BY <1>4 DEF IInv, Ages, Aged
  <2> QED
    BY <1>1, <2>1 DEF IInv, Ages, R
<1>8. Whole'
  <2> SUFFICES ASSUME mode' = "loaded", NEW i \in 1..Len(disk), disk[i] = Fragment PROVE FALSE
    BY <1>1, <1>2 DEF Whole
  <2>1. Torn = {}
    BY <1>1
  <2>2. \E j \in 1..Len(disk) : TornAt(disk, j)
    BY <1>3, FragmentTears
  <2> QED
    BY <1>5, <2>1, <2>2
<1>9. TornKnown'
  <2> SUFFICES ASSUME mode' = "torn" PROVE \E i \in 1..Len(disk) : TornAt(disk, i)
    BY <1>1, <1>2 DEF TornKnown
  <2>1. Torn # {}
    BY <1>1
  <2> QED
    BY <1>5, <2>1 DEF TornAt
<1>10. ReadBack'
  <2> SUFFICES ASSUME NEW i \in 1..Len(disk), Heads(disk, i), ~TornAt(disk, i)
               PROVE  R # <<>> /\ disk[i].sequence <= Last(R).sequence
    BY <1>1 DEF ReadBack, R
  <2>1. PICK k \in 1..Len(R) : R[k] = disk[i]
    BY <1>4
  <2>2. Len(R) \in 1..Len(R) /\ (k = Len(R) \/ k < Len(R))
    BY <1>4, <2>1
  <2>3. R[k] \in Record /\ R[Len(R)] \in Record
    BY <1>4, <2>1, <2>2
  <2>4. R[k].sequence \in Nat /\ R[Len(R)].sequence \in Nat
    BY <2>3, Tokens
  <2>5. k < Len(R) => R[k].sequence < R[Len(R)].sequence
    BY <1>4, <2>2
  <2>6. R[k].sequence <= R[Len(R)].sequence
    BY <2>2, <2>4, <2>5
  <2> QED
    BY <1>4, <2>1, <2>6 DEF Last
<1>11. RecoveredInOrder'
  BY <1>1, <1>4 DEF RecoveredInOrder, R
<1> QED
  BY <1>1, <1>2, <1>3, <1>6, <1>7, <1>8, <1>9, <1>10, <1>11, FileUntouched
  DEF IInv, TailKept, Idle, RowsAhead, FrontierNeverAhead

LEMMA QuarantineStep == IInv /\ Quarantine => IInv'
<1> SUFFICES ASSUME IInv, Quarantine PROVE IInv'
  OBVIOUS
<1>1. /\ mode = "torn" /\ mode' = "quarantined"
      /\ quarantined' = quarantined \cup {SubSeq(disk, CompleteBytes + 1, Len(disk))}
      /\ disk' = disk /\ synced' = synced /\ loaded' = loaded /\ stream' = stream
      /\ unwritten' = unwritten /\ frontier' = frontier /\ made' = made
      /\ orphans' = orphans /\ crashes' = crashes /\ acked' = acked
  BY DEF Quarantine
<1>2. disk \in Seq(Token) /\ Shape(disk) /\ unwritten = <<>>
  BY <1>1 DEF IInv, TypeOK, Token, Idle
<1>3. TailKept'
  <2> SUFFICES ASSUME NEW i \in 1..Len(disk), TornAt(disk, i)
               PROVE  SubSeq(disk, i, Len(disk)) \in quarantined'
    BY <1>1 DEF TailKept
  <2>1. CompleteBytes = i - 1
    BY <1>2, CompleteIs
  <2>2. CompleteBytes + 1 = i
    BY <2>1
  <2> QED
    BY <1>1, <2>2
<1>4. TypeOK' /\ Ages'
  BY <1>1 DEF IInv, TypeOK, Ages
<1>5. TornKnown' /\ ReadBack' /\ RecoveredInOrder' /\ Idle'
  BY <1>1 DEF IInv, TornKnown, ReadBack, RecoveredInOrder, Idle
<1> QED
  BY <1>1, <1>3, <1>4, <1>5, FileUntouched
  DEF IInv, Whole, RowsAhead, FrontierNeverAhead

(* The file loses its tail: what remains is a prefix of the shape. *)
LEMMA PrefixKeeps ==
    ASSUME IInv, NEW n \in 0..Len(disk), n >= synced, disk' = SubSeq(disk, 1, n),
           synced' = synced, acked' = acked
    PROVE  /\ disk' \in Seq(Token) /\ Len(disk') = n /\ synced' \in 0..Len(disk')
           /\ \A i \in 1..n : disk'[i] = disk[i]
           /\ Shape(disk') /\ SyncedLines' /\ AckedSynced'
           /\ Aged(disk', made)
<1>1. disk \in Seq(Token) /\ synced \in Nat /\ Shape(disk)
  BY DEF IInv, TypeOK, Token
<1>2. disk' \in Seq(Token) /\ Len(disk') = n /\ \A i \in 1..n : disk'[i] = disk[i]
  BY <1>1, PrefixOf
<1>3. Shape(disk')
  BY <1>1, ShapePrefix
<1>4. \A i \in 1..synced : i \in 1..n
  BY <1>1
<1>5. \A i \in 1..n : i \in 1..Len(disk)
  OBVIOUS
<1>6. SyncedLines'
  BY <1>1, <1>2, <1>4 DEF IInv, SyncedLines
<1>7. AckedSynced'
  BY <1>2, <1>4 DEF IInv, AckedSynced
<1>8. Aged(disk', made)
  BY <1>2, <1>5 DEF IInv, Ages, Aged
<1> QED
  BY <1>1, <1>2, <1>3, <1>6, <1>7, <1>8

(* fsync covered whole lines, and a torn line is none of them. *)
LEMMA TornUnsynced ==
    ASSUME IInv, NEW i, TornAt(disk, i)
    PROVE  synced <= i - 1 /\ i - 1 \in 0..Len(disk)
<1>1. disk \in Seq(Token) /\ synced \in 0..Len(disk) /\ i \in 1..Len(disk)
  BY DEF IInv, TypeOK, Token, TornAt
<1>2. ASSUME synced > i - 1 PROVE FALSE
  <2>1. synced \in i..Len(disk) /\ synced > 0
    BY <1>1, <1>2
  <2>2. disk[synced] = Newline
    BY <2>1 DEF IInv, SyncedLines
  <2> QED
    BY <2>1, <2>2 DEF TornAt
<1> QED
  BY <1>1, <1>2

LEMMA TruncateStep == IInv /\ Truncate => IInv'
<1> SUFFICES ASSUME IInv, Truncate PROVE IInv'
  OBVIOUS
<1>1. /\ mode = "quarantined" /\ mode' = "loaded"
      /\ disk' = SubSeq(disk, 1, CompleteBytes)
      /\ synced' = Min({synced, CompleteBytes})
      /\ quarantined' = quarantined /\ loaded' = loaded /\ stream' = stream
      /\ unwritten' = unwritten /\ frontier' = frontier /\ made' = made
      /\ orphans' = orphans /\ crashes' = crashes /\ acked' = acked
  BY DEF Truncate
<1>2. disk \in Seq(Token) /\ Shape(disk) /\ unwritten = <<>> /\ synced \in Nat
  BY <1>1 DEF IInv, TypeOK, Token, Idle
<1>3. PICK i \in 1..Len(disk) : TornAt(disk, i)
  BY <1>1 DEF IInv, TornKnown
<1>4. CompleteBytes = i - 1 /\ synced <= i - 1 /\ i - 1 \in 0..Len(disk)
  BY <1>2, <1>3, CompleteIs, TornUnsynced
<1>5. synced' = synced
  <2>1. {synced, i - 1} \in SUBSET Nat /\ {synced, i - 1} # {}
    BY <1>2, <1>4
  <2>2. Min({synced, i - 1}) \in {synced, i - 1} /\ Min({synced, i - 1}) <= synced
    BY <2>1, MinIs
  <2> QED
    BY <1>1, <1>2, <1>4, <2>2
<1>6. /\ disk' \in Seq(Token) /\ Len(disk') = i - 1 /\ synced' \in 0..Len(disk')
      /\ \A j \in 1..(i - 1) : disk'[j] = disk[j]
      /\ Shape(disk') /\ SyncedLines' /\ AckedSynced'
      /\ Aged(disk', made)
  BY <1>1, <1>4, <1>5, PrefixKeeps
<1>7. TypeOK'
  BY <1>1, <1>6 DEF IInv, TypeOK, Token
<1>8. Ages'
  BY <1>1, <1>6 DEF IInv, Ages
<1>9. \A j \in 1..(i - 1) : j \in 1..Len(disk) /\ j # Len(disk) /\ j # i
  BY <1>4
<1>10. \A j \in 1..Len(disk') : disk'[j] # Fragment
  <2>1. \A j \in 1..Len(disk) : disk[j] = Fragment => j = Len(disk)
    BY <1>2 DEF Shape
  <2>2. Len(disk') = i - 1 /\ \A j \in 1..(i - 1) : disk'[j] = disk[j]
    BY <1>6
  <2> QED
    BY <1>9, <2>1, <2>2
<1>11. ReadBack'
  <2> SUFFICES ASSUME NEW j \in 1..(i - 1), Heads(disk', j)
               PROVE  loaded # <<>> /\ disk[j].sequence <= Last(loaded).sequence
    BY <1>1, <1>6 DEF ReadBack
  <2>1. Heads(disk, j)
    BY <1>6 DEF Heads
  <2>2. ~TornAt(disk, j)
    BY <1>2, <1>3, <1>9, TornOnce
  <2> QED
    BY <1>1, <1>9, <2>1, <2>2 DEF IInv, ReadBack
<1>12. RecoveredInOrder'
  BY <1>1 DEF IInv, RecoveredInOrder
<1> QED
  BY <1>1, <1>2, <1>6, <1>7, <1>8, <1>10, <1>11, <1>12
  DEF IInv, Whole, TornKnown, TailKept, Idle, RowsAhead, FrontierNeverAhead

LEMMA ResumeStep == IInv /\ Resume => IInv'
<1> SUFFICES ASSUME IInv, Resume PROVE IInv'
  OBVIOUS
<1>1. /\ mode = "loaded"
      /\ disk' = disk /\ synced' = synced /\ quarantined' = quarantined /\ loaded' = loaded
      /\ unwritten' = unwritten /\ made' = made
      /\ orphans' = orphans /\ crashes' = crashes /\ acked' = acked
  BY DEF Resume
<1>2. \/ /\ mode' = "running" /\ frontier' = OpenedAt
         /\ stream' = [next |-> ResumedNext,
                       head |-> IF loaded = <<>> THEN Genesis ELSE Last(loaded).id]
      \/ mode' = "refused" /\ stream' = stream /\ frontier' = frontier
  BY DEF Resume
<1>3. /\ disk \in Seq(Token) /\ Shape(disk) /\ unwritten = <<>>
      /\ loaded \in Seq(Record) /\ made \in Nat /\ made <= MaxRows /\ MaxRows \in Nat
  BY <1>1, LogAssumption DEF IInv, TypeOK, Token, Idle
<1>4. Shape(disk') /\ SyncedLines' /\ AckedSynced' /\ RecoveredInOrder'
  BY <1>1, FileUntouched DEF IInv, RecoveredInOrder
<1>5. CASE mode' = "refused"
  <2>1. stream' = stream /\ frontier' = frontier
    BY <1>2, <1>5
  <2>2. TypeOK' /\ Ages'
    BY <1>1, <1>5, <2>1 DEF IInv, TypeOK, Ages
  <2> QED
    BY <1>1, <1>3, <1>4, <1>5, <2>2
    DEF IInv, Whole, TornKnown, TailKept, ReadBack, Idle, RowsAhead, FrontierNeverAhead
<1>6. CASE mode' = "running"
  <2>1. /\ frontier' = Len(loaded) + 1
        /\ stream' = [next |-> ResumedNext,
                      head |-> IF loaded = <<>> THEN 0 ELSE Last(loaded).id]
    BY <1>2, <1>6 DEF OpenedAt, Genesis
  <2>2. CASE loaded = <<>>
    <3>1. stream'.next = 1 /\ stream'.head = 0 /\ frontier' = 1
          /\ stream' \in [next : Nat \ {0}, head : 0..MaxRows]
      BY <1>3, <2>1, <2>2 DEF ResumedNext
    <3>2. \A i \in 1..Len(disk) : ~Heads(disk, i)
      <4> SUFFICES ASSUME NEW i \in 1..Len(disk), Heads(disk, i) PROVE FALSE
        OBVIOUS
      <4>1. ~TornAt(disk, i)
        BY <1>1, <1>3 DEF IInv, Whole, TornAt
      <4> QED
        BY <1>1, <2>2, <4>1 DEF IInv, ReadBack
    <3>3. TypeOK' /\ Ages'
      BY <1>1, <1>3, <1>6, <3>1 DEF IInv, TypeOK, Ages
    <3> QED
      BY <1>1, <1>3, <1>4, <1>6, <3>1, <3>2, <3>3
      DEF IInv, Whole, TornKnown, TailKept, ReadBack, Idle, RowsAhead, FrontierNeverAhead
  <2>3. CASE loaded # <<>>
    <3> DEFINE n == Len(loaded)
               z == loaded[n]
    <3>1. n \in Nat /\ n > 0 /\ n \in 1..n /\ z \in Record /\ Last(loaded) = z
      BY <1>3, <2>3 DEF Last
    <3>2. /\ z.sequence \in Nat /\ z.id \in Nat /\ z.sequence <= z.id /\ z.id <= made
      BY <3>1, Tokens DEF IInv, Ages, Aged
    <3>3. n <= z.sequence
      <4> DEFINE v == [i \in 1..n |-> loaded[i].sequence]
      <4>1. \A i \in 1..n : v[i] \in Nat /\ v[i] >= 1
        BY <1>3, Tokens
      <4>2. \A i, j \in 1..n : i < j => v[i] < v[j]
        BY DEF IInv, RecoveredInOrder
      <4>3. v[n] = z.sequence
        BY <3>1
      <4> HIDE DEF v, n
      <4>4. n <= v[n]
        BY <3>1, <4>1, <4>2, OrderedReaches
      <4> QED
        BY <4>3, <4>4
    <3> HIDE DEF z
    <3>4. /\ stream'.next = z.sequence + 1 /\ stream'.head = z.id /\ frontier' = n + 1
          /\ stream' \in [next : Nat \ {0}, head : 0..MaxRows]
      BY <1>3, <2>1, <2>3, <3>1, <3>2 DEF ResumedNext
    <3>5. \A i \in 1..Len(disk) : Heads(disk, i) => disk[i].sequence < z.sequence + 1
      <4> SUFFICES ASSUME NEW i \in 1..Len(disk), Heads(disk, i)
                   PROVE  disk[i].sequence < z.sequence + 1
        OBVIOUS
      <4>1. ~TornAt(disk, i)
        BY <1>1, <1>3 DEF IInv, Whole, TornAt
      <4>2. disk[i].sequence <= z.sequence
        BY <1>1, <3>1, <4>1 DEF IInv, ReadBack
      <4>3. disk[i].sequence \in Nat
        BY <1>3, Tokens DEF Heads
      <4> QED
        BY <3>2, <4>2, <4>3
    <3>6. TypeOK' /\ Ages'
      BY <1>1, <1>3, <1>6, <3>1, <3>2, <3>4 DEF IInv, TypeOK, Ages
    <3>7. RowsAhead'
      BY <1>1, <1>3, <1>6, <3>4, <3>5 DEF RowsAhead
    <3>8. FrontierNeverAhead'
      BY <1>1, <1>3, <1>6, <3>1, <3>2, <3>3, <3>4 DEF FrontierNeverAhead
    <3> QED
      BY <1>1, <1>3, <1>4, <1>6, <3>6, <3>7, <3>8
      DEF IInv, Whole, TornKnown, TailKept, ReadBack, Idle
  <2> QED
    BY <2>2, <2>3
<1> QED
  BY <1>2, <1>5, <1>6

(* What the steps of a running process share: the file has no fragment, the
   rows are typed and the heads of lines have sequences. *)
LEMMA Running ==
    ASSUME IInv, mode = "running"
    PROVE  /\ disk \in Seq(Token) /\ Len(disk) \in Nat /\ Shape(disk)
           /\ \A i \in 1..Len(disk) : disk[i] # Fragment
           /\ \A i \in 1..Len(disk) : IsRecord(disk[i]) => disk[i].sequence \in Nat
           /\ unwritten \in Seq(Record) /\ Len(unwritten) \in Nat
           /\ \A i \in 1..Len(unwritten) : unwritten[i] \in Record
           /\ \A i \in 1..Len(unwritten) : unwritten[i].sequence \in Nat
           /\ stream.next \in Nat /\ stream.next > 0 /\ stream.head \in Nat
           /\ frontier \in Nat /\ synced \in 0..Len(disk)
           /\ made \in Nat /\ MaxRows \in Nat
<1>1. /\ disk \in Seq(Token) /\ Len(disk) \in Nat /\ Shape(disk)
      /\ unwritten \in Seq(Record) /\ Len(unwritten) \in Nat
      /\ stream.next \in Nat /\ stream.next > 0 /\ stream.head \in Nat
      /\ frontier \in Nat /\ synced \in 0..Len(disk)
      /\ made \in Nat /\ MaxRows \in Nat
  BY LogAssumption DEF IInv, TypeOK, Token
<1>2. \A i \in 1..Len(disk) : disk[i] # Fragment
  BY DEF IInv, Whole
<1>3. \A i \in 1..Len(disk) : IsRecord(disk[i]) => disk[i].sequence \in Nat
  BY <1>1, Tokens
<1>4. \A i \in 1..Len(unwritten) : unwritten[i] \in Record
  BY <1>1
<1>5. \A i \in 1..Len(unwritten) : unwritten[i].sequence \in Nat
  BY <1>4, Tokens
<1> QED
  BY <1>1, <1>2, <1>3, <1>4, <1>5

LEMMA RecordRowStep ==
    ASSUME IInv, NEW delivered \in BOOLEAN, RecordRow(delivered)
    PROVE  IInv'
<1> DEFINE row == [kind |-> "record", id |-> made + 1, sequence |-> stream.next,
                   previous |-> stream.head]
           n == Len(unwritten)
<1>1. /\ mode = "running" /\ made < MaxRows
      /\ stream' = [next |-> stream.next + 1, head |-> made + 1]
      /\ made' = made + 1
      /\ disk' = disk /\ synced' = synced /\ quarantined' = quarantined /\ mode' = mode
      /\ loaded' = loaded /\ frontier' = frontier /\ crashes' = crashes /\ acked' = acked
  BY DEF RecordRow
<1>2. \/ unwritten' = Append(unwritten, row) /\ orphans' = orphans
      \/ unwritten' = unwritten /\ orphans < MaxOrphans /\ orphans' = orphans + 1
  BY DEF RecordRow
<1>3. /\ disk \in Seq(Token) /\ Len(disk) \in Nat
      /\ \A i \in 1..Len(disk) : IsRecord(disk[i]) => disk[i].sequence \in Nat
      /\ unwritten \in Seq(Record) /\ n \in Nat
      /\ \A i \in 1..n : unwritten[i] \in Record
      /\ \A i \in 1..n : unwritten[i].sequence \in Nat
      /\ stream.next \in Nat /\ stream.next > 0 /\ stream.head \in Nat
      /\ frontier \in Nat /\ made \in Nat /\ MaxRows \in Nat
  BY <1>1, Running
<1>4. stream.next <= made + 1 /\ stream.head <= made
  BY DEF IInv, Ages
<1>5. row \in Record /\ row.sequence = stream.next /\ row.id = made + 1
  <2>1. made + 1 \in 1..MaxRows /\ stream.next \in 1..MaxRows /\ stream.head \in 0..MaxRows
    BY <1>1, <1>3, <1>4
  <2> QED
    BY <2>1 DEF Record
<1> HIDE DEF row
<1>6. /\ unwritten' \in Seq(Record)
      /\ Len(unwritten') \in Nat
      /\ \A i \in 1..Len(unwritten') :
            \/ i \in 1..n /\ unwritten'[i] = unwritten[i]
            \/ i = n + 1 /\ unwritten'[i] = row
      /\ n > 0 => unwritten'[1] = unwritten[1]
  <2>1. CASE unwritten' = unwritten
    BY <1>3, <2>1
  <2>2. CASE unwritten' = Append(unwritten, row)
    <3>1. /\ Append(unwritten, row) \in Seq(Record) /\ Len(Append(unwritten, row)) = n + 1
          /\ \A i \in 1..n : Append(unwritten, row)[i] = unwritten[i]
          /\ Append(unwritten, row)[n + 1] = row
      BY <1>3, <1>5
    <3>2. \A i \in 1..(n + 1) : i \in 1..n \/ i = n + 1
      BY <1>3
    <3>3. n > 0 => 1 \in 1..n
      BY <1>3
    <3> HIDE DEF n
    <3> QED
      BY <1>3, <2>2, <3>1, <3>2, <3>3
  <2> QED
    BY <1>2, <2>1, <2>2
<1>7. TypeOK'
  <2>1. orphans' \in 0..MaxOrphans
    BY <1>2, LogAssumption DEF IInv, TypeOK
  <2>2. stream' \in [next : Nat \ {0}, head : 0..MaxRows] /\ made' \in 0..MaxRows
    BY <1>1, <1>3
  <2> QED
    BY <1>1, <1>6, <2>1, <2>2 DEF IInv, TypeOK
<1>8. Ages'
  <2>1. Aged(disk, made) /\ Aged(loaded, made) /\ Aged(unwritten, made)
    BY DEF IInv, Ages
  <2>2. loaded \in Seq(Record) /\ \A i \in 1..Len(loaded) : loaded[i] \in Record
    BY DEF IInv, TypeOK
  <2>3. Aged(disk, made + 1)
    <3>1. \A i \in 1..Len(disk) : IsRecord(disk[i]) => disk[i].id \in Nat
      BY <1>3, Tokens
    <3> QED
      BY <1>3, <2>1, <3>1 DEF Aged
  <2>4. Aged(loaded, made + 1)
    <3>1. \A i \in 1..Len(loaded) : loaded[i].id \in Nat
      BY <2>2, Tokens
    <3> QED
      BY <1>3, <2>1, <3>1 DEF Aged
  <2>5. Aged(unwritten', made + 1)
    <3>1. \A i \in 1..n : unwritten[i].id \in Nat
      BY <1>3, Tokens
    <3> SUFFICES ASSUME NEW i \in 1..Len(unwritten')
                 PROVE  /\ unwritten'[i].sequence <= unwritten'[i].id
                        /\ unwritten'[i].id <= made + 1
      BY DEF Aged
    <3>2. CASE i \in 1..n /\ unwritten'[i] = unwritten[i]
      <4>1. IsRecord(unwritten[i])
        BY <1>3, <3>2, Tokens
      <4>2. unwritten[i].sequence <= unwritten[i].id /\ unwritten[i].id <= made
        BY <2>1, <3>2, <4>1 DEF Aged
      <4> QED
        BY <1>3, <3>1, <3>2, <4>2
    <3>3. CASE unwritten'[i] = row
      BY <1>3, <1>4, <1>5, <3>3
    <3> QED
      BY <1>6, <3>2, <3>3
  <2> QED
    BY <1>1, <1>3, <1>4, <2>3, <2>4, <2>5 DEF Ages
<1>9. /\ stream'.next = stream.next + 1
      /\ \A i, j \in 1..n : i < j => unwritten[i].sequence < unwritten[j].sequence
      /\ \A i \in 1..n : unwritten[i].sequence < stream.next
      /\ \A i \in 1..n : unwritten[i].sequence >= frontier
      /\ frontier <= stream.next
  BY <1>1 DEF IInv, RowsAhead, FrontierNeverAhead
<1>10. RowsAhead'
  <2>1. \A i, j \in 1..Len(unwritten') :
            i < j => unwritten'[i].sequence < unwritten'[j].sequence
    <3> SUFFICES ASSUME NEW i \in 1..Len(unwritten'), NEW j \in 1..Len(unwritten'), i < j
                 PROVE  unwritten'[i].sequence < unwritten'[j].sequence
      OBVIOUS
    <3>1. CASE j \in 1..n /\ unwritten'[j] = unwritten[j]
      <4>1. i \in 1..n /\ unwritten'[i] = unwritten[i]
        BY <1>3, <1>6, <3>1
      <4> QED
        BY <1>9, <3>1, <4>1
    <3>2. CASE j = n + 1 /\ unwritten'[j] = row
      <4>1. i \in 1..n /\ unwritten'[i] = unwritten[i]
        BY <1>3, <1>6, <3>2
      <4> QED
        BY <1>5, <1>9, <3>2, <4>1
    <3> QED
      BY <1>6, <3>1, <3>2
  <2>2. \A i \in 1..Len(unwritten') : unwritten'[i].sequence < stream'.next
    BY <1>3, <1>5, <1>6, <1>9
  <2>3. \A i \in 1..Len(disk) : Heads(disk, i) =>
              /\ disk[i].sequence < stream.next + 1
              /\ unwritten' # <<>> =>
                    \/ i = Len(disk) /\ disk[i] = unwritten'[1]
                    \/ disk[i].sequence < unwritten'[1].sequence
    <3> SUFFICES ASSUME NEW i \in 1..Len(disk), Heads(disk, i)
                 PROVE  /\ disk[i].sequence < stream.next + 1
                        /\ unwritten' # <<>> =>
                              \/ i = Len(disk) /\ disk[i] = unwritten'[1]
                              \/ disk[i].sequence < unwritten'[1].sequence
      OBVIOUS
    <3>1. /\ disk[i].sequence < stream.next
          /\ unwritten # <<>> =>
                \/ i = Len(disk) /\ disk[i] = unwritten[1]
                \/ disk[i].sequence < unwritten[1].sequence
      BY <1>1 DEF IInv, RowsAhead
    <3>2. disk[i].sequence \in Nat
      BY <1>3 DEF Heads
    <3>3. CASE n > 0
      BY <1>3, <1>6, <3>1, <3>2, <3>3
    <3>4. CASE n = 0
      <4>1. unwritten' # <<>> => unwritten'[1] = row
        BY <1>6, <3>4
      <4> QED
        BY <1>3, <1>5, <3>1, <3>2, <4>1
    <3> QED
      BY <1>3, <3>3, <3>4
  <2> QED
    BY <1>1, <1>9, <2>1, <2>2, <2>3 DEF RowsAhead
<1>11. FrontierNeverAhead'
  <2>1. \A i \in 1..Len(unwritten') : unwritten'[i].sequence >= frontier
    BY <1>5, <1>6, <1>9, <1>3
  <2>2. frontier <= stream'.next
    BY <1>3, <1>9
  <2> QED
    BY <1>1, <2>1, <2>2 DEF FrontierNeverAhead
<1>12. RecoveredInOrder' /\ Whole'
  BY <1>1 DEF IInv, RecoveredInOrder, Whole
<1> QED
  BY <1>1, <1>7, <1>8, <1>10, <1>11, <1>12, FileUntouched
  DEF IInv, TornKnown, TailKept, ReadBack, Idle

(* The file grows by a token. *)
LEMMA AppendKeeps ==
    ASSUME IInv, NEW t \in Token, disk' = Append(disk, t), synced' = synced, acked' = acked
    PROVE  /\ disk' \in Seq(Token) /\ Len(disk') = Len(disk) + 1 /\ synced' \in 0..Len(disk')
           /\ \A i \in 1..Len(disk) : disk'[i] = disk[i]
           /\ disk'[Len(disk) + 1] = t
           /\ SyncedLines' /\ AckedSynced'
           /\ (IsRecord(t) => t.sequence <= t.id /\ t.id <= made) => Aged(disk', made)
<1> DEFINE n == Len(disk)
<1>1. disk \in Seq(Token) /\ synced \in 0..n /\ n \in Nat
  BY DEF IInv, TypeOK, Token
<1>2. /\ disk' \in Seq(Token) /\ Len(disk') = n + 1
      /\ \A i \in 1..n : disk'[i] = disk[i]
      /\ disk'[n + 1] = t
  BY <1>1, Appended
<1> HIDE DEF n
<1>3. \A i \in 1..synced : i \in 1..n
  BY <1>1
<1>4. \A i \in 1..(n + 1) : i \in 1..n \/ i = n + 1
  BY <1>1
<1>5. SyncedLines'
  <2>1. synced > 0 => synced \in 1..n
    BY <1>1
  <2> QED
    BY <1>2, <2>1 DEF IInv, SyncedLines
<1>6. AckedSynced'
  BY <1>2, <1>3 DEF IInv, AckedSynced
<1>7. (IsRecord(t) => t.sequence <= t.id /\ t.id <= made) => Aged(disk', made)
  <2>1. \A i \in 1..n : IsRecord(disk[i]) => disk[i].sequence <= disk[i].id /\ disk[i].id <= made
    BY DEF IInv, Ages, Aged, n
  <2> QED
    BY <1>2, <1>4, <2>1 DEF Aged
<1> QED
  BY <1>1, <1>2, <1>5, <1>6, <1>7 DEF n

LEMMA WriteRecordStep == IInv /\ WriteRecord => IInv'
<1> SUFFICES ASSUME IInv, WriteRecord PROVE IInv'
  OBVIOUS
<1> DEFINE r == unwritten[1]
           n == Len(disk)
<1>1. /\ mode = "running" /\ unwritten # <<>> /\ ~MidLine
      /\ disk' = Append(disk, Head(unwritten))
      /\ synced' = synced /\ quarantined' = quarantined /\ mode' = mode
      /\ loaded' = loaded /\ stream' = stream /\ unwritten' = unwritten
      /\ frontier' = frontier /\ made' = made
      /\ orphans' = orphans /\ crashes' = crashes /\ acked' = acked
  BY DEF WriteRecord
<1>2. /\ disk \in Seq(Token) /\ n \in Nat /\ Shape(disk)
      /\ \A i \in 1..n : disk[i] # Fragment
      /\ unwritten \in Seq(Record) /\ Len(unwritten) \in Nat
      /\ \A i \in 1..Len(unwritten) : unwritten[i] \in Record
  BY <1>1, Running
<1>3. 1 \in 1..Len(unwritten) /\ Head(unwritten) = r
  BY <1>1, <1>2
<1>4. r \in Record /\ r \in Token /\ IsRecord(r) /\ r # Fragment /\ r # Newline
      /\ r.sequence < stream.next /\ r.sequence <= r.id /\ r.id <= made
  BY <1>1, <1>2, <1>3, Tokens DEF IInv, RowsAhead, Ages, Aged, Token
<1>5. \A i \in 1..n : Heads(disk, i) =>
          disk[i].sequence < r.sequence /\ disk[i].sequence < stream.next
  <2> SUFFICES ASSUME NEW i \in 1..n, Heads(disk, i)
               PROVE  disk[i].sequence < r.sequence /\ disk[i].sequence < stream.next
    OBVIOUS
  <2>1. /\ disk[i].sequence < stream.next
        /\ (i = n /\ disk[i] = r) \/ disk[i].sequence < r.sequence
    BY <1>1 DEF IInv, RowsAhead
  <2>2. ~(i = n /\ disk[i] = r)
    BY <1>1, <1>2, <1>3, <1>4 DEF MidLine, Last
  <2> QED
    BY <2>1, <2>2
<1> HIDE DEF r
<1>6. disk' = Append(disk, r)
  BY <1>1, <1>3
<1>7. /\ disk' \in Seq(Token) /\ Len(disk') = n + 1 /\ synced' \in 0..Len(disk')
      /\ \A i \in 1..n : disk'[i] = disk[i]
      /\ disk'[n + 1] = r
      /\ SyncedLines' /\ AckedSynced'
      /\ Aged(disk', made)
  BY <1>1, <1>4, <1>6, AppendKeeps
<1>8. Shape(disk')
  BY <1>2, <1>4, <1>5, <1>6, ShapeAppend
<1> HIDE DEF n
<1>9. \A i \in 1..(n + 1) : i \in 1..n \/ i = n + 1
  BY <1>2
<1>10. Whole'
  BY <1>1, <1>2, <1>4, <1>7, <1>9 DEF Whole
<1>11. TypeOK'
  BY <1>1, <1>7 DEF IInv, TypeOK, Token
<1>12. Ages'
  BY <1>1, <1>7 DEF IInv, Ages
<1>13. RowsAhead'
  <2>1. \A i \in 1..(n + 1) : Heads(disk', i) =>
              /\ disk'[i].sequence < stream.next
              /\ \/ i = n + 1 /\ disk'[i] = r
                 \/ disk'[i].sequence < r.sequence
    <3> SUFFICES ASSUME NEW i \in 1..(n + 1), Heads(disk', i)
                 PROVE  /\ disk'[i].sequence < stream.next
                        /\ \/ i = n + 1 /\ disk'[i] = r
                           \/ disk'[i].sequence < r.sequence
      OBVIOUS
    <3>1. CASE i \in 1..n
      <4>1. Heads(disk, i)
        BY <1>2, <1>7, <3>1 DEF Heads
      <4> QED
        BY <1>5, <1>7, <3>1, <4>1
    <3>2. CASE i = n + 1
      BY <1>4, <1>7, <3>2
    <3> QED
      BY <1>9, <3>1, <3>2
  <2>2. /\ \A i, j \in 1..Len(unwritten) :
              i < j => unwritten[i].sequence < unwritten[j].sequence
        /\ \A i \in 1..Len(unwritten) : unwritten[i].sequence < stream.next
    BY <1>1 DEF IInv, RowsAhead
  <2> QED
    BY <1>1, <1>7, <2>1, <2>2 DEF RowsAhead, r
<1>14. FrontierNeverAhead' /\ RecoveredInOrder'
  BY <1>1 DEF IInv, FrontierNeverAhead, RecoveredInOrder
<1> QED
  BY <1>1, <1>7, <1>8, <1>10, <1>11, <1>12, <1>13, <1>14
  DEF IInv, TornKnown, TailKept, ReadBack, Idle

LEMMA WriteNewlineStep == IInv /\ WriteNewline => IInv'
<1> SUFFICES ASSUME IInv, WriteNewline PROVE IInv'
  OBVIOUS
<1> DEFINE r == unwritten[1]
           n == Len(disk)
           m == Len(unwritten)
<1>1. /\ mode = "running" /\ MidLine
      /\ disk' = Append(disk, Newline) /\ unwritten' = Tail(unwritten)
      /\ frontier' = frontier + 1
      /\ synced' = synced /\ quarantined' = quarantined /\ mode' = mode
      /\ loaded' = loaded /\ stream' = stream /\ made' = made
      /\ orphans' = orphans /\ crashes' = crashes /\ acked' = acked
  BY DEF WriteNewline
<1>2. /\ disk \in Seq(Token) /\ n \in Nat /\ Shape(disk)
      /\ \A i \in 1..n : disk[i] # Fragment
      /\ \A i \in 1..n : IsRecord(disk[i]) => disk[i].sequence \in Nat
      /\ unwritten \in Seq(Record) /\ m \in Nat
      /\ \A i \in 1..m : unwritten[i] \in Record
      /\ \A i \in 1..m : unwritten[i].sequence \in Nat
      /\ stream.next \in Nat /\ frontier \in Nat
  BY <1>1, Running
<1>3. n > 0 /\ n \in 1..n /\ m > 0 /\ 1 \in 1..m /\ IsRecord(disk[n]) /\ disk[n] = r
  BY <1>1, <1>2 DEF MidLine, Last
<1>4. /\ unwritten' \in Seq(Record) /\ Len(unwritten') = m - 1
      /\ \A i \in 1..(m - 1) : i + 1 \in 1..m /\ unwritten'[i] = unwritten[i + 1]
  BY <1>1, <1>2, <1>3
<1>5. Newline \in Token /\ ~IsRecord(Newline) /\ Newline # Fragment
  BY Tokens DEF Token
<1>6. /\ disk' \in Seq(Token) /\ Len(disk') = n + 1 /\ synced' \in 0..Len(disk')
      /\ \A i \in 1..n : disk'[i] = disk[i]
      /\ disk'[n + 1] = Newline
      /\ SyncedLines' /\ AckedSynced'
      /\ Aged(disk', made)
  BY <1>1, <1>5, AppendKeeps
<1>7. Shape(disk')
  BY <1>1, <1>2, <1>3, <1>5, ShapeAppend
<1> HIDE DEF n, m, r
<1>8. \A i \in 1..(n + 1) : i \in 1..n \/ i = n + 1
  BY <1>2
<1>9. Whole'
  BY <1>1, <1>2, <1>5, <1>6, <1>8 DEF Whole
<1>10. TypeOK'
  BY <1>1, <1>2, <1>4, <1>6 DEF IInv, TypeOK, Token
<1>11. Ages'
  <2>1. Aged(unwritten', made)
    BY <1>4 DEF IInv, Ages, Aged, m
  <2> QED
    BY <1>1, <1>6, <2>1 DEF IInv, Ages
<1>12. /\ \A i, j \in 1..m : i < j => unwritten[i].sequence < unwritten[j].sequence
       /\ \A i \in 1..m : unwritten[i].sequence < stream.next
       /\ \A i \in 1..m : unwritten[i].sequence >= frontier
       /\ \A i \in 1..n : Heads(disk, i) =>
             /\ disk[i].sequence < stream.next
             /\ \/ i = n /\ disk[i] = r
                \/ disk[i].sequence < r.sequence
  <2>1. unwritten # <<>>
    BY <1>1 DEF MidLine
  <2> QED
    BY <1>1, <2>1 DEF IInv, RowsAhead, FrontierNeverAhead, n, m, r
<1>13. r.sequence \in Nat /\ r.sequence >= frontier /\ r.sequence < stream.next
  BY <1>2, <1>3, <1>12 DEF r
<1>14. \A i \in 1..(m - 1) : r.sequence < unwritten'[i].sequence
  <2> SUFFICES ASSUME NEW i \in 1..(m - 1) PROVE r.sequence < unwritten'[i].sequence
    OBVIOUS
  <2>1. i + 1 \in 1..m /\ 1 < i + 1
    BY <1>2, <1>4
  <2> QED
    BY <1>3, <1>4, <1>12, <2>1 DEF r
<1>15. RowsAhead'
  <2>1. \A i, j \in 1..(m - 1) : i < j => unwritten'[i].sequence < unwritten'[j].sequence
    <3> SUFFICES ASSUME NEW i \in 1..(m - 1), NEW j \in 1..(m - 1), i < j
                 PROVE  unwritten'[i].sequence < unwritten'[j].sequence
      OBVIOUS
    <3>1. i + 1 \in 1..m /\ j + 1 \in 1..m /\ i + 1 < j + 1
      BY <1>2, <1>4
    <3> QED
      BY <1>4, <1>12, <3>1
  <2>2. \A i \in 1..(m - 1) : unwritten'[i].sequence < stream.next
    BY <1>4, <1>12
  <2>3. \A i \in 1..(n + 1) : Heads(disk', i) =>
              /\ disk'[i].sequence < stream.next
              /\ unwritten' # <<>> => disk'[i].sequence < unwritten'[1].sequence
    <3> SUFFICES ASSUME NEW i \in 1..(n + 1), Heads(disk', i)
                 PROVE  /\ disk'[i].sequence < stream.next
                        /\ unwritten' # <<>> => disk'[i].sequence < unwritten'[1].sequence
      OBVIOUS
    <3>1. i \in 1..n
      BY <1>5, <1>6, <1>8 DEF Heads
    <3>2. Heads(disk, i)
      BY <1>2, <1>6, <3>1 DEF Heads
    <3>3. disk[i].sequence \in Nat /\ disk[i].sequence < stream.next
      BY <1>2, <1>12, <3>1, <3>2 DEF Heads
    <3>4. disk[i].sequence <= r.sequence
      BY <1>12, <1>13, <3>1, <3>2, <3>3
    <3>5. ASSUME unwritten' # <<>> PROVE disk[i].sequence < unwritten'[1].sequence
      <4>1. 1 \in 1..(m - 1) /\ 2 \in 1..m /\ unwritten'[1] = unwritten[2]
        BY <1>2, <1>4, <3>5
      <4>2. unwritten'[1].sequence \in Nat /\ r.sequence < unwritten'[1].sequence
        BY <1>2, <1>14, <4>1
      <4> QED
        BY <1>13, <3>3, <3>4, <4>2
    <3> QED
      BY <1>6, <3>1, <3>3, <3>5
  <2> QED
    BY <1>1, <1>4, <1>6, <2>1, <2>2, <2>3 DEF RowsAhead
<1>16. FrontierNeverAhead'
  <2>1. frontier + 1 <= stream.next
    BY <1>2, <1>13
  <2>2. \A i \in 1..(m - 1) : unwritten'[i].sequence >= frontier + 1
    <3> SUFFICES ASSUME NEW i \in 1..(m - 1) PROVE unwritten'[i].sequence >= frontier + 1
      OBVIOUS
    <3>1. unwritten'[i].sequence \in Nat
      BY <1>2, <1>4
    <3> QED
      BY <1>2, <1>13, <1>14, <3>1
  <2> QED
    BY <1>1, <1>4, <2>1, <2>2 DEF FrontierNeverAhead
<1>17. RecoveredInOrder'
  BY <1>1 DEF IInv, RecoveredInOrder
<1> QED
  BY <1>1, <1>6, <1>7, <1>9, <1>10, <1>11, <1>15, <1>16, <1>17
  DEF IInv, TornKnown, TailKept, ReadBack, Idle

LEMMA SyncBatchStep == IInv /\ SyncBatch => IInv'
<1> SUFFICES ASSUME IInv, SyncBatch PROVE IInv'
  OBVIOUS
<1> DEFINE n == Len(disk)
           new == SubSeq(disk, synced + 1, n)
<1>1. /\ mode = "running" /\ disk # <<>> /\ Last(disk) = Newline /\ synced < n
      /\ acked' = acked \cup (Ids(new) \ Ids(loaded)) /\ synced' = n
      /\ disk' = disk /\ quarantined' = quarantined /\ mode' = mode /\ loaded' = loaded
      /\ stream' = stream /\ unwritten' = unwritten /\ frontier' = frontier
      /\ made' = made /\ orphans' = orphans /\ crashes' = crashes
  BY DEF SyncBatch
<1>2. disk \in Seq(Token) /\ n \in Nat /\ synced \in 0..n
  BY <1>1, Running
<1>3. \A a \in Ids(new) : \E i \in 1..n : IsRecord(disk[i]) /\ disk[i].id = a
  <2>1. Len(new) = n - synced /\ \A j \in 1..Len(new) : new[j] = disk[synced + j]
    BY <1>1, <1>2
  <2>2. \A j \in 1..(n - synced) : synced + j \in 1..n
    BY <1>2
  <2> HIDE DEF new, n
  <2> QED
    BY <2>1, <2>2 DEF Ids
<1> HIDE DEF new
<1>4. AckedSynced'
  <2>1. \A i \in 1..synced : i \in 1..n
    BY <1>2
  <2>2. \A a \in acked : \E i \in 1..n : IsRecord(disk[i]) /\ disk[i].id = a
    BY <2>1 DEF IInv, AckedSynced
  <2> HIDE DEF n
  <2> QED
    BY <1>1, <1>3, <2>2 DEF AckedSynced
<1>5. acked' \in SUBSET (1..MaxRows)
  <2>1. \A i \in 1..n : IsRecord(disk[i]) => disk[i].id \in 1..MaxRows
    BY <1>2, LogAssumption, Tokens
  <2>2. Ids(new) \in SUBSET (1..MaxRows)
    BY <1>3, <2>1
  <2> QED
    BY <1>1, <2>2 DEF IInv, TypeOK
<1>6. TypeOK' /\ Ages'
  BY <1>1, <1>2, <1>5 DEF IInv, TypeOK, Ages
<1>7. SyncedLines'
  BY <1>1 DEF SyncedLines, Last
<1> QED
  BY <1>1, <1>4, <1>6, <1>7
  DEF IInv, Whole, TornKnown, TailKept, RecoveredInOrder, ReadBack, Idle, RowsAhead,
      FrontierNeverAhead

LEMMA SkipMissingStep == IInv /\ SkipMissing => IInv'
<1> SUFFICES ASSUME IInv, SkipMissing PROVE IInv'
  OBVIOUS
<1> DEFINE m == Len(unwritten)
<1>1. /\ mode = "running" /\ unwritten # <<>> /\ Head(unwritten).sequence > frontier
      /\ frontier' = frontier + 1
      /\ disk' = disk /\ synced' = synced /\ quarantined' = quarantined /\ mode' = mode
      /\ loaded' = loaded /\ stream' = stream /\ unwritten' = unwritten
      /\ made' = made /\ orphans' = orphans /\ crashes' = crashes /\ acked' = acked
  BY DEF SkipMissing
<1>2. /\ unwritten \in Seq(Record) /\ m \in Nat
      /\ \A i \in 1..m : unwritten[i].sequence \in Nat
      /\ stream.next \in Nat /\ frontier \in Nat
  BY <1>1, Running
<1>3. 1 \in 1..m /\ unwritten[1].sequence > frontier
  BY <1>1, <1>2
<1>4. /\ \A i, j \in 1..m : i < j => unwritten[i].sequence < unwritten[j].sequence
      /\ \A i \in 1..m : unwritten[i].sequence < stream.next
  BY <1>1 DEF IInv, RowsAhead
<1>5. \A i \in 1..m : unwritten[i].sequence >= frontier + 1
  <2> SUFFICES ASSUME NEW i \in 1..m PROVE unwritten[i].sequence >= frontier + 1
    OBVIOUS
  <2>1. i = 1 \/ unwritten[1].sequence < unwritten[i].sequence
    BY <1>2, <1>3, <1>4
  <2> QED
    BY <1>2, <1>3, <2>1
<1>6. frontier + 1 <= stream.next
  BY <1>2, <1>3, <1>4
<1>7. FrontierNeverAhead'
  BY <1>1, <1>5, <1>6 DEF FrontierNeverAhead
<1>8. TypeOK' /\ Ages'
  BY <1>1, <1>2 DEF IInv, TypeOK, Ages
<1>9. RowsAhead' /\ Whole' /\ RecoveredInOrder'
  BY <1>1 DEF IInv, RowsAhead, Whole, RecoveredInOrder
<1> QED
  BY <1>1, <1>7, <1>8, <1>9, FileUntouched DEF IInv, TornKnown, TailKept, ReadBack, Idle

(* A record is cut short behind what fsync covered. *)
LEMMA CutKeeps ==
    ASSUME IInv, NEW n \in 0..Len(disk), n > synced, IsRecord(disk[n]),
           disk' = Append(SubSeq(disk, 1, n - 1), Fragment), synced' = synced, acked' = acked
    PROVE  /\ disk' \in Seq(Token) /\ synced' \in 0..Len(disk')
           /\ Shape(disk') /\ SyncedLines' /\ AckedSynced'
           /\ Aged(disk', made)
<1> DEFINE e == SubSeq(disk, 1, n - 1)
<1>1. disk \in Seq(Token) /\ synced \in Nat /\ Shape(disk) /\ n - 1 \in 0..Len(disk) /\ n \in Nat
  BY DEF IInv, TypeOK, Token
<1>2. e \in Seq(Token) /\ Len(e) = n - 1 /\ \A i \in 1..(n - 1) : e[i] = disk[i]
  BY <1>1, PrefixOf
<1>3. Shape(e)
  BY <1>1, ShapePrefix
<1>4. Fragment \in Token /\ ~IsRecord(Fragment) /\ Fragment # Newline
  BY Tokens DEF Token
<1> HIDE DEF e
<1>5. \A i \in 1..(n - 1) : i \in 1..Len(disk) /\ i # Len(disk)
  BY <1>1
<1>6. \A i \in 1..Len(e) : e[i] # Fragment
  <2>1. \A i \in 1..Len(disk) : disk[i] = Fragment => i = Len(disk)
    BY <1>1 DEF Shape
  <2> QED
    BY <1>2, <1>5, <2>1
<1>7. disk' = Append(e, Fragment)
  BY DEF e
<1>8. Shape(disk')
  BY <1>2, <1>3, <1>4, <1>6, <1>7, ShapeAppend
<1>9. /\ disk' \in Seq(Token) /\ Len(disk') = n
      /\ \A i \in 1..(n - 1) : disk'[i] = disk[i]
      /\ disk'[n] = Fragment
  <2>1. /\ Append(e, Fragment) \in Seq(Token)
        /\ Len(Append(e, Fragment)) = Len(e) + 1
        /\ \A i \in 1..Len(e) : Append(e, Fragment)[i] = e[i]
        /\ Append(e, Fragment)[Len(e) + 1] = Fragment
    BY <1>2, <1>4, Appended
  <2>2. Len(e) = n - 1 /\ Len(e) + 1 = n
    BY <1>1, <1>2
  <2> QED
    BY <1>2, <1>7, <2>1, <2>2
<1>10. \A i \in 1..synced : i \in 1..(n - 1)
  BY <1>1
<1>11. \A i \in 1..n : i \in 1..(n - 1) \/ i = n
  BY <1>1
<1>12. SyncedLines'
  BY <1>1, <1>9, <1>10 DEF IInv, SyncedLines
<1>13. AckedSynced'
  BY <1>9, <1>10 DEF IInv, AckedSynced
<1>14. Aged(disk', made)
  BY <1>4, <1>5, <1>9, <1>11 DEF IInv, Ages, Aged
<1> QED
  BY <1>1, <1>8, <1>9, <1>12, <1>13, <1>14

LEMMA CrashStep ==
    ASSUME IInv, NEW n \in 0..Len(disk), NEW cut \in BOOLEAN, Crash(n, cut)
    PROVE  IInv'
<1>1. /\ n >= synced /\ crashes < MaxCrashes /\ crashes' = crashes + 1
      /\ mode' = "down" /\ loaded' = <<>> /\ unwritten' = <<>>
      /\ synced' = synced /\ quarantined' = quarantined /\ stream' = stream
      /\ frontier' = frontier /\ made' = made /\ orphans' = orphans /\ acked' = acked
  BY DEF Crash
<1>2. /\ disk' \in Seq(Token) /\ synced' \in 0..Len(disk')
      /\ Shape(disk') /\ SyncedLines' /\ AckedSynced'
      /\ Aged(disk', made)
  <2>1. CASE cut
    <3>1. /\ n > synced /\ IsRecord(disk[n])
          /\ disk' = Append(SubSeq(disk, 1, n - 1), Fragment)
      BY <2>1 DEF Crash
    <3> QED
      BY <1>1, <3>1, CutKeeps
  <2>2. CASE ~cut
    <3>1. disk' = SubSeq(disk, 1, n)
      BY <2>2 DEF Crash
    <3> QED
      BY <1>1, <3>1, PrefixKeeps
  <2> QED
    BY <2>1, <2>2
<1>3. TypeOK'
  <2>1. crashes' \in 0..MaxCrashes
    BY <1>1, LogAssumption DEF IInv, TypeOK
  <2> QED
    BY <1>1, <1>2, <2>1 DEF IInv, TypeOK, Token
<1>4. Ages'
  <2>1. Aged(loaded', made) /\ Aged(unwritten', made)
    BY <1>1 DEF Aged
  <2> QED
    BY <1>1, <1>2, <2>1 DEF IInv, Ages
<1> QED
  BY <1>1, <1>2, <1>3, <1>4
  DEF IInv, Whole, TornKnown, TailKept, RecoveredInOrder, ReadBack, Idle, RowsAhead,
      FrontierNeverAhead

LEMMA StutterStep == IInv /\ UNCHANGED vars => IInv'
<1> SUFFICES ASSUME IInv, UNCHANGED vars PROVE IInv'
  OBVIOUS
<1>1. /\ disk' = disk /\ synced' = synced /\ quarantined' = quarantined /\ mode' = mode
      /\ loaded' = loaded /\ stream' = stream /\ unwritten' = unwritten
      /\ frontier' = frontier /\ made' = made
      /\ orphans' = orphans /\ crashes' = crashes /\ acked' = acked
  BY DEF vars
<1>2. TypeOK' /\ Ages'
  BY <1>1 DEF IInv, TypeOK, Ages
<1> QED
  BY <1>1, <1>2, FileUntouched
  DEF IInv, Whole, TornKnown, TailKept, RecoveredInOrder, ReadBack, Idle, RowsAhead,
      FrontierNeverAhead

-----------------------------------------------------------------------------
(* The theorems. *)

(* Every reachable state of the log, its worker and its crashes satisfies the
   inductive invariant. *)
THEOREM Invariance == Spec => []IInv
<1>1. IInv /\ [Next]_vars => IInv'
  <2> SUFFICES ASSUME IInv, [Next]_vars PROVE IInv'
    OBVIOUS
  <2>1. CASE Load
    BY <2>1, LoadStep
  <2>2. CASE Quarantine
    BY <2>2, QuarantineStep
  <2>3. CASE Truncate
    BY <2>3, TruncateStep
  <2>4. CASE Resume
    BY <2>4, ResumeStep
  <2>5. CASE \E delivered \in BOOLEAN : RecordRow(delivered)
    BY <2>5, RecordRowStep
  <2>6. CASE WriteRecord
    BY <2>6, WriteRecordStep
  <2>7. CASE WriteNewline
    BY <2>7, WriteNewlineStep
  <2>8. CASE SyncBatch
    BY <2>8, SyncBatchStep
  <2>9. CASE SkipMissing
    BY <2>9, SkipMissingStep
  <2>10. CASE \E n \in 0..Len(disk), cut \in BOOLEAN : Crash(n, cut)
    BY <2>10, CrashStep
  <2>11. CASE UNCHANGED vars
    BY <2>11, StutterStep
  <2> QED
    BY <2>1, <2>2, <2>3, <2>4, <2>5, <2>6, <2>7, <2>8, <2>9, <2>10, <2>11 DEF Next
<1> QED
  BY <1>1, InitHolds, PTL DEF Spec

(* The log's state keeps its types; no row has a sequence above the number of
   rows made. *)
THEOREM TypeCorrect == Spec => []TypeOK
<1>1. IInv => TypeOK
  BY DEF IInv
<1> QED
  BY <1>1, Invariance, PTL

(* No sequence of crashes, torn lines and truncations takes a row out of the file
   that a barrier was answered for (append_batch's sync_all, load,
   quarantine_and_truncate). *)
THEOREM AckedNeverLost == Spec => []AckedBytesKept
<1>1. IInv => AckedBytesKept
  <2> SUFFICES ASSUME IInv, NEW a \in acked PROVE a \in Ids(disk)
    BY DEF AckedBytesKept
  <2>1. synced \in 0..Len(disk) /\ Len(disk) \in Nat
    BY DEF IInv, TypeOK
  <2>2. PICK i \in 1..synced : IsRecord(disk[i]) /\ disk[i].id = a
    BY DEF IInv, AckedSynced
  <2>3. i \in 1..Len(disk)
    BY <2>1, <2>2
  <2> QED
    BY <2>2, <2>3 DEF Ids
<1> QED
  BY <1>1, Invariance, PTL

(* load returns the rows in the order of their sequences, after any crashes,
   joined lines and skipped sequences. *)
THEOREM RowsComeBackInOrder == Spec => []RecoveredInOrder
<1>1. IInv => RecoveredInOrder
  BY DEF IInv
<1> QED
  BY <1>1, Invariance, PTL

(* AuditFile::open's frontier and note_gap never pass a row that is still to be
   written, nor the next sequence of the resumed stream. *)
THEOREM WorkerNeverAhead == Spec => []FrontierNeverAhead
<1>1. IInv => FrontierNeverAhead
  BY DEF IInv
<1> QED
  BY <1>1, Invariance, PTL

(* quarantine_and_truncate cuts off only what it has copied. *)
THEOREM TailAlwaysQuarantined == Spec => QuarantinedFirst
<1>1. ASSUME IInv, Next, mode = "quarantined", mode' = "loaded"
      PROVE  SubSeq(disk, Len(disk') + 1, Len(disk)) \in quarantined
  <2>1. Truncate
    BY <1>1 DEF Next, Load, Quarantine, Resume, RecordRow, WriteRecord, WriteNewline,
                SyncBatch, SkipMissing, Crash
  <2>2. disk \in Seq(Token) /\ Shape(disk)
    BY <1>1 DEF IInv, TypeOK, Token
  <2>3. PICK i \in 1..Len(disk) : TornAt(disk, i)
    BY <1>1 DEF IInv, TornKnown
  <2>4. CompleteBytes = i - 1 /\ i - 1 \in 0..Len(disk)
    BY <1>1, <2>2, <2>3, CompleteIs, TornUnsynced
  <2>5. disk' = SubSeq(disk, 1, i - 1)
    BY <2>1, <2>4 DEF Truncate
  <2>6. Len(disk') + 1 = i
    BY <2>2, <2>3, <2>4, <2>5, PrefixOf
  <2> QED
    BY <1>1, <2>3, <2>6 DEF IInv, TailKept
<1>2. IInv /\ [Next]_vars =>
        [mode = "quarantined" /\ mode' = "loaded" =>
           SubSeq(disk, Len(disk') + 1, Len(disk)) \in quarantined]_vars
  BY <1>1
<1> QED
  BY <1>2, Invariance, PTL DEF Spec, QuarantinedFirst
=============================================================================
