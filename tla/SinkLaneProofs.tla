--------------------------- MODULE SinkLaneProofs ---------------------------
(***************************************************************************)
(* Proofs about SinkLane: the bytes in flight of every output and of its    *)
(* tenant are exactly those in the lane and in its writer's hands, and no   *)
(* byte the lane took is lost without a recorded failure.  They hold for    *)
(* any number of outputs, any quotas and caps, any queue and batch size.    *)
(***************************************************************************)
EXTENDS SinkLane, FiniteSetTheorems, SequenceTheorems, TLAPS

-----------------------------------------------------------------------------
(* What a sum does when one of its terms changes, joins or leaves, and when its
   terms are renumbered.  Only the units have to be finitely many, so that sums
   over all outputs need no bound on their number. *)

(* A unit, by its two parts. *)
LEMMA UnitsAre ==
    ASSUME NEW a, NEW S, NEW x, NEW b
    PROVE  <<x, b>> \in Units(a, S) <=> x \in S /\ b \in 1..a[x]
  BY DEF Units

LEMMA UnitsArePairs ==
    ASSUME NEW a, NEW S, NEW u \in Units(a, S)
    PROVE  \E x \in S : \E b \in 1..a[x] : u = <<x, b>>
  BY DEF Units

(* The units of one term. *)
LEMMA TermUnits ==
    ASSUME NEW x, NEW n \in Nat
    PROVE  IsFiniteSet({x} \X (1..n)) /\ Cardinality({x} \X (1..n)) = n
<1> DEFINE f == [b \in 1..n |-> <<x, b>>]
<1>1. f \in Bijection(1..n, {x} \X (1..n))
  <2>1. f \in [1..n -> {x} \X (1..n)]
    OBVIOUS
  <2>2. \A b, c \in 1..n : f[b] = f[c] => b = c
    OBVIOUS
  <2>3. \A u \in {x} \X (1..n) : \E b \in 1..n : f[b] = u
    OBVIOUS
  <2> HIDE DEF f
  <2> QED
    BY <2>1, <2>2, <2>3 DEF Bijection, Injection, Surjection, IsInjective
<1>2. IsFiniteSet(1..n) /\ Cardinality(1..n) = n
  BY FS_Interval
<1> QED
  BY <1>1, <1>2, FS_Bijection DEF ExistsBijection

(* Sums of finitely many units are natural numbers. *)
LEMMA SumType ==
    ASSUME NEW a, NEW S, IsFiniteSet(Units(a, S))
    PROVE  SumOf(a, S) \in Nat
  BY FS_CardinalityType DEF SumOf

(* Nothing but zeros sums to zero. *)
LEMMA SumZero ==
    ASSUME NEW a, NEW S, \A x \in S : a[x] = 0
    PROVE  Units(a, S) = {} /\ IsFiniteSet(Units(a, S)) /\ SumOf(a, S) = 0
<1>1. Units(a, S) = {}
  BY DEF Units
<1> QED
  BY <1>1, FS_EmptySet DEF SumOf

(* A sum depends on its terms only. *)
LEMMA SumSame ==
    ASSUME NEW a, NEW b, NEW S, \A x \in S : a[x] = b[x]
    PROVE  Units(a, S) = Units(b, S) /\ SumOf(a, S) = SumOf(b, S)
<1>1. Units(a, S) = Units(b, S)
  BY DEF Units
<1> QED
  BY <1>1 DEF SumOf

(* A term joins. *)
LEMMA SumAdd ==
    ASSUME NEW a, NEW S, NEW x, x \notin S, a[x] \in Nat, IsFiniteSet(Units(a, S))
    PROVE  /\ IsFiniteSet(Units(a, S \cup {x}))
           /\ SumOf(a, S \cup {x}) = SumOf(a, S) + a[x]
<1> DEFINE U == Units(a, S)
           V == {x} \X (1..a[x])
<1>1. Units(a, S \cup {x}) = U \cup V
  BY DEF Units
<1>2. U \cap V = {}
  BY DEF Units
<1>3. IsFiniteSet(V) /\ Cardinality(V) = a[x]
  BY TermUnits
<1> HIDE DEF U, V
<1>4. /\ IsFiniteSet(U \cup V)
      /\ Cardinality(U \cup V) = Cardinality(U) + Cardinality(V) - Cardinality(U \cap V)
  BY <1>3, FS_Union DEF U
<1>5. Cardinality(U \cap V) = 0 /\ Cardinality(U) \in Nat
  BY <1>2, FS_EmptySet, FS_CardinalityType DEF U
<1>6. Cardinality(U \cup V) = Cardinality(U) + a[x]
  BY <1>3, <1>4, <1>5
<1> QED
  BY <1>1, <1>4, <1>6 DEF SumOf, U

(* A term leaves. *)
LEMMA SumRemove ==
    ASSUME NEW a, NEW S, NEW x \in S, a[x] \in Nat, IsFiniteSet(Units(a, S))
    PROVE  /\ IsFiniteSet(Units(a, S \ {x}))
           /\ SumOf(a, S) = SumOf(a, S \ {x}) + a[x]
           /\ SumOf(a, S \ {x}) \in Nat
<1>1. Units(a, S \ {x}) \in SUBSET Units(a, S)
  BY DEF Units
<1>2. IsFiniteSet(Units(a, S \ {x}))
  BY <1>1, FS_Subset
<1>3. (S \ {x}) \cup {x} = S /\ x \notin S \ {x}
  OBVIOUS
<1>4. SumOf(a, (S \ {x}) \cup {x}) = SumOf(a, S \ {x}) + a[x]
  BY <1>2, <1>3, SumAdd
<1> QED
  BY <1>2, <1>3, <1>4, SumType

(* One term changes. *)
LEMMA SumUpdate ==
    ASSUME NEW a, NEW b, NEW S, NEW x \in S, a[x] \in Nat, b[x] \in Nat,
           \A y \in S : y # x => b[y] = a[y],
           IsFiniteSet(Units(a, S))
    PROVE  /\ IsFiniteSet(Units(b, S))
           /\ SumOf(b, S) = SumOf(a, S) - a[x] + b[x]
           /\ a[x] <= SumOf(a, S)
           /\ SumOf(a, S) \in Nat /\ SumOf(b, S) \in Nat
<1>1. /\ IsFiniteSet(Units(a, S \ {x}))
      /\ SumOf(a, S) = SumOf(a, S \ {x}) + a[x]
      /\ SumOf(a, S \ {x}) \in Nat
  BY SumRemove
<1>2. Units(b, S \ {x}) = Units(a, S \ {x}) /\ SumOf(b, S \ {x}) = SumOf(a, S \ {x})
  BY SumSame
<1>3. (S \ {x}) \cup {x} = S /\ x \notin S \ {x}
  OBVIOUS
<1>4. /\ IsFiniteSet(Units(b, (S \ {x}) \cup {x}))
      /\ SumOf(b, (S \ {x}) \cup {x}) = SumOf(b, S \ {x}) + b[x]
  BY <1>1, <1>2, <1>3, SumAdd
<1>5. IsFiniteSet(Units(b, S)) /\ SumOf(b, S) = SumOf(a, S \ {x}) + b[x]
  BY <1>2, <1>3, <1>4
<1> DEFINE k == SumOf(a, S \ {x})
           A == SumOf(a, S)
           B == SumOf(b, S)
<1>6. k \in Nat /\ A = k + a[x] /\ B = k + b[x]
  BY <1>1, <1>5
<1> HIDE DEF k, A, B
<1>7. B = A - a[x] + b[x] /\ a[x] <= A /\ A \in Nat /\ B \in Nat
  BY <1>6
<1> QED
  BY <1>5, <1>7 DEF A, B

(* The terms are renumbered. *)
LEMMA SumShift ==
    ASSUME NEW a, NEW b, NEW S \in SUBSET Int, NEW T,
           T = {i + 1 : i \in S}, \A i \in S : b[i + 1] = a[i],
           IsFiniteSet(Units(a, S))
    PROVE  IsFiniteSet(Units(b, T)) /\ SumOf(b, T) = SumOf(a, S)
<1> DEFINE U == Units(a, S)
           V == Units(b, T)
           f == [u \in U |-> <<u[1] + 1, u[2]>>]
<1>1. \A u \in U : /\ u = <<u[1], u[2]>> /\ u[1] \in S /\ u[1] \in Int
                   /\ u[2] \in 1..a[u[1]]
  <2> SUFFICES ASSUME NEW u \in U
               PROVE  /\ u = <<u[1], u[2]>> /\ u[1] \in S /\ u[1] \in Int
                      /\ u[2] \in 1..a[u[1]]
    OBVIOUS
  <2>1. PICK x \in S : \E n \in 1..a[x] : u = <<x, n>>
    BY UnitsArePairs
  <2>2. PICK n \in 1..a[x] : u = <<x, n>>
    BY <2>1
  <2>3. u[1] = x /\ u[2] = n
    BY <2>2
  <2> HIDE DEF U
  <2> QED
    BY <2>2, <2>3
<1>2. \A u \in U : f[u] \in V
  <2> SUFFICES ASSUME NEW u \in U PROVE <<u[1] + 1, u[2]>> \in V
    OBVIOUS
  <2>1. u[1] + 1 \in T /\ b[u[1] + 1] = a[u[1]]
    BY <1>1
  <2> QED
    BY <1>1, <2>1, UnitsAre
<1>3. \A u, v \in U : f[u] = f[v] => u = v
  <2> SUFFICES ASSUME NEW u \in U, NEW v \in U,
                      <<u[1] + 1, u[2]>> = <<v[1] + 1, v[2]>>
               PROVE  u = v
    OBVIOUS
  <2>1. u[1] + 1 = v[1] + 1 /\ u[2] = v[2]
    OBVIOUS
  <2>2. u[1] = v[1]
    BY <1>1, <2>1
  <2> QED
    BY <1>1, <2>1, <2>2
<1>4. \A v \in V : \E u \in U : f[u] = v
  <2> SUFFICES ASSUME NEW v \in V PROVE \E u \in U : f[u] = v
    OBVIOUS
  <2>0. PICK y \in T : \E n \in 1..b[y] : v = <<y, n>>
    BY UnitsArePairs
  <2>1. PICK n \in 1..b[y] : v = <<y, n>>
    BY <2>0
  <2>2. PICK i \in S : y = i + 1
    BY <2>1
  <2>3. <<i, n>> \in U
    BY <2>1, <2>2, UnitsAre
  <2>4. f[<<i, n>>] = v
    BY <2>1, <2>2, <2>3
  <2> QED
    BY <2>3, <2>4
<1>5. f \in Bijection(U, V)
  <2>1. f \in [U -> V]
    BY <1>2
  <2> HIDE DEF f, U, V
  <2> QED
    BY <1>3, <1>4, <2>1 DEF Bijection, Injection, Surjection, IsInjective
<1> QED
  <2> HIDE DEF f
  <2> QED
    BY <1>5, FS_Bijection DEF ExistsBijection, SumOf

-----------------------------------------------------------------------------
(* The invariant. *)

(* Between the admission and the guard the writer holds no bytes yet: a write
   is only admitted when the previous one has gone to the lane. *)
NothingHeld == \A o \in Outputs : pc[o] \in {"admit", "hold"} => held[o] = 0

(* The two halves of InFlightExact. *)
Promised(o) == IF pc[o] = "hold" THEN buf[o] ELSE 0
OwnExact ==
    \A o \in Outputs :
        inFlight[o] = held[o] + BytesIn(o, queue) + BytesIn(o, batch) + Promised(o)
TenantExact == tenantInFlight = SumOver(held) + Total(queue) + Total(batch)

(* The inductive invariant. *)
IInv ==
    /\ TypeOK
    /\ IsFiniteSet(Units(held, Outputs))
    /\ NothingHeld
    /\ OwnExact
    /\ TenantExact
    /\ LossRecorded

LEMMA Limits ==
    /\ OutputLimit \in Nat /\ TenantLimit \in Nat /\ InFlightCap \in Nat
    /\ MaxCalls \in Nat /\ MaxRequests \in Nat
    /\ MaxSize \in Nat /\ LaneQueue \in Nat /\ LaneBatch \in Nat
  BY LaneAssumption

-----------------------------------------------------------------------------
(* The bytes of messages in a sequence. *)

LEMMA BytesFinite ==
    ASSUME NEW s \in Seq(LaneMsg), NEW I \in SUBSET (1..Len(s))
    PROVE  IsFiniteSet(Units(Bytes(s), I)) /\ SumOf(Bytes(s), I) \in Nat
<1>1. \A i \in I : Bytes(s)[i] \in 0..MaxSize
  <2>1. \A i \in I : i \in DOMAIN s /\ s[i] \in LaneMsg
    OBVIOUS
  <2> QED
    BY <2>1 DEF Bytes, LaneMsg
<1>2. Units(Bytes(s), I) \in SUBSET ((1..Len(s)) \X (1..MaxSize))
  <2> SUFFICES ASSUME NEW u \in Units(Bytes(s), I)
               PROVE  u \in (1..Len(s)) \X (1..MaxSize)
    OBVIOUS
  <2> DEFINE a == Bytes(s)
  <2>0. \E i \in I : \E b \in 1..a[i] : u = <<i, b>>
    BY DEF Units
  <2>1. PICK i \in I : \E b \in 1..a[i] : u = <<i, b>>
    BY <2>0
  <2>2. PICK b \in 1..a[i] : u = <<i, b>>
    BY <2>1
  <2>3. b \in 1..MaxSize
    BY <1>1, Limits
  <2> QED
    BY <2>2, <2>3
<1>3. IsFiniteSet((1..Len(s)) \X (1..MaxSize))
  <2>1. IsFiniteSet(1..Len(s)) /\ IsFiniteSet(1..MaxSize)
    BY Limits, FS_Interval
  <2> QED
    BY <2>1, FS_Product
<1> QED
  BY <1>2, <1>3, FS_Subset, SumType

LEMMA BytesType ==
    ASSUME NEW s \in Seq(LaneMsg), NEW o
    PROVE  BytesIn(o, s) \in Nat /\ Total(s) \in Nat
  BY BytesFinite DEF BytesIn, Total

LEMMA BytesEmpty ==
    ASSUME NEW o PROVE BytesIn(o, <<>>) = 0 /\ Total(<<>>) = 0
  BY SumZero DEF BytesIn, Total

LEMMA BytesNone ==
    ASSUME NEW o, NEW s, \A i \in DOMAIN s : s[i].by # o
    PROVE  BytesIn(o, s) = 0
<1>1. {i \in DOMAIN s : s[i].by = o} = {}
  OBVIOUS
<1> QED
  BY <1>1, SumZero DEF BytesIn

(* A message joins the queue or the batch. *)
LEMMA BytesAppend ==
    ASSUME NEW s \in Seq(LaneMsg), NEW m \in LaneMsg
    PROVE  /\ \A o : BytesIn(o, Append(s, m))
                       = BytesIn(o, s) + (IF m.by = o THEN m.bytes ELSE 0)
           /\ Total(Append(s, m)) = Total(s) + m.bytes
<1> DEFINE t == Append(s, m)
           n == Len(s)
           A == Bytes(t)
<1>1. /\ n \in Nat /\ t \in Seq(LaneMsg) /\ Len(t) = n + 1
      /\ DOMAIN s = 1..n /\ DOMAIN t = 1..(n + 1)
      /\ t[n + 1] = m /\ \A i \in 1..n : t[i] = s[i]
  OBVIOUS
<1>2. A[n + 1] = m.bytes /\ m.bytes \in Nat /\ \A i \in 1..n : A[i] = Bytes(s)[i]
  BY <1>1 DEF Bytes, LaneMsg
<1>3. n + 1 \notin 1..n /\ DOMAIN t = DOMAIN s \cup {n + 1}
  BY <1>1
<1> HIDE DEF t, n, A
<1>4. ASSUME NEW I \in SUBSET (1..n)
      PROVE  /\ SumOf(A, I) = SumOf(Bytes(s), I)
             /\ SumOf(A, I \cup {n + 1}) = SumOf(Bytes(s), I) + m.bytes
  <2>1. Units(A, I) = Units(Bytes(s), I) /\ SumOf(A, I) = SumOf(Bytes(s), I)
    BY <1>2, SumSame
  <2>2. IsFiniteSet(Units(Bytes(s), I))
    BY <1>1, BytesFinite DEF n
  <2>3. n + 1 \notin I
    BY <1>3
  <2>4. SumOf(A, I \cup {n + 1}) = SumOf(A, I) + A[n + 1]
    <3>1. A[n + 1] \in Nat /\ IsFiniteSet(Units(A, I))
      BY <1>2, <2>1, <2>2
    <3> QED
      BY <2>3, <3>1, SumAdd, Zenon
  <2> QED
    BY <1>2, <2>1, <2>4
<1>5. Total(t) = Total(s) + m.bytes
  BY <1>1, <1>3, <1>4 DEF Total, A
<1>6. ASSUME NEW o PROVE BytesIn(o, t) = BytesIn(o, s) + (IF m.by = o THEN m.bytes ELSE 0)
  <2> DEFINE I == {i \in DOMAIN s : s[i].by = o}
             J == {i \in DOMAIN t : t[i].by = o}
  <2>1. I \in SUBSET (1..n)
    BY <1>1
  <2>2. J = IF m.by = o THEN I \cup {n + 1} ELSE I
    BY <1>1, <1>3
  <2>3. SumOf(Bytes(s), I) \in Nat
    BY <1>1, <2>1, BytesFinite DEF n
  <2> HIDE DEF I, J
  <2>4. SumOf(A, J) = SumOf(Bytes(s), I) + (IF m.by = o THEN m.bytes ELSE 0)
    <3>1. CASE m.by = o
      BY <1>4, <2>1, <2>2, <3>1
    <3>2. CASE m.by # o
      <4>1. SumOf(A, J) = SumOf(Bytes(s), I)
        BY <1>4, <2>1, <2>2, <3>2
      <4> QED
        BY <2>3, <3>2, <4>1
    <3> QED
      BY <3>1, <3>2
  <2> QED
    BY <2>4 DEF BytesIn, I, J, A
<1> QED
  BY <1>5, <1>6 DEF t

(* The thread takes the head of the queue. *)
LEMMA BytesTail ==
    ASSUME NEW s \in Seq(LaneMsg), s # <<>>
    PROVE  /\ \A o : BytesIn(o, s)
                       = BytesIn(o, Tail(s)) + (IF Head(s).by = o THEN Head(s).bytes ELSE 0)
           /\ Total(s) = Total(Tail(s)) + Head(s).bytes
<1> DEFINE t == Tail(s)
           m == Head(s)
           n == Len(t)
           A == Bytes(s)
<1>1. /\ n \in Nat /\ t \in Seq(LaneMsg) /\ Len(s) = n + 1 /\ m \in LaneMsg
      /\ DOMAIN t = 1..n /\ DOMAIN s = 1..(n + 1)
      /\ s[1] = m /\ \A i \in 1..n : s[i + 1] = t[i]
  OBVIOUS
<1>2. A[1] = m.bytes /\ m.bytes \in Nat /\ \A i \in 1..n : A[i + 1] = Bytes(t)[i]
  BY <1>1 DEF Bytes, LaneMsg
<1> HIDE DEF t, m, n, A
<1>3. ASSUME NEW I \in SUBSET (1..n)
      PROVE  /\ SumOf(A, {i + 1 : i \in I}) = SumOf(Bytes(t), I)
             /\ SumOf(A, {i + 1 : i \in I} \cup {1}) = SumOf(Bytes(t), I) + m.bytes
  <2>1. IsFiniteSet(Units(Bytes(t), I))
    BY <1>1, BytesFinite DEF n
  <2> DEFINE K == {i + 1 : i \in I}
  <2>2. 1 \notin K /\ I \in SUBSET Int /\ \A i \in I : A[i + 1] = Bytes(t)[i]
    BY <1>2
  <2>3. IsFiniteSet(Units(A, K)) /\ SumOf(A, K) = SumOf(Bytes(t), I)
    BY <2>1, <2>2, SumShift
  <2>4. SumOf(A, K \cup {1}) = SumOf(A, K) + A[1]
    <3> HIDE DEF K
    <3>1. A[1] \in Nat
      BY <1>2
    <3> QED
      BY <2>2, <2>3, <3>1, SumAdd, Zenon
  <2> QED
    BY <1>2, <2>3, <2>4
<1>4. Total(s) = Total(t) + m.bytes
  <2>1. DOMAIN s = {i + 1 : i \in 1..n} \cup {1}
    <3>1. ASSUME NEW j \in 1..(n + 1), j # 1 PROVE j \in {i + 1 : i \in 1..n}
      <4>1. j - 1 \in 1..n /\ j = (j - 1) + 1
        BY <1>1, <3>1
      <4> QED
        BY <4>1
    <3>2. \A i \in 1..n : i + 1 \in 1..(n + 1)
      BY <1>1
    <3>3. 1 \in 1..(n + 1)
      BY <1>1
    <3> QED
      BY <1>1, <3>1, <3>2, <3>3
  <2> QED
    BY <1>1, <1>3, <2>1 DEF Total, A
<1>5. ASSUME NEW o PROVE BytesIn(o, s) = BytesIn(o, t) + (IF m.by = o THEN m.bytes ELSE 0)
  <2> DEFINE I == {i \in DOMAIN t : t[i].by = o}
             J == {i \in DOMAIN s : s[i].by = o}
             K == {i + 1 : i \in I}
  <2>1. I \in SUBSET (1..n)
    BY <1>1
  <2>2. J = IF m.by = o THEN K \cup {1} ELSE K
    <3>1. ASSUME NEW j \in 1..(n + 1) PROVE j \in J <=> j \in K \/ (j = 1 /\ m.by = o)
      <4>1. CASE j = 1
        BY <1>1, <4>1
      <4>2. CASE j # 1
        <5>1. j - 1 \in 1..n /\ j = (j - 1) + 1 /\ s[j] = t[j - 1]
          BY <1>1, <4>2
        <5>2. j \in J <=> j - 1 \in I
          BY <1>1, <5>1
        <5>3. j \in K <=> j - 1 \in I
          BY <2>1, <5>1
        <5> QED
          BY <4>2, <5>2, <5>3
      <4> QED
        BY <4>1, <4>2
    <3>2. J \in SUBSET (1..(n + 1)) /\ K \in SUBSET (1..(n + 1)) /\ 1 \in 1..(n + 1)
      BY <1>1, <2>1
    <3> HIDE DEF J, K
    <3> QED
      BY <3>1, <3>2
  <2>3. SumOf(Bytes(t), I) \in Nat
    BY <1>1, <2>1, BytesFinite DEF n
  <2>4. SumOf(A, J) = SumOf(Bytes(t), I) + (IF m.by = o THEN m.bytes ELSE 0)
    <3> HIDE DEF I, J
    <3>1. CASE m.by = o
      BY <1>3, <2>1, <2>2, <3>1
    <3>2. CASE m.by # o
      <4>1. SumOf(A, J) = SumOf(Bytes(t), I)
        BY <1>3, <2>1, <2>2, <3>2
      <4> QED
        BY <2>3, <3>2, <4>1
    <3> QED
      BY <3>1, <3>2
  <2> QED
    BY <2>4 DEF BytesIn, A
<1> QED
  BY <1>4, <1>5 DEF t, m

-----------------------------------------------------------------------------
(* The writer's side. *)

(* The bytes a writer holds change. *)
LEMMA HeldSum ==
    ASSUME NEW f, NEW g, NEW o \in Outputs, f[o] \in Nat, g[o] \in Nat,
           \A p \in Outputs : p # o => g[p] = f[p],
           IsFiniteSet(Units(f, Outputs))
    PROVE  /\ IsFiniteSet(Units(g, Outputs))
           /\ SumOver(g) = SumOver(f) - f[o] + g[o]
           /\ f[o] <= SumOver(f)
           /\ SumOver(f) \in Nat
  BY SumUpdate DEF SumOver

LEMMA HeldChanges ==
    ASSUME IInv, NEW o \in Outputs, NEW v \in 0..MaxSize, held' = [held EXCEPT ![o] = v]
    PROVE  /\ held' \in [Outputs -> 0..MaxSize]
           /\ IsFiniteSet(Units(held', Outputs))
           /\ SumOver(held') = SumOver(held) - held[o] + v
           /\ held[o] <= SumOver(held)
           /\ SumOver(held) \in Nat
<1>1. held \in [Outputs -> 0..MaxSize] /\ IsFiniteSet(Units(held, Outputs))
  BY DEF IInv, TypeOK
<1>2. /\ held' \in [Outputs -> 0..MaxSize]
      /\ held[o] \in Nat /\ held'[o] = v /\ v \in Nat /\ held'[o] \in Nat
      /\ \A p \in Outputs : p # o => held'[p] = held[p]
  BY <1>1, Limits
<1>3. /\ IsFiniteSet(Units(held', Outputs))
      /\ SumOver(held') = SumOver(held) - held[o] + held'[o]
      /\ held[o] <= SumOver(held)
      /\ SumOver(held) \in Nat
  BY <1>1, <1>2, HeldSum
<1> QED
  BY <1>2, <1>3

LEMMA SumOverType == IInv => SumOver(held) \in Nat
  BY SumType DEF IInv, SumOver

(* The numbers of the invariant are natural numbers. *)
LEMMA Naturals ==
    ASSUME IInv
    PROVE  /\ \A o \in Outputs : /\ inFlight[o] \in Nat /\ held[o] \in Nat /\ buf[o] \in Nat
                                 /\ BytesIn(o, queue) \in Nat /\ BytesIn(o, batch) \in Nat
                                 /\ accepted[o] \in Nat /\ sunk[o] \in Nat
                                 /\ Promised(o) \in Nat
           /\ Total(queue) \in Nat /\ Total(batch) \in Nat /\ SumOver(held) \in Nat
           /\ tenantInFlight \in Nat
<1>1. queue \in Seq(LaneMsg) /\ batch \in Seq(LaneMsg)
  BY DEF IInv, TypeOK
<1>2. /\ \A o \in Outputs : BytesIn(o, queue) \in Nat /\ BytesIn(o, batch) \in Nat
      /\ Total(queue) \in Nat /\ Total(batch) \in Nat
  BY <1>1, BytesType
<1>3. \A o \in Outputs : /\ inFlight[o] \in Nat /\ held[o] \in Nat /\ buf[o] \in Nat
                         /\ accepted[o] \in Nat /\ sunk[o] \in Nat
  BY Limits DEF IInv, TypeOK
<1>4. \A o \in Outputs : Promised(o) \in Nat
  BY <1>3 DEF Promised
<1> QED
  BY <1>2, <1>3, <1>4, SumOverType DEF IInv, TypeOK

(* Steps that move no bytes in or out of flight. *)
LEMMA QuietStep ==
    ASSUME IInv, TypeOK',
           UNCHANGED <<held, inFlight, tenantInFlight, queue, batch>>,
           \A o \in Outputs : /\ pc'[o] = "hold" <=> pc[o] = "hold"
                              /\ pc[o] = "hold" => buf'[o] = buf[o]
                              /\ pc'[o] = "admit" => held[o] = 0,
           LossRecorded'
    PROVE  IInv'
<1>1. \A o \in Outputs : Promised(o)' = Promised(o)
  BY DEF Promised
<1>2. OwnExact' /\ TenantExact'
  BY <1>1 DEF IInv, OwnExact, TenantExact
<1>3. NothingHeld'
  BY DEF IInv, NothingHeld
<1> QED
  BY <1>2, <1>3 DEF IInv

LEMMA LossKept ==
    ASSUME LossRecorded, UNCHANGED <<queue, batch, failed, accepted, sunk>>
    PROVE  LossRecorded'
  BY DEF LossRecorded

LEMMA BeginIInv ==
    ASSUME IInv, NEW o \in Outputs, NEW n \in 0..MaxSize, Begin(o, n) PROVE IInv'
<1>1. TypeOK'
  <2>0. TypeOK
    BY DEF IInv
  <2>1. pc' \in [Outputs -> Between \cup Polling \cup {"dropped"}]
    BY <2>0 DEF TypeOK, Begin, GoTo, Between, Polling
  <2>2. buf' \in [Outputs -> 0..MaxSize] /\ calls' \in [Outputs -> 0..MaxCalls]
    BY <2>0, Limits DEF TypeOK, Begin
  <2> QED
    BY <2>0, <2>1, <2>2 DEF TypeOK, Begin, budgets, laneVars
<1>2. LossRecorded'
  BY LossKept DEF IInv, Begin, laneVars
<1>3. \A p \in Outputs : /\ pc'[p] = "hold" <=> pc[p] = "hold"
                         /\ pc[p] = "hold" => buf'[p] = buf[p]
                         /\ pc'[p] = "admit" => held[p] = 0
  BY DEF IInv, TypeOK, NothingHeld, Begin, GoTo
<1> QED
  BY <1>1, <1>2, <1>3, QuietStep DEF Begin, budgets, laneVars

LEMMA PollIInv == ASSUME IInv, NEW o \in Outputs, Poll(o) PROVE IInv'
<1>0. TypeOK /\ NothingHeld /\ LossRecorded
  BY DEF IInv
<1>1. /\ pc[o] \in {"poll", "woken"}
      /\ UNCHANGED <<buf, held, inFlight, tenantInFlight>>
      /\ UNCHANGED <<queue, parked, lane, batch, failed, sunk>>
      /\ UNCHANGED <<accepted, calls, requests>>
  BY DEF Poll, budgets, laneVars, history
<1>2. PICK q \in {"idle", "send", "admit"} : pc' = [pc EXCEPT ![o] = q] /\ (q = "admit" => held[o] = 0)
  BY DEF Poll, GoTo
<1>3. used' \in [Outputs -> 0..OutputLimit] /\ tenantUsed' \in 0..TenantLimit
  <2>1. /\ used \in [Outputs -> 0..OutputLimit] /\ tenantUsed \in 0..TenantLimit
        /\ buf[o] \in Nat
    BY <1>0, Limits DEF TypeOK
  <2>2. CASE UNCHANGED budgets
    BY <2>1, <2>2 DEF budgets
  <2>3. CASE /\ used[o] + buf[o] <= OutputLimit /\ tenantUsed + buf[o] <= TenantLimit
             /\ used' = [used EXCEPT ![o] = @ + buf[o]] /\ tenantUsed' = tenantUsed + buf[o]
    BY <2>1, <2>3, Limits
  <2> QED
    BY <2>2, <2>3 DEF Poll, CanReserve
<1>4. pc' \in [Outputs -> Between \cup Polling \cup {"dropped"}]
  BY <1>0, <1>2 DEF TypeOK, Between, Polling
<1>5. TypeOK'
  BY <1>0, <1>1, <1>3, <1>4 DEF TypeOK
<1>6. \A p \in Outputs : /\ pc'[p] = "hold" <=> pc[p] = "hold"
                         /\ pc[p] = "hold" => buf'[p] = buf[p]
                         /\ pc'[p] = "admit" => held[p] = 0
  BY <1>0, <1>1, <1>2 DEF TypeOK, NothingHeld
<1>7. LossRecorded'
  BY <1>0, <1>1, LossKept
<1> QED
  BY <1>1, <1>5, <1>6, <1>7, QuietStep

LEMMA AdmitIInv == ASSUME IInv, NEW o \in Outputs, Admit(o) PROVE IInv'
<1>0. TypeOK /\ NothingHeld /\ LossRecorded /\ OwnExact /\ TenantExact
  BY DEF IInv
<1>1. /\ pc[o] = "admit" /\ held[o] = 0
      /\ UNCHANGED <<buf, held, tenantUsed, tenantInFlight>>
      /\ UNCHANGED <<queue, parked, lane, batch, failed, sunk>>
      /\ UNCHANGED <<accepted, calls, requests>>
  BY <1>0 DEF Admit, laneVars, history, NothingHeld
<1>2. LossRecorded'
  BY <1>0, <1>1, LossKept
<1>3. CASE /\ inFlight' = [inFlight EXCEPT ![o] = @ + buf[o]]
           /\ pc' = [pc EXCEPT ![o] = "hold"] /\ used' = used
  <2>1. buf[o] \in Nat /\ inFlight \in [Outputs -> Nat]
    BY <1>0, Limits DEF TypeOK
  <2>2. inFlight' \in [Outputs -> Nat]
    BY <1>3, <2>1
  <2>3. pc' \in [Outputs -> Between \cup Polling \cup {"dropped"}]
    BY <1>0, <1>3 DEF TypeOK, Between, Polling
  <2>4. TypeOK'
    BY <1>0, <1>1, <1>3, <2>2, <2>3 DEF TypeOK
  <2>5. NothingHeld'
    BY <1>0, <1>1, <1>3 DEF NothingHeld, TypeOK
  <2>6. ASSUME NEW p \in Outputs
        PROVE  inFlight'[p] = held[p] + BytesIn(p, queue) + BytesIn(p, batch) + Promised(p)'
    <3>1. CASE p # o
      <4>1. Promised(p)' = Promised(p) /\ inFlight'[p] = inFlight[p]
        BY <1>0, <1>1, <1>3, <2>1, <3>1 DEF Promised, TypeOK
      <4> QED
        BY <1>0, <4>1 DEF OwnExact
    <3>2. CASE p = o
      <4>1. Promised(o)' = buf[o] /\ Promised(o) = 0 /\ inFlight'[o] = inFlight[o] + buf[o]
        BY <1>0, <1>1, <1>3, <2>1 DEF Promised, TypeOK
      <4>2. inFlight[o] = held[o] + BytesIn(o, queue) + BytesIn(o, batch) + Promised(o)
        BY <1>0 DEF OwnExact
      <4> QED
        BY <3>2, <4>1, <4>2, Naturals
    <3> QED
      BY <3>1, <3>2
  <2>7. OwnExact' /\ TenantExact'
    BY <1>0, <1>1, <2>6 DEF OwnExact, TenantExact
  <2> QED
    BY <1>1, <1>2, <2>4, <2>5, <2>7 DEF IInv
<1>4. CASE /\ used' = [used EXCEPT ![o] = SubSaturating(@, buf[o])]
           /\ pc' = [pc EXCEPT ![o] = "park"] /\ inFlight' = inFlight
  <2>1. buf[o] \in Nat /\ used \in [Outputs -> 0..OutputLimit]
    BY <1>0, Limits DEF TypeOK
  <2>2. SubSaturating(used[o], buf[o]) \in 0..OutputLimit
    BY <2>1, Limits DEF SubSaturating
  <2>3. used' \in [Outputs -> 0..OutputLimit]
    BY <1>4, <2>1, <2>2
  <2>4. pc' \in [Outputs -> Between \cup Polling \cup {"dropped"}]
    BY <1>0, <1>4 DEF TypeOK, Between, Polling
  <2>5. TypeOK'
    BY <1>0, <1>1, <1>4, <2>3, <2>4 DEF TypeOK
  <2>6. \A p \in Outputs : /\ pc'[p] = "hold" <=> pc[p] = "hold"
                           /\ pc[p] = "hold" => buf'[p] = buf[p]
                           /\ pc'[p] = "admit" => held[p] = 0
    BY <1>0, <1>1, <1>4 DEF TypeOK, NothingHeld
  <2> QED
    BY <1>1, <1>2, <1>4, <2>5, <2>6, QuietStep
<1> QED
  BY <1>3, <1>4 DEF Admit, GoTo

LEMMA HoldIInv == ASSUME IInv, NEW o \in Outputs, Hold(o) PROVE IInv'
<1>0. TypeOK /\ NothingHeld /\ LossRecorded /\ OwnExact /\ TenantExact
  BY DEF IInv
<1>1. /\ pc[o] = "hold" /\ held[o] = 0
      /\ tenantInFlight' = tenantInFlight + buf[o]
      /\ held' = [held EXCEPT ![o] = buf[o]]
      /\ pc' = [pc EXCEPT ![o] = "send"]
      /\ UNCHANGED <<buf, used, inFlight, tenantUsed>>
      /\ UNCHANGED <<queue, parked, lane, batch, failed, sunk>>
      /\ UNCHANGED <<accepted, calls, requests>>
  BY <1>0 DEF Hold, GoTo, laneVars, history, NothingHeld
<1>2. buf[o] \in 0..MaxSize
  BY <1>0 DEF TypeOK
<1>3. /\ held' \in [Outputs -> 0..MaxSize] /\ IsFiniteSet(Units(held', Outputs))
      /\ SumOver(held') = SumOver(held) - held[o] + buf[o]
  BY <1>1, <1>2, HeldChanges
<1>4. TypeOK'
  <2>1. pc' \in [Outputs -> Between \cup Polling \cup {"dropped"}]
    BY <1>0, <1>1 DEF TypeOK, Between, Polling
  <2>2. tenantInFlight' \in Nat
    BY <1>0, <1>1, <1>2, Limits DEF TypeOK
  <2> QED
    BY <1>0, <1>1, <1>3, <2>1, <2>2 DEF TypeOK
<1>5. NothingHeld'
  BY <1>0, <1>1 DEF NothingHeld, TypeOK
<1>6. ASSUME NEW p \in Outputs
      PROVE  inFlight[p] = held'[p] + BytesIn(p, queue) + BytesIn(p, batch) + Promised(p)'
  <2>1. CASE p # o
    <3>1. Promised(p)' = Promised(p) /\ held'[p] = held[p]
      BY <1>0, <1>1, <2>1 DEF Promised, TypeOK
    <3> QED
      BY <1>0, <3>1 DEF OwnExact
  <2>2. CASE p = o
    <3>1. Promised(o)' = 0 /\ Promised(o) = buf[o] /\ held'[o] = buf[o]
      BY <1>0, <1>1 DEF Promised, TypeOK
    <3>2. inFlight[o] = held[o] + BytesIn(o, queue) + BytesIn(o, batch) + Promised(o)
      BY <1>0 DEF OwnExact
    <3> QED
      BY <1>1, <2>2, <3>1, <3>2, Naturals
  <2> QED
    BY <2>1, <2>2
<1>7. TenantExact'
  <2>1. tenantInFlight = SumOver(held) + Total(queue) + Total(batch)
    BY <1>0 DEF TenantExact
  <2>2. tenantInFlight' = SumOver(held') + Total(queue) + Total(batch)
    BY <1>1, <1>3, <2>1, Naturals
  <2> QED
    BY <1>1, <2>2 DEF TenantExact
<1>8. OwnExact'
  BY <1>1, <1>6 DEF OwnExact
<1> QED
  BY <1>0, <1>1, <1>3, <1>4, <1>5, <1>7, <1>8, LossKept DEF IInv

(* lane.send of a write: its bytes move from the writer to the queue.  Of a
   flush marker: it carries none. *)
LEMMA SendIInv == ASSUME IInv, NEW o \in Outputs, Send(o) PROVE IInv'
<1>0. TypeOK /\ NothingHeld /\ LossRecorded /\ OwnExact /\ TenantExact
  BY DEF IInv
<1>1. /\ pc[o] = "send"
      /\ UNCHANGED <<buf, used, inFlight, tenantUsed, tenantInFlight>>
      /\ UNCHANGED <<parked, lane, batch, failed, sunk, calls, requests>>
  BY DEF Send, budgets
<1>2. CASE Len(queue) >= LaneQueue
  <2>1. pc' = [pc EXCEPT ![o] = "park"] /\ UNCHANGED <<queue, accepted, held>>
    BY <1>0, <1>2, Limits DEF Send, GoTo, TypeOK
  <2>2. pc' \in [Outputs -> Between \cup Polling \cup {"dropped"}]
    BY <1>0, <2>1 DEF TypeOK, Between, Polling
  <2>3. TypeOK'
    BY <1>0, <1>1, <2>1, <2>2 DEF TypeOK
  <2>4. \A p \in Outputs : /\ pc'[p] = "hold" <=> pc[p] = "hold"
                           /\ pc[p] = "hold" => buf'[p] = buf[p]
                           /\ pc'[p] = "admit" => held[p] = 0
    BY <1>0, <1>1, <2>1 DEF TypeOK, NothingHeld
  <2>5. LossRecorded'
    BY <1>0, <1>1, <2>1, LossKept
  <2> QED
    BY <1>1, <2>1, <2>3, <2>4, <2>5, QuietStep
<1>3. CASE Len(queue) < LaneQueue
  <2> DEFINE n == IF buf[o] = 0 THEN 0 ELSE held[o]
             m == [by |-> o, bytes |-> n]
             q == IF buf[o] = 0 THEN "waiting" ELSE "idle"
             v == held[o] - n
  <2>1. /\ queue' = Append(queue, m)
        /\ accepted' = [accepted EXCEPT ![o] = @ + n]
        /\ held' = IF buf[o] = 0 THEN held ELSE [held EXCEPT ![o] = 0]
        /\ pc' = [pc EXCEPT ![o] = q]
    BY <1>0, <1>3, Limits DEF Send, GoTo, TypeOK
  <2>2. /\ held \in [Outputs -> 0..MaxSize] /\ held[o] \in Nat
        /\ n \in 0..MaxSize /\ n \in Nat /\ n <= held[o]
    BY <1>0, Limits DEF TypeOK
  <2>3. m \in LaneMsg /\ m.by = o /\ m.bytes = n
    BY <2>2 DEF LaneMsg
  <2>4. v \in 0..MaxSize /\ held' = [held EXCEPT ![o] = v]
    <3>1. CASE buf[o] = 0
      <4>1. v = held[o] /\ held' = held
        BY <2>1, <2>2, <3>1
      <4> HIDE DEF v
      <4> QED
        BY <2>2, <4>1
    <3>2. CASE buf[o] # 0
      <4>1. v = 0 /\ held' = [held EXCEPT ![o] = 0]
        BY <2>1, <2>2, <3>2
      <4> HIDE DEF v
      <4> QED
        BY <4>1, Limits
    <3> QED
      BY <3>1, <3>2
  <2>5. q \in {"waiting", "idle"}
    OBVIOUS
  <2> HIDE DEF n, m, q
  <2>6. /\ held' \in [Outputs -> 0..MaxSize] /\ IsFiniteSet(Units(held', Outputs))
        /\ SumOver(held') = SumOver(held) - held[o] + v
    BY <2>4, HeldChanges
  <2>7. queue \in Seq(LaneMsg) /\ queue' \in Seq(LaneMsg) /\ Len(queue') <= LaneQueue
    <3>1. queue \in Seq(LaneMsg) /\ Len(queue) \in Nat
      BY <1>0 DEF TypeOK
    <3>2. queue' \in Seq(LaneMsg) /\ Len(queue') = Len(queue) + 1
      BY <2>1, <2>3, <3>1
    <3> QED
      BY <1>3, <3>1, <3>2, Limits
  <2>8. /\ \A p : BytesIn(p, queue') = BytesIn(p, queue) + (IF o = p THEN n ELSE 0)
        /\ Total(queue') = Total(queue) + n
    BY <2>1, <2>3, <2>7, BytesAppend
  <2>9. accepted' \in [Outputs -> Nat]
    BY <1>0, <2>1, <2>2 DEF TypeOK
  <2>10. pc' \in [Outputs -> Between \cup Polling \cup {"dropped"}]
    BY <1>0, <2>1, <2>5 DEF TypeOK, Between, Polling
  <2>11. TypeOK'
    BY <1>0, <1>1, <2>6, <2>7, <2>9, <2>10 DEF TypeOK
  <2>12. NothingHeld'
    BY <1>0, <1>1, <2>1, <2>4, <2>5 DEF NothingHeld, TypeOK
  <2>13. ASSUME NEW p \in Outputs
         PROVE  /\ inFlight[p] = held'[p] + BytesIn(p, queue') + BytesIn(p, batch) + Promised(p)'
                /\ failed[p] \/ accepted'[p] = BytesIn(p, queue') + BytesIn(p, batch) + sunk[p]
    <3>0. /\ inFlight[p] = held[p] + BytesIn(p, queue) + BytesIn(p, batch) + Promised(p)
          /\ failed[p] \/ accepted[p] = BytesIn(p, queue) + BytesIn(p, batch) + sunk[p]
      BY <1>0 DEF OwnExact, LossRecorded
    <3>1. CASE p # o
      <4>1. /\ Promised(p)' = Promised(p) /\ held'[p] = held[p]
            /\ accepted'[p] = accepted[p]
        BY <1>0, <1>1, <2>1, <2>4, <3>1 DEF Promised, TypeOK
      <4>2. BytesIn(p, queue') = BytesIn(p, queue) + 0
        BY <2>8, <3>1
      <4>3. BytesIn(p, queue') = BytesIn(p, queue)
        BY <4>2, Naturals
      <4> QED
        BY <3>0, <4>1, <4>3
    <3>2. CASE p = o
      <4>1. /\ Promised(o)' = 0 /\ Promised(o) = 0 /\ held'[o] = held[o] - n
            /\ accepted'[o] = accepted[o] + n
        BY <1>0, <1>1, <2>1, <2>4, <2>5 DEF Promised, TypeOK
      <4>2. BytesIn(o, queue') = BytesIn(o, queue) + n
        BY <2>8
      <4> QED
        BY <2>2, <3>0, <3>2, <4>1, <4>2, Naturals
    <3> QED
      BY <3>1, <3>2
  <2>14. OwnExact' /\ LossRecorded'
    BY <1>1, <2>13 DEF OwnExact, LossRecorded
  <2>15. TenantExact'
    <3>1. tenantInFlight = SumOver(held) + Total(queue) + Total(batch)
      BY <1>0 DEF TenantExact
    <3>2. tenantInFlight = SumOver(held') + Total(queue') + Total(batch)
      BY <2>2, <2>6, <2>8, <3>1, Naturals
    <3> QED
      BY <1>1, <3>2 DEF TenantExact
  <2> QED
    BY <2>6, <2>11, <2>12, <2>14, <2>15 DEF IInv
<1> QED
  <2>1. Len(queue) \in Nat
    BY <1>0 DEF TypeOK
  <2> QED
    BY <1>2, <1>3, <2>1, Limits

(* The steps that only change where a writer is. *)
LEMMA MoveIInv ==
    ASSUME IInv, NEW o \in Outputs, Park(o) \/ Flushed(o) PROVE IInv'
<1>0. TypeOK /\ NothingHeld /\ LossRecorded
  BY DEF IInv
<1>1. /\ pc[o] \in {"park", "answered"}
      /\ \E q \in {"parked", "idle"} : pc' = [pc EXCEPT ![o] = q]
      /\ parked' \in SUBSET Outputs
      /\ UNCHANGED <<buf, held, used, inFlight, tenantUsed, tenantInFlight>>
      /\ UNCHANGED <<queue, lane, batch, failed, sunk, accepted, calls, requests>>
  BY <1>0 DEF Park, Flushed, GoTo, budgets, laneVars, history, TypeOK
<1>2. pc' \in [Outputs -> Between \cup Polling \cup {"dropped"}]
  BY <1>0, <1>1 DEF TypeOK, Between, Polling
<1>3. TypeOK'
  BY <1>0, <1>1, <1>2 DEF TypeOK
<1>4. \A p \in Outputs : /\ pc'[p] = "hold" <=> pc[p] = "hold"
                         /\ pc[p] = "hold" => buf'[p] = buf[p]
                         /\ pc'[p] = "admit" => held[p] = 0
  BY <1>0, <1>1 DEF TypeOK, NothingHeld
<1>5. LossRecorded'
  BY <1>0, <1>1, LossKept
<1> QED
  BY <1>1, <1>3, <1>4, <1>5, QuietStep

(* The guard of a dropped writer releases what it held, which both counters
   hold at that moment. *)
LEMMA DropWriterIInv == ASSUME IInv, NEW o \in Outputs, DropWriter(o) PROVE IInv'
<1>0. TypeOK /\ NothingHeld /\ LossRecorded /\ OwnExact /\ TenantExact
  BY DEF IInv
<1>1. /\ pc[o] \in Between
      /\ inFlight' = [inFlight EXCEPT ![o] = SubSaturating(@, held[o])]
      /\ tenantInFlight' = SubSaturating(tenantInFlight, held[o])
      /\ held' = [held EXCEPT ![o] = 0]
      /\ pc' = [pc EXCEPT ![o] = "dropped"]
      /\ UNCHANGED <<buf, used, tenantUsed>>
      /\ UNCHANGED <<queue, parked, lane, batch, failed, sunk>>
      /\ UNCHANGED <<accepted, calls, requests>>
  BY DEF DropWriter, DropGuard, GoTo, laneVars, history
<1>2. 0 \in 0..MaxSize
  BY Limits
<1>3. /\ held' \in [Outputs -> 0..MaxSize] /\ IsFiniteSet(Units(held', Outputs))
      /\ SumOver(held') = SumOver(held) - held[o] + 0
      /\ held[o] <= SumOver(held)
  BY <1>1, <1>2, HeldChanges
<1>4. /\ inFlight[o] = held[o] + BytesIn(o, queue) + BytesIn(o, batch) + Promised(o)
      /\ tenantInFlight = SumOver(held) + Total(queue) + Total(batch)
  BY <1>0 DEF OwnExact, TenantExact
<1>5. /\ SubSaturating(inFlight[o], held[o]) = inFlight[o] - held[o]
      /\ SubSaturating(tenantInFlight, held[o]) = tenantInFlight - held[o]
      /\ inFlight[o] - held[o] \in Nat /\ tenantInFlight - held[o] \in Nat
  BY <1>3, <1>4, Naturals DEF SubSaturating
<1>6. TypeOK'
  <2>1. pc' \in [Outputs -> Between \cup Polling \cup {"dropped"}]
    BY <1>0, <1>1 DEF TypeOK
  <2>2. inFlight' \in [Outputs -> Nat] /\ tenantInFlight' \in Nat
    BY <1>0, <1>1, <1>5 DEF TypeOK
  <2> QED
    BY <1>0, <1>1, <1>3, <2>1, <2>2 DEF TypeOK
<1>7. NothingHeld'
  BY <1>0, <1>1 DEF NothingHeld, TypeOK
<1>8. ASSUME NEW p \in Outputs
      PROVE  inFlight'[p] = held'[p] + BytesIn(p, queue) + BytesIn(p, batch) + Promised(p)'
  <2>1. CASE p # o
    <3>1. Promised(p)' = Promised(p) /\ held'[p] = held[p] /\ inFlight'[p] = inFlight[p]
      BY <1>0, <1>1, <2>1 DEF Promised, TypeOK
    <3> QED
      BY <1>0, <3>1 DEF OwnExact
  <2>2. CASE p = o
    <3>1. /\ Promised(o)' = 0 /\ Promised(o) = 0 /\ held'[o] = 0
          /\ inFlight'[o] = inFlight[o] - held[o]
      BY <1>0, <1>1, <1>5 DEF Promised, TypeOK, Between
    <3> QED
      BY <1>4, <2>2, <3>1, Naturals
  <2> QED
    BY <2>1, <2>2
<1>9. OwnExact'
  BY <1>1, <1>8 DEF OwnExact
<1>10. TenantExact'
  <2>1. tenantInFlight' = SumOver(held') + Total(queue) + Total(batch)
    BY <1>1, <1>3, <1>4, <1>5, Naturals
  <2> QED
    BY <1>1, <2>1 DEF TenantExact
<1> QED
  BY <1>0, <1>1, <1>3, <1>6, <1>7, <1>9, <1>10, LossKept DEF IInv

(* The next request's output starts with nothing in the lane. *)
LEMMA DropBudgetIInv == ASSUME IInv, NEW o \in Outputs, DropBudget(o) PROVE IInv'
<1>0. TypeOK /\ NothingHeld /\ LossRecorded
  BY DEF IInv
<1>1. /\ pc[o] = "dropped" /\ pc' = [pc EXCEPT ![o] = "idle"]
      /\ used' = [used EXCEPT ![o] = 0]
      /\ failed' = [failed EXCEPT ![o] = FALSE]
      /\ accepted' = [accepted EXCEPT ![o] = 0]
      /\ sunk' = [sunk EXCEPT ![o] = 0]
      /\ calls' = [calls EXCEPT ![o] = 0]
      /\ requests < MaxRequests /\ requests' = requests + 1
      /\ tenantUsed' = SubSaturating(tenantUsed, used[o])
      /\ UNCHANGED <<buf, held, inFlight, tenantInFlight, queue, parked, lane, batch>>
  BY DEF DropBudget, GoTo
<1>2. BytesIn(o, queue) = 0 /\ BytesIn(o, batch) = 0
  BY BytesNone DEF DropBudget
<1>3. TypeOK'
  <2>1. pc' \in [Outputs -> Between \cup Polling \cup {"dropped"}]
    BY <1>0, <1>1 DEF TypeOK, Between
  <2>2. /\ used' \in [Outputs -> 0..OutputLimit] /\ calls' \in [Outputs -> 0..MaxCalls]
        /\ accepted' \in [Outputs -> Nat] /\ sunk' \in [Outputs -> Nat]
        /\ failed' \in [Outputs -> BOOLEAN]
    BY <1>0, <1>1, Limits DEF TypeOK
  <2>3. tenantUsed' \in 0..TenantLimit /\ requests' \in 0..MaxRequests
    <3>1. used[o] \in Nat /\ tenantUsed \in 0..TenantLimit /\ requests \in 0..MaxRequests
      BY <1>0, Limits DEF TypeOK
    <3> QED
      BY <1>1, <3>1, Limits DEF SubSaturating
  <2> QED
    BY <1>0, <1>1, <2>1, <2>2, <2>3 DEF TypeOK
<1>4. \A p \in Outputs : /\ pc'[p] = "hold" <=> pc[p] = "hold"
                         /\ pc[p] = "hold" => buf'[p] = buf[p]
                         /\ pc'[p] = "admit" => held[p] = 0
  BY <1>0, <1>1 DEF TypeOK, NothingHeld
<1>5. ASSUME NEW p \in Outputs
      PROVE  failed'[p] \/ accepted'[p] = BytesIn(p, queue) + BytesIn(p, batch) + sunk'[p]
  <2>1. CASE p = o
    BY <1>0, <1>1, <1>2, <2>1 DEF TypeOK
  <2>2. CASE p # o
    <3>1. failed'[p] = failed[p] /\ accepted'[p] = accepted[p] /\ sunk'[p] = sunk[p]
      BY <1>0, <1>1, <2>2 DEF TypeOK
    <3> QED
      BY <1>0, <3>1 DEF LossRecorded
  <2> QED
    BY <2>1, <2>2
<1>6. LossRecorded'
  BY <1>1, <1>5 DEF LossRecorded
<1> QED
  BY <1>1, <1>3, <1>4, <1>6, QuietStep

-----------------------------------------------------------------------------
(* The lane's side. *)

(* Data moves from the queue to the batch. *)
LEMMA TakeDataIInv == ASSUME IInv, TakeData PROVE IInv'
<1>0. TypeOK /\ NothingHeld /\ LossRecorded /\ OwnExact /\ TenantExact
  BY DEF IInv
<1> DEFINE m == Head(queue)
<1>1. /\ queue # <<>> /\ batch' = Append(batch, m) /\ queue' = Tail(queue)
      /\ lane' \in {"write", "drain"}
      /\ UNCHANGED <<pc, buf, held, used, inFlight, tenantUsed, tenantInFlight>>
      /\ UNCHANGED <<parked, failed, sunk, accepted, calls, requests>>
  BY DEF TakeData, budgets, history
<1>2. /\ queue \in Seq(LaneMsg) /\ batch \in Seq(LaneMsg) /\ Len(queue) <= LaneQueue
      /\ Len(queue) \in Nat
  BY <1>0 DEF TypeOK
<1>3. /\ m \in LaneMsg /\ queue' \in Seq(LaneMsg) /\ Len(queue') = Len(queue) - 1
      /\ batch' \in Seq(LaneMsg)
  BY <1>1, <1>2
<1>4. m.bytes \in Nat
  BY <1>3, Limits DEF LaneMsg
<1>5. /\ \A o : BytesIn(o, queue) = BytesIn(o, queue') + (IF m.by = o THEN m.bytes ELSE 0)
      /\ Total(queue) = Total(queue') + m.bytes
  BY <1>1, <1>2, BytesTail
<1> HIDE DEF m
<1>6. /\ \A o : BytesIn(o, batch') = BytesIn(o, batch) + (IF m.by = o THEN m.bytes ELSE 0)
      /\ Total(batch') = Total(batch) + m.bytes
  BY <1>1, <1>2, <1>3, BytesAppend
<1>7. /\ \A o : BytesIn(o, queue') \in Nat /\ BytesIn(o, batch') \in Nat
      /\ Total(queue') \in Nat /\ Total(batch') \in Nat
  BY <1>3, BytesType
<1>8. TypeOK'
  <2>1. Len(queue') <= LaneQueue
    BY <1>2, <1>3, Limits
  <2> QED
    BY <1>0, <1>1, <1>3, <2>1 DEF TypeOK
<1>9. ASSUME NEW o \in Outputs
      PROVE  BytesIn(o, queue') + BytesIn(o, batch') = BytesIn(o, queue) + BytesIn(o, batch)
  <2> DEFINE k == IF m.by = o THEN m.bytes ELSE 0
  <2>1. k \in Nat
    BY <1>4
  <2>2. BytesIn(o, queue) = BytesIn(o, queue') + k /\ BytesIn(o, batch') = BytesIn(o, batch) + k
    BY <1>5, <1>6
  <2> HIDE DEF k
  <2> QED
    BY <1>7, <2>1, <2>2, Naturals
<1>10. ASSUME NEW o \in Outputs
       PROVE  /\ inFlight[o] = held[o] + BytesIn(o, queue') + BytesIn(o, batch') + Promised(o)
              /\ failed[o] \/ accepted[o] = BytesIn(o, queue') + BytesIn(o, batch') + sunk[o]
  <2>1. /\ inFlight[o] = held[o] + BytesIn(o, queue) + BytesIn(o, batch) + Promised(o)
        /\ failed[o] \/ accepted[o] = BytesIn(o, queue) + BytesIn(o, batch) + sunk[o]
    BY <1>0 DEF OwnExact, LossRecorded
  <2> QED
    BY <1>7, <1>9, <2>1, Naturals
<1>11. OwnExact' /\ LossRecorded'
  <2>1. \A o \in Outputs : Promised(o)' = Promised(o)
    BY <1>1 DEF Promised
  <2> QED
    BY <1>1, <1>10, <2>1 DEF OwnExact, LossRecorded
<1>12. TenantExact'
  <2>1. tenantInFlight = SumOver(held) + Total(queue) + Total(batch)
    BY <1>0 DEF TenantExact
  <2>2. tenantInFlight = SumOver(held) + Total(queue') + Total(batch')
    BY <1>4, <1>5, <1>6, <1>7, <2>1, Naturals
  <2> QED
    BY <1>1, <2>2 DEF TenantExact
<1>13. NothingHeld'
  BY <1>0, <1>1 DEF NothingHeld
<1> QED
  BY <1>1, <1>8, <1>11, <1>12, <1>13 DEF IInv

(* write_batch and guards.clear, whatever the write's outcome: the guards of the
   batch release its bytes from both counters, and its bytes are in the sink or
   their outputs have the failure. *)
LEMMA WriteIInv ==
    ASSUME IInv, WriteAndClear, UNCHANGED <<buf, held, accepted>>,
           queue' \in Seq(LaneMsg),
           \A o \in Outputs : BytesIn(o, queue') = BytesIn(o, queue),
           Total(queue') = Total(queue),
           \A o \in Outputs : /\ pc'[o] = "hold" <=> pc[o] = "hold"
                              /\ pc'[o] = "admit" <=> pc[o] = "admit"
    PROVE  /\ OwnExact' /\ TenantExact' /\ LossRecorded' /\ NothingHeld'
           /\ batch' \in Seq(LaneMsg)
           /\ inFlight' \in [Outputs -> Nat] /\ tenantInFlight' \in Nat
           /\ sunk' \in [Outputs -> Nat] /\ failed' \in [Outputs -> BOOLEAN]
<1>0. TypeOK /\ NothingHeld /\ LossRecorded /\ OwnExact /\ TenantExact
  BY DEF IInv
<1>1. /\ batch' = <<>>
      /\ inFlight' = [o \in Outputs |-> SubSaturating(inFlight[o], BytesIn(o, batch))]
      /\ tenantInFlight' = SubSaturating(tenantInFlight, Total(batch))
  BY DEF WriteAndClear
<1>2. /\ \A o \in Outputs : BytesIn(o, batch') = 0
      /\ Total(batch') = 0
      /\ batch' \in Seq(LaneMsg)
  BY <1>1, BytesEmpty
<1>3. \A o \in Outputs : Promised(o)' = Promised(o)
  BY DEF Promised
<1>4. ASSUME NEW o \in Outputs
      PROVE  /\ inFlight'[o] = held'[o] + BytesIn(o, queue') + BytesIn(o, batch') + Promised(o)'
             /\ inFlight'[o] \in Nat
  <2>1. inFlight[o] = held[o] + BytesIn(o, queue) + BytesIn(o, batch) + Promised(o)
    BY <1>0 DEF OwnExact
  <2>2. inFlight'[o] = SubSaturating(inFlight[o], BytesIn(o, batch))
    BY <1>1
  <2>3. inFlight'[o] = inFlight[o] - BytesIn(o, batch) /\ inFlight'[o] \in Nat
    BY <2>1, <2>2, Naturals DEF SubSaturating
  <2>4. inFlight'[o] = held[o] + BytesIn(o, queue) + 0 + Promised(o)
    BY <2>1, <2>3, Naturals
  <2> QED
    BY <1>2, <1>3, <2>3, <2>4
<1>5. OwnExact' /\ inFlight' \in [Outputs -> Nat]
  BY <1>1, <1>4 DEF OwnExact
<1>6. TenantExact' /\ tenantInFlight' \in Nat
  <2>1. tenantInFlight = SumOver(held) + Total(queue) + Total(batch)
    BY <1>0 DEF TenantExact
  <2>2. tenantInFlight' = tenantInFlight - Total(batch) /\ tenantInFlight' \in Nat
    BY <1>1, <2>1, Naturals DEF SubSaturating
  <2>3. tenantInFlight' = SumOver(held) + Total(queue) + 0
    BY <2>1, <2>2, Naturals
  <2> QED
    BY <1>2, <2>2, <2>3 DEF TenantExact
<1>7. NothingHeld'
  BY <1>0 DEF NothingHeld
<1>8. CASE sunk' = [o \in Outputs |-> sunk[o] + BytesIn(o, batch)] /\ failed' = failed
  <2>1. ASSUME NEW o \in Outputs
        PROVE  /\ failed'[o] \/ accepted'[o] = BytesIn(o, queue') + BytesIn(o, batch') + sunk'[o]
               /\ sunk'[o] \in Nat
    <3>1. failed[o] \/ accepted[o] = BytesIn(o, queue) + BytesIn(o, batch) + sunk[o]
      BY <1>0 DEF LossRecorded
    <3>2. sunk'[o] = sunk[o] + BytesIn(o, batch) /\ sunk'[o] \in Nat
      BY <1>8, Naturals
    <3>3. failed[o] \/ accepted[o] = BytesIn(o, queue) + 0 + sunk'[o]
      BY <3>1, <3>2, Naturals
    <3> QED
      BY <1>2, <1>8, <3>2, <3>3
  <2>2. sunk' \in [Outputs -> Nat] /\ failed' \in [Outputs -> BOOLEAN]
    BY <1>0, <1>8, <2>1 DEF TypeOK
  <2> QED
    BY <1>2, <1>5, <1>6, <1>7, <2>1, <2>2 DEF LossRecorded
<1>9. CASE RecordFailures /\ sunk' = sunk
  <2>0. \A o \in Outputs : failed'[o] <=> (failed[o] \/ \E i \in DOMAIN batch : batch[i].by = o)
    BY <1>9 DEF RecordFailures
  <2>1. ASSUME NEW o \in Outputs
        PROVE  failed'[o] \/ accepted'[o] = BytesIn(o, queue') + BytesIn(o, batch') + sunk'[o]
    <3>1. CASE failed[o] \/ \E i \in DOMAIN batch : batch[i].by = o
      BY <2>0, <3>1
    <3>2. CASE ~failed[o] /\ \A i \in DOMAIN batch : batch[i].by # o
      <4>1. BytesIn(o, batch) = 0
        BY <3>2, BytesNone
      <4>2. accepted[o] = BytesIn(o, queue) + BytesIn(o, batch) + sunk[o]
        BY <1>0, <3>2 DEF LossRecorded
      <4> QED
        BY <1>2, <1>9, <4>1, <4>2
    <3> QED
      BY <3>1, <3>2
  <2>2. sunk' \in [Outputs -> Nat] /\ failed' \in [Outputs -> BOOLEAN]
    BY <1>0, <1>9 DEF TypeOK, RecordFailures
  <2> QED
    BY <1>2, <1>5, <1>6, <1>7, <2>1, <2>2 DEF LossRecorded
<1> QED
  BY <1>8, <1>9 DEF WriteAndClear

LEMMA TakeFlushIInv == ASSUME IInv, TakeFlush PROVE IInv'
<1>0. TypeOK /\ IsFiniteSet(Units(held, Outputs))
  BY DEF IInv
<1> DEFINE m == Head(queue)
<1>1. /\ queue # <<>> /\ m.bytes = 0 /\ WriteAndClear /\ queue' = Tail(queue)
      /\ lane' = "drain"
      /\ pc' = IF pc[m.by] = "waiting" THEN [pc EXCEPT ![m.by] = "answered"] ELSE pc
      /\ UNCHANGED <<buf, held, used, tenantUsed, parked, accepted, calls, requests>>
  BY DEF TakeFlush, IsFlush, Answer, history
<1>2. queue \in Seq(LaneMsg) /\ Len(queue) \in Nat /\ Len(queue) <= LaneQueue
  BY <1>0 DEF TypeOK
<1>3. m \in LaneMsg /\ queue' \in Seq(LaneMsg) /\ Len(queue') = Len(queue) - 1
  BY <1>1, <1>2
<1>4. /\ \A o : BytesIn(o, queue) = BytesIn(o, queue') + (IF m.by = o THEN m.bytes ELSE 0)
      /\ Total(queue) = Total(queue') + m.bytes
  BY <1>1, <1>2, BytesTail
<1> HIDE DEF m
<1>5. /\ \A o : BytesIn(o, queue') \in Nat
      /\ Total(queue') \in Nat
  BY <1>3, BytesType
<1>6. ASSUME NEW o \in Outputs PROVE BytesIn(o, queue') = BytesIn(o, queue)
  <2>1. BytesIn(o, queue) = BytesIn(o, queue') + 0
    BY <1>1, <1>4
  <2> QED
    BY <1>5, <2>1
<1>7. Total(queue') = Total(queue)
  BY <1>1, <1>4, <1>5
<1>8. /\ pc' \in [Outputs -> Between \cup Polling \cup {"dropped"}]
      /\ \A o \in Outputs : /\ pc'[o] = "hold" <=> pc[o] = "hold"
                            /\ pc'[o] = "admit" <=> pc[o] = "admit"
  <2>1. m.by \in Outputs
    BY <1>3 DEF LaneMsg
  <2> QED
    BY <1>0, <1>1, <2>1 DEF TypeOK, Between
<1>9. /\ OwnExact' /\ TenantExact' /\ LossRecorded' /\ NothingHeld'
      /\ batch' \in Seq(LaneMsg)
      /\ inFlight' \in [Outputs -> Nat] /\ tenantInFlight' \in Nat
      /\ sunk' \in [Outputs -> Nat] /\ failed' \in [Outputs -> BOOLEAN]
  BY <1>1, <1>3, <1>6, <1>7, <1>8, WriteIInv
<1>10. TypeOK'
  <2>1. Len(queue') <= LaneQueue
    BY <1>2, <1>3, Limits
  <2> QED
    BY <1>0, <1>1, <1>3, <1>8, <1>9, <2>1 DEF TypeOK
<1> QED
  BY <1>0, <1>1, <1>9, <1>10 DEF IInv

LEMMA WriteBatchIInv == ASSUME IInv, WriteBatch PROVE IInv'
<1>0. TypeOK /\ IsFiniteSet(Units(held, Outputs)) /\ queue \in Seq(LaneMsg)
  BY DEF IInv, TypeOK
<1>1. /\ WriteAndClear /\ lane' = "wake"
      /\ UNCHANGED <<pc, buf, held, used, tenantUsed, queue, parked>>
      /\ UNCHANGED <<accepted, calls, requests>>
  BY DEF WriteBatch, history
<1>2. /\ OwnExact' /\ TenantExact' /\ LossRecorded' /\ NothingHeld'
      /\ batch' \in Seq(LaneMsg)
      /\ inFlight' \in [Outputs -> Nat] /\ tenantInFlight' \in Nat
      /\ sunk' \in [Outputs -> Nat] /\ failed' \in [Outputs -> BOOLEAN]
  BY <1>0, <1>1, WriteIInv
<1>3. TypeOK'
  BY <1>0, <1>1, <1>2 DEF TypeOK
<1> QED
  BY <1>0, <1>1, <1>2, <1>3 DEF IInv

LEMMA WakeAllIInv == ASSUME IInv, WakeAll PROVE IInv'
<1>0. TypeOK /\ NothingHeld /\ LossRecorded
  BY DEF IInv
<1>1. /\ pc' = [o \in Outputs |->
                  IF o \in parked /\ pc[o] = "parked" THEN "woken" ELSE pc[o]]
      /\ parked' = {} /\ lane' = "recv"
      /\ UNCHANGED <<buf, held, used, inFlight, tenantUsed, tenantInFlight>>
      /\ UNCHANGED <<queue, batch, failed, sunk, accepted, calls, requests>>
  BY DEF WakeAll, budgets, history
<1>2. pc' \in [Outputs -> Between \cup Polling \cup {"dropped"}]
  BY <1>0, <1>1 DEF TypeOK, Between
<1>3. TypeOK'
  BY <1>0, <1>1, <1>2 DEF TypeOK
<1>4. \A p \in Outputs : /\ pc'[p] = "hold" <=> pc[p] = "hold"
                         /\ pc[p] = "hold" => buf'[p] = buf[p]
                         /\ pc'[p] = "admit" => held[p] = 0
  BY <1>0, <1>1 DEF NothingHeld
<1>5. LossRecorded'
  BY <1>0, <1>1, LossKept
<1> QED
  BY <1>1, <1>3, <1>4, <1>5, QuietStep

-----------------------------------------------------------------------------
LEMMA InitIInv == Init => IInv
<1> SUFFICES ASSUME Init PROVE IInv
  OBVIOUS
<1>1. TypeOK
  <2>1. queue \in Seq(LaneMsg) /\ batch \in Seq(LaneMsg) /\ Len(queue) <= LaneQueue
    BY Limits DEF Init
  <2> QED
    BY <2>1, Limits DEF Init, TypeOK, Between
<1>2. \A o \in Outputs : held[o] = 0
  BY DEF Init
<1>3. IsFiniteSet(Units(held, Outputs)) /\ SumOver(held) = 0
  BY <1>2, SumZero DEF SumOver
<1>4. /\ \A o \in Outputs : BytesIn(o, queue) = 0 /\ BytesIn(o, batch) = 0
      /\ Total(queue) = 0 /\ Total(batch) = 0
  BY BytesEmpty DEF Init
<1>5. \A o \in Outputs : Promised(o) = 0 /\ inFlight[o] = 0 /\ accepted[o] = 0 /\ sunk[o] = 0
  BY DEF Init, Promised
<1>6. OwnExact /\ LossRecorded
  BY <1>2, <1>4, <1>5 DEF OwnExact, LossRecorded
<1>7. TenantExact
  BY <1>3, <1>4 DEF TenantExact, Init
<1> QED
  BY <1>1, <1>2, <1>3, <1>6, <1>7 DEF IInv, NothingHeld

LEMMA NextIInv == IInv /\ [Next]_vars => IInv'
<1> SUFFICES ASSUME IInv, [Next]_vars PROVE IInv'
  OBVIOUS
<1>1. ASSUME NEW o \in Outputs, Runs(o) PROVE IInv'
  BY <1>1, PollIInv, AdmitIInv, HoldIInv, SendIInv, MoveIInv DEF Runs
<1>2. ASSUME NEW o \in Outputs, DropWriter(o) \/ DropBudget(o) PROVE IInv'
  BY <1>2, DropWriterIInv, DropBudgetIInv
<1>3. ASSUME NEW o \in Outputs, NEW n \in 0..MaxSize, Begin(o, n) PROVE IInv'
  BY <1>3, BeginIInv
<1>4. CASE Lane
  BY <1>4, TakeDataIInv, TakeFlushIInv, WriteBatchIInv, WakeAllIInv DEF Lane
<1>5. CASE UNCHANGED vars
  <2>1. UNCHANGED <<pc, buf, held, used, inFlight, tenantUsed, tenantInFlight, queue, parked,
                    lane, batch, failed, sunk, accepted, calls, requests>>
    BY <1>5 DEF vars, budgets, laneVars, history
  <2>2. TypeOK' /\ LossRecorded'
    BY <2>1 DEF IInv, TypeOK, LossRecorded
  <2>3. \A p \in Outputs : pc'[p] = "admit" => held[p] = 0
    BY <2>1 DEF IInv, NothingHeld
  <2> QED
    BY <2>1, <2>2, <2>3, QuietStep
<1> QED
  BY <1>1, <1>2, <1>3, <1>4, <1>5 DEF Next

(* The invariant holds in every reachable state. *)
THEOREM Invariance == Spec => []IInv
<1> QED
  BY InitIInv, NextIInv, PTL DEF Spec

(* Every variable has its type: the quotas of OutputBudget::reserve and the
   lane's queue bound are never exceeded. *)
THEOREM TypeCorrect == Spec => []TypeOK
<1>1. IInv => TypeOK
  BY DEF IInv
<1> QED
  BY <1>1, Invariance, PTL

(* InFlightExact for every number of outputs: the guards of reserve_in_flight
   never leak and never release twice, on any path of poll_write, of the lane's
   thread and of a dropped writer. *)
THEOREM InFlightAlwaysExact == Spec => []InFlightExact
<1>1. IInv => InFlightExact
  BY DEF IInv, OwnExact, TenantExact, Promised, InFlightExact
<1> QED
  BY <1>1, Invariance, PTL

(* LossRecorded for every number of outputs: record_failure reaches every output
   whose bytes write_batch dropped. *)
THEOREM LossAlwaysRecorded == Spec => []LossRecorded
<1>1. IInv => LossRecorded
  BY DEF IInv
<1> QED
  BY <1>1, Invariance, PTL
=============================================================================
