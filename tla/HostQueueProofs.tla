--------------------------- MODULE HostQueueProofs ---------------------------
(***************************************************************************)
(* Proofs about HostQueue: whatever expires, is rejected, retried or        *)
(* answered late, no message is lost or doubled, an ended delivery stays   *)
(* dead and what was handed out before comes first, for any number of      *)
(* consumers and messages, any depth, batch, lease and clock.              *)
(*                                                                         *)
(* Every consumer's call reaps and then does its own work.  The invariant  *)
(* is therefore stated of any line and set of leases, so that a lemma can  *)
(* speak of the queue between the two halves.                              *)
(***************************************************************************)
EXTENDS HostQueue, FiniteSetTheorems, SequenceTheorems, TLAPS

-----------------------------------------------------------------------------
(* The invariant of a queue with line p and leases F, when identifiers up to
   top have been minted and those in dead have ended. *)

Well(p, F, top, dead) ==
    /\ p \in Seq(QueuedMessage)
    /\ F \in SUBSET InFlight
    /\ IsFiniteSet(F)
    /\ dead \in SUBSET (1..top)

(* An identifier names one message, was minted, and has not ended. *)
IdsFresh(p, F, top, dead) ==
    /\ \A i \in 1..Len(p) : p[i].id <= top /\ p[i].id \notin dead
    /\ \A f \in F : f.id <= top /\ f.id \notin dead
    /\ \A i, j \in 1..Len(p) : i # j => p[i].id # p[j].id
    /\ \A f, g \in F : f # g => f.id # g.id
    /\ \A i \in 1..Len(p), f \in F : p[i].id # f.id

(* A message is in the queue at most once. *)
BodiesOnce(p, F) ==
    /\ \A i, j \in 1..Len(p) : i # j => p[i].body # p[j].body
    /\ \A f, g \in F : f # g => f.body # g.body
    /\ \A i \in 1..Len(p), f \in F : p[i].body # f.body

(* Leased messages count a delivery; the line is ordered as RedeliveredFirst
   says. *)
InOrder(p, F) ==
    /\ \A f \in F : f.deliveries > 0
    /\ \A i, j \in 1..Len(p) : i < j =>
         /\ p[j].deliveries > 0 => p[i].deliveries > 0
         /\ p[i].deliveries = 0 => p[i].body < p[j].body

Sound(p, F, top, dead) ==
    /\ Well(p, F, top, dead)
    /\ IdsFresh(p, F, top, dead)
    /\ BodiesOnce(p, F)
    /\ InOrder(p, F)

Bodies(p, F) == {p[i].body : i \in 1..Len(p)} \cup {f.body : f \in F}

(* The inductive invariant. *)
IInv ==
    /\ TypeOK
    /\ Sound(pending, inFlight, nextId, ended)
    /\ acked \subseteq 1..published
    /\ Bodies(pending, inFlight) = (1..published) \ acked

-----------------------------------------------------------------------------
(* A set of at most one element as a sequence. *)
LEMMA EmptyToSeq == SetToSeq({}) = <<>>
<1>1. Cardinality({}) = 0
  BY FS_EmptySet
<1>2. \A f \in [1..0 -> {}] : f = <<>>
  OBVIOUS
<1>3. <<>> \in [1..0 -> {}] /\ IsInjective(<<>>)
  BY DEF IsInjective
<1> QED
  BY <1>1, <1>2, <1>3 DEF SetToSeq

LEMMA SingletonToSeq == ASSUME NEW x PROVE SetToSeq({x}) = <<x>>
<1>1. Cardinality({x}) = 1
  BY FS_Singleton
<1>2. \A f \in [1..1 -> {x}] : f = <<x>>
  OBVIOUS
<1>3. <<x>> \in [1..1 -> {x}] /\ IsInjective(<<x>>)
  BY DEF IsInjective
<1> QED
  BY <1>1, <1>2, <1>3 DEF SetToSeq

-----------------------------------------------------------------------------
(* The order in which reap_expired takes the leases: ranks by identifier number
   the leases of a finite set without a gap. *)
LEMMA RankNumbers ==
    ASSUME NEW E \in SUBSET InFlight, IsFiniteSet(E),
           \A f, g \in E : f # g => f.id # g.id
    PROVE  /\ \A f, g \in E : f # g => Rank(f, E) # Rank(g, E)
           /\ \A f \in E : Rank(f, E) \in 1..Cardinality(E)
           /\ \A i \in 1..Cardinality(E) : \E f \in E : Rank(f, E) = i
<1> DEFINE Below(f) == {g \in E : g.id <= f.id}
<1>0. \A f \in E : f.id \in Int
  BY QueueAssumption DEF InFlight, Ids
<1>1. \A f \in E : /\ IsFiniteSet(Below(f))
                   /\ Cardinality(Below(f)) \in 1..Cardinality(E)
  <2> SUFFICES ASSUME NEW f \in E
               PROVE  /\ IsFiniteSet(Below(f))
                      /\ Cardinality(Below(f)) \in 1..Cardinality(E)
    OBVIOUS
  <2>1. f \in Below(f) /\ Below(f) \in SUBSET E
    BY <1>0
  <2>2. IsFiniteSet(Below(f)) /\ Cardinality(Below(f)) <= Cardinality(E)
    BY <2>1, FS_Subset
  <2>3. Cardinality(Below(f)) \in Nat /\ Cardinality(E) \in Nat
    BY <2>2, FS_CardinalityType
  <2>4. Cardinality(Below(f)) # 0
    BY <2>1, <2>2, FS_EmptySet
  <2> QED
    BY <2>2, <2>3, <2>4
<1>2. \A f, g \in E : f.id < g.id => Cardinality(Below(f)) # Cardinality(Below(g))
  <2> SUFFICES ASSUME NEW f \in E, NEW g \in E, f.id < g.id
               PROVE  Cardinality(Below(f)) # Cardinality(Below(g))
    OBVIOUS
  <2>1. Below(f) \in SUBSET Below(g) /\ g \in Below(g) /\ g \notin Below(f)
    BY <1>0
  <2> QED
    BY <1>1, <2>1, FS_Subset
<1>3. \A f, g \in E : f # g => Cardinality(Below(f)) # Cardinality(Below(g))
  <2> SUFFICES ASSUME NEW f \in E, NEW g \in E, f # g
               PROVE  Cardinality(Below(f)) # Cardinality(Below(g))
    OBVIOUS
  <2>1. f.id < g.id \/ g.id < f.id
    BY <1>0
  <2> QED
    BY <1>2, <2>1
<1>4. \A f \in E : Rank(f, E) = Cardinality(Below(f))
  BY DEF Rank
<1> DEFINE n == Cardinality(E)
           rank == [f \in E |-> Rank(f, E)]
<1>5. rank \in Injection(E, 1..n)
  <2>1. \A f \in E : Rank(f, E) \in 1..n
    BY <1>1, <1>4
  <2>2. \A f, g \in E : Rank(f, E) = Rank(g, E) => f = g
    BY <1>3, <1>4
  <2> HIDE DEF n, Below
  <2>3. rank \in [E -> 1..n]
    BY <2>1
  <2>4. \A f, g \in E : rank[f] = rank[g] => f = g
    BY <2>2
  <2> HIDE DEF rank
  <2> QED
    BY <2>3, <2>4 DEF Injection, IsInjective
<1>6. n \in Nat
  BY FS_CardinalityType
<1>7. IsFiniteSet(1..n) /\ Cardinality(1..n) = n
  BY <1>6, FS_Interval
<1>8. rank \in Surjection(E, 1..n)
  <2> HIDE DEF rank
  <2> QED
    BY <1>5, <1>7, FS_Injection
<1>9. \A i \in 1..n : \E f \in E : Rank(f, E) = i
  BY <1>8 DEF Surjection
<1> QED
  BY <1>1, <1>3, <1>4, <1>9

(* What is redelivered, with the order abstracted: each expired lease once,
   under the next fresh identifier. *)
LEMMA RedeliveredIs ==
    ASSUME NEW now, Sound(pending, inFlight, nextId, ended)
    PROVE  LET n == Cardinality(Expired(now)) IN
           \E at \in [1..n -> Expired(now)] :
               /\ \A i, j \in 1..n : i # j => at[i] # at[j]
               /\ \A f \in Expired(now) : \E i \in 1..n : at[i] = f
               /\ Redelivered(now) = [i \in 1..n |-> [id |-> nextId + i, body |-> at[i].body,
                                                     deliveries |-> at[i].deliveries]]
<1> DEFINE E == Expired(now)
           n == Cardinality(E)
           at == [i \in 1..n |-> CHOOSE f \in E : Rank(f, E) = i]
<1>1. E \in SUBSET inFlight
  BY DEF Expired
<1>2. /\ E \in SUBSET InFlight
      /\ IsFiniteSet(E)
      /\ \A f, g \in E : f # g => f.id # g.id
  BY <1>1, FS_Subset DEF Sound, Well, IdsFresh
<1>3. /\ \A f, g \in E : f # g => Rank(f, E) # Rank(g, E)
      /\ \A f \in E : Rank(f, E) \in 1..n
      /\ \A i \in 1..n : \E f \in E : Rank(f, E) = i
  <2> HIDE DEF E
  <2> QED
    BY <1>2, RankNumbers
<1>4. \A i \in 1..n : at[i] \in E /\ Rank(at[i], E) = i
  <2> HIDE DEF E, n
  <2> QED
    BY <1>3
<1>5. Redelivered(now) = [i \in 1..n |-> [id |-> nextId + i, body |-> at[i].body,
                                           deliveries |-> at[i].deliveries]]
  BY DEF Redelivered
<1>6. at \in [1..n -> E] /\ \A i, j \in 1..n : i # j => at[i] # at[j]
  <2> HIDE DEF E, n
  <2> SUFFICES at \in [1..n -> E]
    BY <1>4
  <2> QED
    BY <1>4
<1>7. \A f \in E : \E i \in 1..n : at[i] = f
  <2> HIDE DEF E, n, at
  <2> QED
    BY <1>3, <1>4
<1> QED
  <2> HIDE DEF at
  <2> QED
    BY <1>5, <1>6, <1>7

(* reap_expired keeps the queue sound, its messages and its depth; the leases it
   ends are dead. *)
LEMMA ReapSound ==
    ASSUME NEW now, Sound(pending, inFlight, nextId, ended), nextId \in Nat,
           nextId + Cardinality(Expired(now)) <= MaxId
    PROVE  /\ Sound(Line(now), Kept(now), nextId + Cardinality(Expired(now)),
                    ended \cup ExpiredIds(now))
           /\ Bodies(Line(now), Kept(now)) = Bodies(pending, inFlight)
           /\ Len(Line(now)) + Cardinality(Kept(now)) = Len(pending) + Cardinality(inFlight)
<1> DEFINE E == Expired(now)
           n == Cardinality(E)
           m == Len(pending)
           R == Redelivered(now)
           L == Line(now)
           K == Kept(now)
           top == nextId + n
           dead == ended \cup ExpiredIds(now)
<1>1. PICK at \in [1..n -> E] :
          /\ \A i, j \in 1..n : i # j => at[i] # at[j]
          /\ \A f \in E : \E i \in 1..n : at[i] = f
          /\ R = [i \in 1..n |-> [id |-> nextId + i, body |-> at[i].body,
                                  deliveries |-> at[i].deliveries]]
  BY RedeliveredIs
<1>2. /\ E \in SUBSET inFlight /\ IsFiniteSet(E) /\ n \in Nat
      /\ K = inFlight \ E /\ IsFiniteSet(K)
      /\ Cardinality(K) = Cardinality(inFlight) - n
      /\ Cardinality(inFlight) \in Nat
  <2>1. E \in SUBSET inFlight /\ K = inFlight \ E /\ IsFiniteSet(inFlight)
    BY DEF Expired, Kept, Sound, Well
  <2>2. IsFiniteSet(E) /\ n \in Nat /\ Cardinality(inFlight) \in Nat
    BY <2>1, FS_Subset, FS_CardinalityType
  <2>3. inFlight \cap E = E
    BY <2>1
  <2>4. IsFiniteSet(K) /\ Cardinality(K) = Cardinality(inFlight) - n
    BY <2>1, <2>3, FS_Difference
  <2> QED
    BY <2>1, <2>2, <2>4
<1>3. /\ pending \in Seq(QueuedMessage) /\ m \in Nat
      /\ \A i \in 1..m : pending[i] \in QueuedMessage
      /\ \A f \in inFlight : f \in InFlight
  BY DEF Sound, Well
<1> HIDE DEF E, n, m
<1>4. /\ R \in Seq(QueuedMessage) /\ Len(R) = n
      /\ \A i \in 1..n : /\ at[i] \in E
                         /\ R[i].id = nextId + i
                         /\ R[i].body = at[i].body
                         /\ R[i].deliveries = at[i].deliveries
  <2>1. \A i \in 1..n : at[i] \in E /\ at[i] \in InFlight
    BY <1>1, <1>2, <1>3
  <2>2. \A i \in 1..n : nextId + i \in Ids
    BY <1>2, QueueAssumption DEF Ids, n, E
  <2>3. \A i \in 1..n : [id |-> nextId + i, body |-> at[i].body,
                         deliveries |-> at[i].deliveries] \in QueuedMessage
    BY <2>1, <2>2 DEF InFlight, QueuedMessage
  <2>4. R \in [1..n -> QueuedMessage]
    BY <1>1, <2>3
  <2>5. R \in Seq(QueuedMessage) /\ Len(R) = n
    BY <1>2, <2>4
  <2>6. \A i \in 1..n : R[i] = [id |-> nextId + i, body |-> at[i].body,
                               deliveries |-> at[i].deliveries]
    BY <1>1
  <2> QED
    BY <2>1, <2>5, <2>6
<1>5. L = R \o pending
  BY DEF Line
<1> HIDE DEF R, L, K
<1>6. /\ L \in Seq(QueuedMessage)
      /\ Len(L) = n + m
      /\ \A i \in 1..n + m : L[i] = IF i <= n THEN R[i] ELSE pending[i - n]
  BY <1>3, <1>4, <1>5, ConcatProperties DEF m
<1>7. n \in Nat /\ m \in Nat
  BY <1>2, <1>3
<1>8. \A i \in 1..n : /\ i \in 1..Len(L)
                     /\ at[i] \in E /\ at[i] \in inFlight
                     /\ L[i].id = nextId + i
                     /\ L[i].body = at[i].body
                     /\ L[i].deliveries = at[i].deliveries
  <2> SUFFICES ASSUME NEW i \in 1..n
               PROVE  /\ i \in 1..Len(L)
                      /\ at[i] \in E /\ at[i] \in inFlight
                      /\ L[i].id = nextId + i
                      /\ L[i].body = at[i].body
                      /\ L[i].deliveries = at[i].deliveries
    OBVIOUS
  <2>1. i \in 1..n + m /\ i <= n
    BY <1>7
  <2>2. L[i] = R[i]
    BY <1>6, <2>1
  <2> QED
    BY <1>2, <1>4, <1>6, <2>1, <2>2
<1>9. \A i \in 1..Len(L) : i \notin 1..n => i - n \in 1..m /\ L[i] = pending[i - n]
  BY <1>6, <1>7
<1>10. \A i \in 1..m : i + n \in 1..Len(L) /\ L[i + n] = pending[i]
  <2> SUFFICES ASSUME NEW i \in 1..m PROVE i + n \in 1..Len(L) /\ L[i + n] = pending[i]
    OBVIOUS
  <2>1. i + n \in 1..Len(L) /\ i + n \notin 1..n /\ (i + n) - n = i
    BY <1>6, <1>7
  <2> QED
    BY <1>9, <2>1
(* What the invariant says of the queue before the call. *)
<1>11. /\ \A i \in 1..m : /\ pending[i].id \in Int /\ pending[i].id <= nextId
                          /\ pending[i].id \notin ended
       /\ \A i, j \in 1..m : i # j => /\ pending[i].id # pending[j].id
                                      /\ pending[i].body # pending[j].body
       /\ \A i \in 1..m, f \in inFlight : /\ pending[i].id # f.id
                                          /\ pending[i].body # f.body
  BY <1>3 DEF Sound, IdsFresh, BodiesOnce, QueuedMessage, Ids, m
<1>12. /\ \A f \in inFlight : /\ f.id \in Int /\ 1 <= f.id /\ f.id <= nextId
                              /\ f.id \notin ended /\ f.deliveries > 0
       /\ \A f, g \in inFlight : f # g => f.id # g.id /\ f.body # g.body
       /\ ended \in SUBSET (1..nextId)
  BY <1>3 DEF Sound, Well, IdsFresh, BodiesOnce, InOrder, InFlight, Ids
<1>13. /\ \A x \in dead : x \in ended \/ \E f \in E : x = f.id
       /\ \A f \in inFlight : f \in E \/ f \in K
       /\ \A f \in K : f \in inFlight /\ f \notin E
       /\ \A f \in E : f \in inFlight
  BY <1>2 DEF ExpiredIds, E
<1>14. dead \in SUBSET (1..nextId)
  <2>1. \A f \in E : f.id \in 1..nextId
    BY <1>12, <1>13
  <2> HIDE DEF dead
  <2> QED
    BY <1>12, <1>13, <2>1
<1> HIDE DEF dead
<1>15. Well(L, K, top, dead)
  <2>1. K \in SUBSET InFlight
    BY <1>3, <1>13
  <2>2. dead \in SUBSET (1..top)
    BY <1>7, <1>14
  <2> QED
    BY <1>2, <1>6, <2>1, <2>2 DEF Well
<1>16. IdsFresh(L, K, top, dead)
  <2>1. \A i \in 1..n : L[i].id <= top /\ L[i].id \notin dead /\ L[i].id > nextId
    BY <1>7, <1>8, <1>14
  <2>2. \A i \in 1..m : /\ pending[i].id <= top /\ pending[i].id \notin dead
                       /\ pending[i].id <= nextId /\ pending[i].id \in Int
    BY <1>7, <1>11, <1>13
  <2>3. \A i \in 1..Len(L) : L[i].id <= top /\ L[i].id \notin dead
    BY <1>9, <2>1, <2>2
  <2>4. \A f \in K : f.id <= top /\ f.id \notin dead
    BY <1>7, <1>12, <1>13
  <2>5. ASSUME NEW i \in 1..Len(L), NEW j \in 1..Len(L), i # j
        PROVE  L[i].id # L[j].id
    <3>1. CASE i \in 1..n /\ j \in 1..n
      BY <1>7, <1>8, <2>5, <3>1
    <3>2. \A k \in 1..Len(L) : k \notin 1..n => L[k].id \in Int /\ L[k].id <= nextId
      BY <1>9, <2>2
    <3>3. CASE i \in 1..n /\ j \notin 1..n
      <4>1. L[i].id > nextId
        BY <2>1, <3>3
      <4>2. L[j].id \in Int /\ L[j].id <= nextId
        BY <3>2, <3>3
      <4> QED
        BY <1>7, <4>1, <4>2
    <3>5. CASE i \notin 1..n /\ j \in 1..n
      <4>1. L[j].id > nextId
        BY <2>1, <3>5
      <4>2. L[i].id \in Int /\ L[i].id <= nextId
        BY <3>2, <3>5
      <4> QED
        BY <1>7, <4>1, <4>2
    <3>4. CASE i \notin 1..n /\ j \notin 1..n
      <4>1. i - n \in 1..m /\ j - n \in 1..m /\ i - n # j - n
        BY <1>7, <1>9, <2>5, <3>4
      <4> QED
        BY <1>9, <1>11, <3>4, <4>1
    <3> QED
      BY <3>1, <3>3, <3>4, <3>5
  <2>6. \A f, g \in K : f # g => f.id # g.id
    BY <1>12, <1>13
  <2>7. ASSUME NEW i \in 1..Len(L), NEW f \in K PROVE L[i].id # f.id
    <3>1. CASE i \in 1..n
      BY <1>7, <1>8, <1>12, <1>13, <2>1, <3>1
    <3>2. CASE i \notin 1..n
      BY <1>9, <1>11, <1>13, <3>2
    <3> QED
      BY <3>1, <3>2
  <2> QED
    BY <2>3, <2>4, <2>5, <2>6, <2>7 DEF IdsFresh
<1>17. BodiesOnce(L, K)
  <2>1. ASSUME NEW i \in 1..Len(L), NEW j \in 1..Len(L), i # j
        PROVE  L[i].body # L[j].body
    <3>1. CASE i \in 1..n /\ j \in 1..n
      <4>1. at[i] # at[j]
        BY <1>1, <2>1, <3>1
      <4> QED
        BY <1>8, <1>12, <3>1, <4>1
    <3>2. CASE i \in 1..n /\ j \notin 1..n
      BY <1>8, <1>9, <1>11, <3>2
    <3>3. CASE i \notin 1..n /\ j \in 1..n
      BY <1>8, <1>9, <1>11, <3>3
    <3>4. CASE i \notin 1..n /\ j \notin 1..n
      <4>1. i - n \in 1..m /\ j - n \in 1..m /\ i - n # j - n
        BY <1>7, <1>9, <2>1, <3>4
      <4> QED
        BY <1>9, <1>11, <3>4, <4>1
    <3> QED
      BY <3>1, <3>2, <3>3, <3>4
  <2>2. \A f, g \in K : f # g => f.body # g.body
    BY <1>12, <1>13
  <2>3. ASSUME NEW i \in 1..Len(L), NEW f \in K PROVE L[i].body # f.body
    <3>1. CASE i \in 1..n
      BY <1>8, <1>12, <1>13, <3>1
    <3>2. CASE i \notin 1..n
      BY <1>9, <1>11, <1>13, <3>2
    <3> QED
      BY <3>1, <3>2
  <2> QED
    BY <2>1, <2>2, <2>3 DEF BodiesOnce
<1>18. InOrder(L, K)
  <2>1. \A i \in 1..n : L[i].deliveries > 0 /\ L[i].deliveries # 0
    <3>1. \A f \in inFlight : f.deliveries \in Nat /\ f.deliveries > 0
      BY <1>3, <1>12 DEF InFlight
    <3> QED
      BY <1>8, <3>1
  <2>2. \A i, j \in 1..m : i < j =>
          /\ pending[j].deliveries > 0 => pending[i].deliveries > 0
          /\ pending[i].deliveries = 0 => pending[i].body < pending[j].body
    BY DEF Sound, InOrder, m
  <2>3. ASSUME NEW i \in 1..Len(L), NEW j \in 1..Len(L), i < j
        PROVE  /\ L[j].deliveries > 0 => L[i].deliveries > 0
               /\ L[i].deliveries = 0 => L[i].body < L[j].body
    <3>1. CASE i \in 1..n
      BY <2>1, <3>1
    <3>2. CASE i \notin 1..n
      <4>1. j \notin 1..n /\ i - n < j - n
        BY <1>6, <1>7, <2>3, <3>2
      <4>2. i - n \in 1..m /\ j - n \in 1..m /\ L[i] = pending[i - n] /\ L[j] = pending[j - n]
        BY <1>9, <3>2, <4>1
      <4> QED
        BY <2>2, <4>1, <4>2
    <3> QED
      BY <3>1, <3>2
  <2>4. \A f \in K : f.deliveries > 0
    BY <1>12, <1>13
  <2> QED
    BY <2>3, <2>4 DEF InOrder
<1>19. Bodies(L, K) = Bodies(pending, inFlight)
  <2>1. ASSUME NEW b \in Bodies(L, K) PROVE b \in Bodies(pending, inFlight)
    <3>1. ASSUME NEW i \in 1..Len(L), b = L[i].body PROVE b \in Bodies(pending, inFlight)
      <4>1. CASE i \in 1..n
        BY <1>8, <3>1, <4>1 DEF Bodies
      <4>2. CASE i \notin 1..n
        BY <1>9, <3>1, <4>2 DEF Bodies, m
      <4> QED
        BY <4>1, <4>2
    <3>2. CASE \E f \in K : b = f.body
      BY <1>13, <3>2 DEF Bodies
    <3> QED
      BY <2>1, <3>1, <3>2 DEF Bodies
  <2>2. ASSUME NEW b \in Bodies(pending, inFlight) PROVE b \in Bodies(L, K)
    <3>1. CASE \E i \in 1..m : b = pending[i].body
      BY <1>10, <3>1 DEF Bodies
    <3>2. ASSUME NEW f \in inFlight, b = f.body PROVE b \in Bodies(L, K)
      <4>1. CASE f \in E
        <5>1. PICK i \in 1..n : at[i] = f
          BY <1>1, <4>1
        <5>2. i \in 1..Len(L) /\ L[i].body = b
          BY <1>8, <3>2, <5>1
        <5> QED
          BY <5>2 DEF Bodies
      <4>2. CASE f \in K
        BY <3>2, <4>2 DEF Bodies
      <4> QED
        BY <1>13, <4>1, <4>2
    <3> QED
      BY <2>2, <3>1, <3>2 DEF Bodies, m
  <2> QED
    BY <2>1, <2>2
<1>20. Len(L) + Cardinality(K) = Len(pending) + Cardinality(inFlight)
  BY <1>2, <1>6, <1>7 DEF m
<1> QED
  BY <1>15, <1>16, <1>17, <1>18, <1>19, <1>20 DEF Sound, L, K, n, E, dead

-----------------------------------------------------------------------------
(* receive: the head of the line becomes a lease under its own identifier. *)
LEMMA LeaseSound ==
    ASSUME NEW p, NEW F, NEW top \in Nat, NEW dead, Sound(p, F, top, dead), p # <<>>,
           NEW t \in Nat
    PROVE  LET r == [id |-> Head(p).id, body |-> Head(p).body,
                     deliveries |-> Head(p).deliveries + 1, deadline |-> t]
           IN  /\ Sound(Tail(p), F \cup {r}, top, dead)
               /\ Bodies(Tail(p), F \cup {r}) = Bodies(p, F)
               /\ Len(Tail(p)) + Cardinality(F \cup {r}) = Len(p) + Cardinality(F)
<1> DEFINE r == [id |-> Head(p).id, body |-> Head(p).body,
                 deliveries |-> Head(p).deliveries + 1, deadline |-> t]
           T == Tail(p)
           G == F \cup {r}
<1>1. /\ p \in Seq(QueuedMessage) /\ IsFiniteSet(F) /\ F \in SUBSET InFlight
      /\ dead \in SUBSET (1..top)
  BY DEF Sound, Well
<1>2. /\ Len(p) \in Nat /\ 1 \in 1..Len(p) /\ Head(p) = p[1] /\ p[1] \in QueuedMessage
      /\ T \in Seq(QueuedMessage) /\ Len(T) = Len(p) - 1
      /\ \A i \in 1..Len(T) : i + 1 \in 1..Len(p) /\ T[i] = p[i + 1]
      /\ \A i \in 1..Len(p) : i # 1 => i - 1 \in 1..Len(T) /\ T[i - 1] = p[i]
  BY <1>1, HeadTailProperties, EmptySeq, LenProperties
<1>3. /\ r \in InFlight /\ r.id = p[1].id /\ r.body = p[1].body
      /\ r.deliveries > 0
  BY <1>2 DEF QueuedMessage, InFlight
<1> HIDE DEF r, T
<1>4. r \notin F
  BY <1>2, <1>3 DEF Sound, IdsFresh
<1>5. IsFiniteSet(G) /\ Cardinality(G) = Cardinality(F) + 1 /\ Cardinality(F) \in Nat
  BY <1>1, <1>4, FS_AddElement, FS_CardinalityType
<1>6. Well(T, G, top, dead)
  BY <1>1, <1>2, <1>3, <1>5 DEF Well
<1>7. /\ \A i \in 1..Len(p) : p[i].id <= top /\ p[i].id \notin dead
      /\ \A f \in F : f.id <= top /\ f.id \notin dead /\ f.deliveries > 0
      /\ \A i, j \in 1..Len(p) : i # j => p[i].id # p[j].id /\ p[i].body # p[j].body
      /\ \A f, g \in F : f # g => f.id # g.id /\ f.body # g.body
      /\ \A i \in 1..Len(p), f \in F : p[i].id # f.id /\ p[i].body # f.body
  BY DEF Sound, IdsFresh, BodiesOnce, InOrder
<1>8. \A i, j \in 1..Len(T) : i # j => T[i].id # T[j].id /\ T[i].body # T[j].body
  <2> SUFFICES ASSUME NEW i \in 1..Len(T), NEW j \in 1..Len(T), i # j
               PROVE  T[i].id # T[j].id /\ T[i].body # T[j].body
    OBVIOUS
  <2>1. i + 1 \in 1..Len(p) /\ j + 1 \in 1..Len(p) /\ i + 1 # j + 1
    BY <1>2
  <2> QED
    BY <1>2, <1>7, <2>1
<1>9. \A i \in 1..Len(T), f \in G : T[i].id # f.id /\ T[i].body # f.body
  <2> SUFFICES ASSUME NEW i \in 1..Len(T), NEW f \in G
               PROVE  T[i].id # f.id /\ T[i].body # f.body
    OBVIOUS
  <2>1. i + 1 \in 1..Len(p) /\ i + 1 # 1 /\ T[i] = p[i + 1]
    BY <1>2
  <2>2. CASE f = r
    BY <1>2, <1>3, <1>7, <2>1, <2>2
  <2>3. CASE f \in F
    BY <1>7, <2>1, <2>3
  <2> QED
    BY <2>2, <2>3
<1>10. \A f, g \in G : f # g => f.id # g.id /\ f.body # g.body
  BY <1>2, <1>3, <1>7
<1>11. IdsFresh(T, G, top, dead) /\ BodiesOnce(T, G)
  <2>1. \A i \in 1..Len(T) : T[i].id <= top /\ T[i].id \notin dead
    BY <1>2, <1>7
  <2>2. \A f \in G : f.id <= top /\ f.id \notin dead
    BY <1>2, <1>3, <1>7
  <2> QED
    BY <1>8, <1>9, <1>10, <2>1, <2>2 DEF IdsFresh, BodiesOnce
<1>12. InOrder(T, G)
  <2>1. ASSUME NEW i \in 1..Len(T), NEW j \in 1..Len(T), i < j
        PROVE  /\ T[j].deliveries > 0 => T[i].deliveries > 0
               /\ T[i].deliveries = 0 => T[i].body < T[j].body
    <3>1. i + 1 \in 1..Len(p) /\ j + 1 \in 1..Len(p) /\ i + 1 < j + 1
      BY <1>2, <2>1
    <3> QED
      BY <1>2, <3>1 DEF Sound, InOrder
  <2>2. \A f \in G : f.deliveries > 0
    BY <1>3, <1>7
  <2> QED
    BY <2>1, <2>2 DEF InOrder
<1>13. Bodies(T, G) = Bodies(p, F)
  <2>1. ASSUME NEW b \in Bodies(T, G) PROVE b \in Bodies(p, F)
    BY <1>2, <1>3 DEF Bodies
  <2>2. ASSUME NEW b \in Bodies(p, F) PROVE b \in Bodies(T, G)
    <3>1. ASSUME NEW i \in 1..Len(p), b = p[i].body PROVE b \in Bodies(T, G)
      <4>1. CASE i = 1
        BY <1>3, <3>1, <4>1 DEF Bodies
      <4>2. CASE i # 1
        BY <1>2, <3>1, <4>2 DEF Bodies
      <4> QED
        BY <4>1, <4>2
    <3> QED
      BY <3>1 DEF Bodies
  <2> QED
    BY <2>1, <2>2
<1>14. Len(T) + Cardinality(G) = Len(p) + Cardinality(F)
  BY <1>2, <1>5
<1> QED
  BY <1>6, <1>11, <1>12, <1>13, <1>14 DEF Sound, r, T

(* acknowledge: the lease and its message are gone, its identifier is dead. *)
LEMMA RemoveSound ==
    ASSUME NEW p, NEW F, NEW top \in Nat, NEW dead, Sound(p, F, top, dead),
           NEW M \in SUBSET F
    PROVE  /\ Sound(p, F \ M, top, dead \cup {f.id : f \in M})
           /\ Bodies(p, F \ M) = Bodies(p, F) \ {f.body : f \in M}
           /\ Len(p) + Cardinality(F \ M) <= Len(p) + Cardinality(F)
           /\ Len(p) + Cardinality(F \ M) \in Nat
<1>1. /\ p \in Seq(QueuedMessage) /\ IsFiniteSet(F) /\ F \in SUBSET InFlight
      /\ dead \in SUBSET (1..top) /\ Len(p) \in Nat
  BY DEF Sound, Well
<1>2. /\ IsFiniteSet(F \ M) /\ Cardinality(F \ M) <= Cardinality(F)
      /\ Cardinality(F) \in Nat /\ Cardinality(F \ M) \in Nat
  <2>1. F \ M \in SUBSET F
    OBVIOUS
  <2>2. IsFiniteSet(F \ M) /\ Cardinality(F \ M) <= Cardinality(F)
    BY <1>1, <2>1, FS_Subset
  <2> QED
    BY <1>1, <2>2, FS_CardinalityType
<1>3. \A f \in F : f.id \in 1..top
  BY <1>1 DEF Sound, IdsFresh, InFlight, Ids
<1>4. Well(p, F \ M, top, dead \cup {f.id : f \in M})
  BY <1>1, <1>2, <1>3 DEF Well
<1>5. /\ IdsFresh(p, F \ M, top, dead \cup {f.id : f \in M})
      /\ BodiesOnce(p, F \ M)
      /\ InOrder(p, F \ M)
  BY DEF Sound, IdsFresh, BodiesOnce, InOrder
<1>6. Bodies(p, F \ M) = Bodies(p, F) \ {f.body : f \in M}
  BY DEF Sound, BodiesOnce, Bodies
<1>7. /\ Len(p) + Cardinality(F \ M) <= Len(p) + Cardinality(F)
      /\ Len(p) + Cardinality(F \ M) \in Nat
  BY <1>1, <1>2
<1>8. Sound(p, F \ M, top, dead \cup {f.id : f \in M})
  BY <1>4, <1>5 DEF Sound
<1> QED
  BY <1>6, <1>7, <1>8

(* reject of a live lease: its message goes to the front of the line, under the
   same identifier. *)
LEMMA PushSound ==
    ASSUME NEW p, NEW F, NEW top \in Nat, NEW dead, Sound(p, F, top, dead), NEW f \in F
    PROVE  LET r == [id |-> f.id, body |-> f.body, deliveries |-> f.deliveries]
           IN  /\ Sound(<<r>> \o p, F \ {f}, top, dead)
               /\ Bodies(<<r>> \o p, F \ {f}) = Bodies(p, F)
               /\ Len(<<r>> \o p) + Cardinality(F \ {f}) = Len(p) + Cardinality(F)
<1> DEFINE r == [id |-> f.id, body |-> f.body, deliveries |-> f.deliveries]
           L == <<r>> \o p
           G == F \ {f}
<1>1. /\ p \in Seq(QueuedMessage) /\ IsFiniteSet(F) /\ F \in SUBSET InFlight
      /\ dead \in SUBSET (1..top) /\ Len(p) \in Nat
  BY DEF Sound, Well
<1>2. r \in QueuedMessage /\ r.id = f.id /\ r.body = f.body /\ r.deliveries = f.deliveries
  BY <1>1 DEF QueuedMessage, InFlight
<1> HIDE DEF r
<1>3. /\ L \in Seq(QueuedMessage) /\ Len(L) = Len(p) + 1 /\ L[1] = r
      /\ \A i \in 1..Len(L) : i # 1 => i - 1 \in 1..Len(p) /\ L[i] = p[i - 1]
      /\ \A i \in 1..Len(p) : i + 1 \in 1..Len(L) /\ L[i + 1] = p[i]
      /\ 1 \in 1..Len(L)
  <2>1. <<r>> \in Seq(QueuedMessage) /\ Len(<<r>>) = 1 /\ <<r>>[1] = r
    BY <1>2
  <2>2. /\ L \in Seq(QueuedMessage) /\ Len(L) = Len(p) + 1
        /\ \A i \in 1..1 + Len(p) : L[i] = IF i <= 1 THEN <<r>>[i] ELSE p[i - 1]
    BY <1>1, <2>1, ConcatProperties
  <2> HIDE DEF L
  <2>3. \A i \in 1..Len(L) : i # 1 => i - 1 \in 1..Len(p) /\ L[i] = p[i - 1]
    BY <1>1, <2>2
  <2>4. ASSUME NEW i \in 1..Len(p) PROVE i + 1 \in 1..Len(L) /\ L[i + 1] = p[i]
    <3>1. i + 1 \in 1..Len(L) /\ i + 1 # 1 /\ (i + 1) - 1 = i
      BY <1>1, <2>2
    <3> QED
      BY <2>3, <3>1
  <2>5. 1 \in 1..1 + Len(p) /\ 1 \in 1..Len(L)
    BY <1>1, <2>2
  <2>6. L[1] = r
    BY <2>1, <2>2, <2>5
  <2> QED
    BY <2>2, <2>3, <2>4, <2>5, <2>6
<1> HIDE DEF L
<1>4. IsFiniteSet(G) /\ Cardinality(G) = Cardinality(F) - 1 /\ Cardinality(F) \in Nat
  BY <1>1, FS_RemoveElement, FS_CardinalityType
<1>5. Well(L, G, top, dead)
  BY <1>1, <1>3, <1>4 DEF Well
<1>6. /\ \A i \in 1..Len(p) : p[i].id <= top /\ p[i].id \notin dead
      /\ \A g \in F : g.id <= top /\ g.id \notin dead /\ g.deliveries > 0
      /\ \A i, j \in 1..Len(p) : i # j => p[i].id # p[j].id /\ p[i].body # p[j].body
      /\ \A g, h \in F : g # h => g.id # h.id /\ g.body # h.body
      /\ \A i \in 1..Len(p), g \in F : p[i].id # g.id /\ p[i].body # g.body
  BY DEF Sound, IdsFresh, BodiesOnce, InOrder
<1>7. \A i, j \in 1..Len(L) : i # j => L[i].id # L[j].id /\ L[i].body # L[j].body
  <2> SUFFICES ASSUME NEW i \in 1..Len(L), NEW j \in 1..Len(L), i # j
               PROVE  L[i].id # L[j].id /\ L[i].body # L[j].body
    OBVIOUS
  <2>1. CASE i = 1
    BY <1>2, <1>3, <1>6, <2>1
  <2>2. CASE j = 1
    BY <1>2, <1>3, <1>6, <2>2
  <2>3. CASE i # 1 /\ j # 1
    <3>1. i - 1 \in 1..Len(p) /\ j - 1 \in 1..Len(p) /\ i - 1 # j - 1
      BY <1>3, <2>3
    <3> QED
      BY <1>3, <1>6, <2>3, <3>1
  <2> QED
    BY <2>1, <2>2, <2>3
<1>8. \A i \in 1..Len(L), g \in G : L[i].id # g.id /\ L[i].body # g.body
  <2> SUFFICES ASSUME NEW i \in 1..Len(L), NEW g \in G
               PROVE  L[i].id # g.id /\ L[i].body # g.body
    OBVIOUS
  <2>1. CASE i = 1
    BY <1>2, <1>3, <1>6, <2>1
  <2>2. CASE i # 1
    BY <1>3, <1>6, <2>2
  <2> QED
    BY <2>1, <2>2
<1>9. IdsFresh(L, G, top, dead) /\ BodiesOnce(L, G)
  <2>1. \A i \in 1..Len(L) : L[i].id <= top /\ L[i].id \notin dead
    BY <1>2, <1>3, <1>6
  <2> QED
    BY <1>6, <1>7, <1>8, <2>1 DEF IdsFresh, BodiesOnce
<1>10. InOrder(L, G)
  <2>1. ASSUME NEW i \in 1..Len(L), NEW j \in 1..Len(L), i < j
        PROVE  /\ L[j].deliveries > 0 => L[i].deliveries > 0
               /\ L[i].deliveries = 0 => L[i].body < L[j].body
    <3>1. CASE i = 1
      <4>1. f.deliveries \in Nat /\ f.deliveries > 0
        BY <1>1, <1>6 DEF InFlight
      <4> QED
        BY <1>2, <1>3, <3>1, <4>1
    <3>2. CASE i # 1
      <4>1. /\ i - 1 \in 1..Len(p) /\ j - 1 \in 1..Len(p) /\ i - 1 < j - 1
            /\ L[i] = p[i - 1] /\ L[j] = p[j - 1]
        BY <1>3, <2>1, <3>2
      <4> QED
        BY <4>1 DEF Sound, InOrder
    <3> QED
      BY <3>1, <3>2
  <2> QED
    BY <1>6, <2>1 DEF InOrder
<1>11. Bodies(L, G) = Bodies(p, F)
  <2>1. ASSUME NEW b \in Bodies(L, G) PROVE b \in Bodies(p, F)
    <3>1. ASSUME NEW i \in 1..Len(L), b = L[i].body PROVE b \in Bodies(p, F)
      <4>1. CASE i = 1
        BY <1>2, <1>3, <3>1, <4>1 DEF Bodies
      <4>2. CASE i # 1
        BY <1>3, <3>1, <4>2 DEF Bodies
      <4> QED
        BY <4>1, <4>2
    <3> QED
      BY <2>1, <3>1 DEF Bodies
  <2>2. ASSUME NEW b \in Bodies(p, F) PROVE b \in Bodies(L, G)
    <3>1. CASE \E i \in 1..Len(p) : b = p[i].body
      BY <1>3, <3>1 DEF Bodies
    <3>2. CASE b = f.body
      BY <1>2, <1>3, <3>2 DEF Bodies
    <3>3. CASE \E g \in G : b = g.body
      BY <3>3 DEF Bodies
    <3> QED
      BY <2>2, <3>1, <3>2, <3>3 DEF Bodies
  <2> QED
    BY <2>1, <2>2
<1>12. Len(L) + Cardinality(G) = Len(p) + Cardinality(F)
  BY <1>1, <1>3, <1>4
<1>13. Sound(L, G, top, dead)
  BY <1>5, <1>9, <1>10 DEF Sound
<1> QED
  BY <1>11, <1>12, <1>13 DEF L, r

(* What a rejected identifier names, and what goes back to the line. *)
MineIn(F, x) == {f \in F : f.id = x}
BackOf(F, x) == {[id |-> x, body |-> f.body, deliveries |-> f.deliveries] : f \in MineIn(F, x)}

(* reject, of a live lease or of one that has ended. *)
LEMMA ReturnSound ==
    ASSUME NEW p, NEW F, NEW top \in Nat, NEW dead, Sound(p, F, top, dead), NEW x
    PROVE  LET L == Returned(p, SetToSeq(BackOf(F, x)))
               G == F \ MineIn(F, x)
           IN  /\ Sound(L, G, top, dead)
               /\ Bodies(L, G) = Bodies(p, F)
               /\ Len(L) + Cardinality(G) = Len(p) + Cardinality(F)
<1> DEFINE mine == MineIn(F, x)
           back == BackOf(F, x)
<1>1. CASE mine = {}
  <2>1. back = {} /\ F \ mine = F
    BY <1>1 DEF BackOf
  <2>2. SetToSeq(back) = <<>>
    BY <2>1, EmptyToSeq
  <2>3. <<>> \o p = p
    BY ConcatEmptySeq DEF Sound, Well
  <2>4. Returned(p, SetToSeq(back)) = p
    BY <2>2, <2>3 DEF Returned
  <2> QED
    BY <2>1, <2>4
<1>2. CASE mine # {}
  <2>1. PICK f \in F : f.id = x
    BY <1>2 DEF MineIn
  <2>2. mine = {f}
    BY <2>1 DEF Sound, IdsFresh, MineIn
  <2> DEFINE r == [id |-> f.id, body |-> f.body, deliveries |-> f.deliveries]
  <2>3. back = {r}
    BY <2>1, <2>2 DEF BackOf
  <2>4. Returned(p, SetToSeq(back)) = <<r>> \o p
    BY <2>3, SingletonToSeq DEF Returned
  <2>5. /\ Sound(<<r>> \o p, F \ {f}, top, dead)
        /\ Bodies(<<r>> \o p, F \ {f}) = Bodies(p, F)
        /\ Len(<<r>> \o p) + Cardinality(F \ {f}) = Len(p) + Cardinality(F)
    BY PushSound
  <2> HIDE DEF mine, back, r
  <2>6. /\ Sound(Returned(p, SetToSeq(back)), F \ mine, top, dead)
        /\ Bodies(Returned(p, SetToSeq(back)), F \ mine) = Bodies(p, F)
        /\ Len(Returned(p, SetToSeq(back))) + Cardinality(F \ mine) = Len(p) + Cardinality(F)
    BY <2>2, <2>4, <2>5
  <2> QED
    BY <2>6 DEF mine, back
<1> QED
  BY <1>1, <1>2

(* publish: new messages join the end of the line. *)
LEMMA PublishSound ==
    ASSUME IInv, NEW n \in Nat, published + n <= MaxMessages, nextId + n <= MaxId
    PROVE  LET p == pending \o NewMessages(n)
           IN  /\ Sound(p, inFlight, nextId + n, ended)
               /\ Bodies(p, inFlight) = (1..published + n) \ acked
               /\ Len(p) = Len(pending) + n
<1> DEFINE N == NewMessages(n)
           L == pending \o N
           m == Len(pending)
<1>0. /\ Sound(pending, inFlight, nextId, ended)
      /\ Bodies(pending, inFlight) = (1..published) \ acked
      /\ acked \subseteq 1..published
      /\ published \in Nat /\ nextId \in Nat
  BY QueueAssumption DEF IInv, TypeOK
<1>1. /\ pending \in Seq(QueuedMessage) /\ m \in Nat
      /\ \A i \in 1..m : pending[i] \in QueuedMessage
      /\ inFlight \in SUBSET InFlight /\ IsFiniteSet(inFlight)
      /\ ended \in SUBSET (1..nextId)
  BY <1>0 DEF Sound, Well
<1>2. /\ N \in Seq(QueuedMessage) /\ Len(N) = n
      /\ \A i \in 1..n : /\ N[i].id = nextId + i
                         /\ N[i].body = published + i
                         /\ N[i].deliveries = 0
  <2>1. \A i \in 1..n : [id |-> nextId + i, body |-> published + i, deliveries |-> 0]
                          \in QueuedMessage
    BY <1>0, QueueAssumption DEF QueuedMessage, Ids, Messages
  <2>2. N \in [1..n -> QueuedMessage]
    BY <2>1 DEF NewMessages
  <2>3. N \in Seq(QueuedMessage) /\ Len(N) = n
    BY <2>2
  <2> QED
    BY <2>3 DEF NewMessages
<1> HIDE DEF N
<1>3. /\ L \in Seq(QueuedMessage) /\ Len(L) = m + n
      /\ \A i \in 1..m + n : L[i] = IF i <= m THEN pending[i] ELSE N[i - m]
  BY <1>1, <1>2, ConcatProperties
<1> HIDE DEF L, m
<1>4. \A i \in 1..m : i \in 1..Len(L) /\ L[i] = pending[i]
  BY <1>1, <1>3
<1>5. \A i \in 1..Len(L) : i \notin 1..m => /\ i - m \in 1..n
                                           /\ L[i].id = nextId + (i - m)
                                           /\ L[i].body = published + (i - m)
                                           /\ L[i].deliveries = 0
  <2> SUFFICES ASSUME NEW i \in 1..Len(L), i \notin 1..m
               PROVE  /\ i - m \in 1..n
                      /\ L[i].id = nextId + (i - m)
                      /\ L[i].body = published + (i - m)
                      /\ L[i].deliveries = 0
    OBVIOUS
  <2>1. i - m \in 1..n /\ i \in 1..m + n /\ ~(i <= m)
    BY <1>1, <1>3
  <2>2. L[i] = N[i - m]
    BY <1>3, <2>1
  <2> QED
    BY <1>2, <2>1, <2>2
<1>6. /\ \A i \in 1..m : /\ pending[i].id \in Int /\ pending[i].id <= nextId
                         /\ pending[i].id \notin ended
      /\ \A i, j \in 1..m : i # j => /\ pending[i].id # pending[j].id
                                     /\ pending[i].body # pending[j].body
      /\ \A i \in 1..m, f \in inFlight : /\ pending[i].id # f.id
                                         /\ pending[i].body # f.body
      /\ \A f \in inFlight : f.id \in Int /\ f.id <= nextId /\ f.id \notin ended
      /\ \A f, g \in inFlight : f # g => f.id # g.id /\ f.body # g.body
  <2>1. \A i \in 1..m : pending[i].id \in Int
    BY <1>1 DEF QueuedMessage, Ids
  <2>2. \A f \in inFlight : f.id \in Int
    BY <1>1 DEF InFlight, Ids
  <2> QED
    BY <1>0, <2>1, <2>2 DEF Sound, IdsFresh, BodiesOnce, m
<1>7. /\ \A i \in 1..m : pending[i].body \in 1..published
      /\ \A f \in inFlight : f.body \in 1..published
  <2>1. /\ \A i \in 1..m : pending[i].body \in Bodies(pending, inFlight)
        /\ \A f \in inFlight : f.body \in Bodies(pending, inFlight)
    BY DEF Bodies, m
  <2> QED
    BY <1>0, <2>1
<1>8. Well(L, inFlight, nextId + n, ended)
  BY <1>0, <1>1, <1>3 DEF Well
(* Old and new messages differ: the new ones have larger identifiers and bodies. *)
<1>9. ASSUME NEW i \in 1..Len(L), i \notin 1..m
      PROVE  L[i].id \in Int /\ L[i].id > nextId /\ L[i].id <= nextId + n
               /\ L[i].body \in Int /\ L[i].body > published
  <2>1. i - m \in Int /\ 1 <= i - m /\ i - m <= n
    BY <1>5, <1>9
  <2> QED
    BY <1>0, <1>5, <1>9, <2>1
<1>10. ASSUME NEW i \in 1..Len(L), NEW j \in 1..Len(L), i # j
       PROVE  L[i].id # L[j].id /\ L[i].body # L[j].body
  <2>1. CASE i \in 1..m /\ j \in 1..m
    BY <1>4, <1>6, <1>10, <2>1
  <2>2. CASE i \in 1..m /\ j \notin 1..m
    BY <1>0, <1>4, <1>6, <1>7, <1>9, <2>2
  <2>3. CASE i \notin 1..m /\ j \in 1..m
    BY <1>0, <1>4, <1>6, <1>7, <1>9, <2>3
  <2>4. CASE i \notin 1..m /\ j \notin 1..m
    <3>1. i - m # j - m
      BY <1>1, <1>10
    <3> QED
      BY <1>0, <1>5, <2>4, <3>1
  <2> QED
    BY <2>1, <2>2, <2>3, <2>4
<1>11. ASSUME NEW i \in 1..Len(L), NEW f \in inFlight
       PROVE  L[i].id # f.id /\ L[i].body # f.body
  <2>1. CASE i \in 1..m
    BY <1>4, <1>6, <2>1
  <2>2. CASE i \notin 1..m
    BY <1>0, <1>6, <1>7, <1>9, <2>2
  <2> QED
    BY <2>1, <2>2
<1>12. IdsFresh(L, inFlight, nextId + n, ended) /\ BodiesOnce(L, inFlight)
  <2>1. ASSUME NEW i \in 1..Len(L) PROVE L[i].id <= nextId + n /\ L[i].id \notin ended
    <3>1. CASE i \in 1..m
      BY <1>0, <1>4, <1>6, <3>1
    <3>2. CASE i \notin 1..m
      BY <1>0, <1>1, <1>9, <3>2
    <3> QED
      BY <3>1, <3>2
  <2>2. \A f \in inFlight : f.id <= nextId + n /\ f.id \notin ended
    BY <1>0, <1>6
  <2> QED
    BY <1>6, <1>10, <1>11, <2>1, <2>2 DEF IdsFresh, BodiesOnce
<1>13. InOrder(L, inFlight)
  <2>1. ASSUME NEW i \in 1..Len(L), NEW j \in 1..Len(L), i < j
        PROVE  /\ L[j].deliveries > 0 => L[i].deliveries > 0
               /\ L[i].deliveries = 0 => L[i].body < L[j].body
    <3>1. CASE j \in 1..m
      <4>1. i \in 1..m
        BY <1>1, <2>1, <3>1
      <4>2. L[i] = pending[i] /\ L[j] = pending[j]
        BY <1>4, <3>1, <4>1
      <4> QED
        BY <1>0, <2>1, <3>1, <4>1, <4>2 DEF Sound, InOrder, m
    <3>2. CASE i \in 1..m /\ j \notin 1..m
      BY <1>0, <1>4, <1>5, <1>7, <1>9, <3>2
    <3>3. CASE i \notin 1..m /\ j \notin 1..m
      <4>1. i - m < j - m /\ i - m \in Int /\ j - m \in Int
        BY <1>1, <2>1
      <4> QED
        BY <1>0, <1>5, <3>3, <4>1
    <3>4. i \notin 1..m => j \notin 1..m
      BY <1>1, <2>1
    <3> QED
      BY <3>1, <3>2, <3>3, <3>4
  <2> QED
    BY <1>0, <2>1 DEF Sound, InOrder
<1>14. Bodies(L, inFlight) = (1..published + n) \ acked
  <2>1. ASSUME NEW b \in Bodies(L, inFlight) PROVE b \in (1..published + n) \ acked
    <3>0. \A x \in Bodies(pending, inFlight) : x \in (1..published + n) \ acked
      BY <1>0
    <3>1. ASSUME NEW i \in 1..Len(L), b = L[i].body PROVE b \in (1..published + n) \ acked
      <4>1. CASE i \in 1..m
        BY <1>4, <3>0, <3>1, <4>1 DEF Bodies, m
      <4>2. CASE i \notin 1..m
        <5>1. b = published + (i - m) /\ i - m \in 1..n
          BY <1>5, <3>1, <4>2
        <5>2. b \in 1..published + n /\ b \notin 1..published
          BY <1>0, <5>1
        <5> QED
          BY <1>0, <5>2
      <4> QED
        BY <4>1, <4>2
    <3>2. CASE \E f \in inFlight : b = f.body
      BY <3>0, <3>2 DEF Bodies
    <3> QED
      BY <2>1, <3>1, <3>2 DEF Bodies
  <2>2. ASSUME NEW b \in (1..published + n) \ acked PROVE b \in Bodies(L, inFlight)
    <3>1. CASE b <= published
      <4>1. b \in Bodies(pending, inFlight)
        BY <1>0, <2>2, <3>1
      <4> QED
        BY <1>4, <4>1 DEF Bodies, m
    <3>2. CASE ~(b <= published)
      <4> DEFINE i == m + (b - published)
      <4>1. i \in 1..Len(L) /\ i \notin 1..m /\ published + (i - m) = b
        BY <1>0, <1>1, <1>3, <2>2, <3>2
      <4>2. L[i].body = b
        BY <1>5, <4>1
      <4> QED
        BY <4>1, <4>2 DEF Bodies
    <3> QED
      BY <3>1, <3>2
  <2> QED
    BY <2>1, <2>2
<1>15. Sound(L, inFlight, nextId + n, ended)
  BY <1>8, <1>12, <1>13 DEF Sound
<1> QED
  BY <1>3, <1>14, <1>15 DEF L, N, m

-----------------------------------------------------------------------------
(* The invariant from its parts, after a consumer's call. *)
LEMMA CallIInv ==
    ASSUME IInv, NEW c \in Consumers, Reap(c),
           Sound(pending', inFlight', nextId', ended'),
           Len(pending') + Cardinality(inFlight') \in Nat,
           Len(pending') + Cardinality(inFlight') <= Len(pending) + Cardinality(inFlight),
           given' \in [Consumers -> SUBSET Ids],
           acked' \subseteq 1..published,
           Bodies(pending', inFlight') = (1..published) \ acked'
    PROVE  IInv'
<1>1. /\ TypeOK /\ published \in 0..MaxMessages /\ nextId \in Nat
      /\ Len(pending) + Cardinality(inFlight) <= Depth
      /\ IsFiniteSet(inFlight) /\ pending \in Seq(QueuedMessage)
  BY QueueAssumption DEF IInv, TypeOK, Sound, Well
<1>2. Cardinality(Expired(reading[c])) \in Nat
  <2>1. Expired(reading[c]) \in SUBSET inFlight
    BY DEF Expired
  <2> QED
    BY <1>1, <2>1, FS_Subset, FS_CardinalityType
<1>3. nextId' \in 0..MaxId
  BY <1>1, <1>2, QueueAssumption DEF Reap
<1>4. ended' \in SUBSET Ids
  BY <1>3, QueueAssumption DEF Sound, Well, Ids
<1>5. acked' \in SUBSET Messages
  BY <1>1, QueueAssumption DEF Messages
<1>6. Len(pending') + Cardinality(inFlight') <= Depth
  <2>1. Cardinality(inFlight) \in Nat /\ Len(pending) \in Nat
    BY <1>1, FS_CardinalityType
  <2> QED
    BY <1>1, <2>1, QueueAssumption
<1>7. pending' \in Seq(QueuedMessage) /\ inFlight' \in SUBSET InFlight
  BY DEF Sound, Well
<1>8. /\ reading' \in [Consumers -> {NotCalling} \cup 0..MaxClock]
      /\ UNCHANGED <<clock, published>>
  BY <1>1 DEF Reap, TypeOK
<1>9. TypeOK'
  BY <1>1, <1>3, <1>4, <1>5, <1>6, <1>7, <1>8 DEF TypeOK
<1> QED
  BY <1>8, <1>9 DEF IInv

LEMMA InitIInv == Init => IInv
<1> SUFFICES ASSUME Init PROVE IInv
  OBVIOUS
<1>0. pending = <<>> /\ Len(pending) = 0 /\ inFlight = {} /\ ended = {} /\ acked = {}
        /\ nextId = 0 /\ published = 0
  BY DEF Init
<1>1. IsFiniteSet(inFlight) /\ Cardinality(inFlight) = 0
  BY <1>0, FS_EmptySet
<1>2. pending \in Seq(QueuedMessage)
  BY <1>0
<1>3. TypeOK
  BY <1>0, <1>1, <1>2, QueueAssumption DEF Init, TypeOK, NotCalling
<1>4. Sound(pending, inFlight, nextId, ended)
  BY <1>0, <1>1, <1>2 DEF Sound, Well, IdsFresh, BodiesOnce, InOrder
<1>5. Bodies(pending, inFlight) = {}
  BY <1>0 DEF Bodies
<1> QED
  BY <1>0, <1>3, <1>4, <1>5 DEF IInv

(* What the reaping half of a call leaves, in the terms of the whole call. *)
LEMMA AfterReap ==
    ASSUME IInv, NEW c \in Consumers, reading[c] # NotCalling, Reap(c)
    PROVE  LET now == reading[c] IN
           /\ now \in Nat /\ nextId' \in Nat
           /\ Sound(Line(now), Kept(now), nextId', ended \cup ExpiredIds(now))
           /\ Bodies(Line(now), Kept(now)) = (1..published) \ acked
           /\ Len(Line(now)) + Cardinality(Kept(now)) = Len(pending) + Cardinality(inFlight)
           /\ Len(pending) + Cardinality(inFlight) \in Nat
<1> DEFINE now == reading[c]
<1>1. /\ now \in Nat /\ nextId \in Nat /\ IsFiniteSet(inFlight)
      /\ Sound(pending, inFlight, nextId, ended)
      /\ Bodies(pending, inFlight) = (1..published) \ acked
      /\ pending \in Seq(QueuedMessage)
  BY QueueAssumption DEF IInv, TypeOK, Sound, Well, NotCalling
<1>2. Cardinality(Expired(now)) \in Nat
  <2>1. Expired(now) \in SUBSET inFlight
    BY DEF Expired
  <2> QED
    BY <1>1, <2>1, FS_Subset, FS_CardinalityType
<1>3. nextId' = nextId + Cardinality(Expired(now)) /\ nextId' <= MaxId
  BY DEF Reap
<1>4. Len(pending) + Cardinality(inFlight) \in Nat
  BY <1>1, FS_CardinalityType
<1> HIDE DEF now
<1>5. /\ Sound(Line(now), Kept(now), nextId', ended \cup ExpiredIds(now))
      /\ Bodies(Line(now), Kept(now)) = Bodies(pending, inFlight)
      /\ Len(Line(now)) + Cardinality(Kept(now)) = Len(pending) + Cardinality(inFlight)
  BY <1>1, <1>3, ReapSound
<1>6. nextId' \in Nat
  BY <1>1, <1>2, <1>3
<1> QED
  BY <1>1, <1>4, <1>5, <1>6 DEF now

-----------------------------------------------------------------------------
(* The steps. *)

LEMMA PublishIInv == ASSUME IInv, NEW n \in 1..Batch, Publish(n) PROVE IInv'
<1>1. n \in Nat
  BY QueueAssumption
<1>2. /\ TypeOK /\ published \in Nat /\ nextId \in Nat
      /\ Len(pending) \in Nat /\ Cardinality(inFlight) \in Nat
      /\ acked \subseteq 1..published
  BY QueueAssumption, FS_CardinalityType DEF IInv, TypeOK, Sound, Well
<1>3. /\ pending' = pending \o NewMessages(n)
      /\ nextId' = nextId + n /\ published' = published + n
      /\ UNCHANGED <<inFlight, clock, reading, given, acked, ended>>
      /\ published + n <= MaxMessages /\ nextId + n <= MaxId
      /\ Len(pending) + Cardinality(inFlight) + n <= Depth
  BY DEF Publish, Open
<1>4. /\ Sound(pending', inFlight', nextId', ended')
      /\ Bodies(pending', inFlight') = (1..published') \ acked'
      /\ Len(pending') = Len(pending) + n
  BY <1>1, <1>3, PublishSound
<1>5. Len(pending') + Cardinality(inFlight') <= Depth
  BY <1>1, <1>2, <1>3, <1>4
<1>6. nextId' \in 0..MaxId /\ published' \in 0..MaxMessages
  BY <1>1, <1>2, <1>3, QueueAssumption
<1>7. pending' \in Seq(QueuedMessage)
  BY <1>4 DEF Sound, Well
<1>8. acked' \subseteq 1..published'
  BY <1>1, <1>2, <1>3
<1>9. TypeOK'
  BY <1>2, <1>3, <1>5, <1>6, <1>7 DEF TypeOK
<1> QED
  BY <1>4, <1>8, <1>9 DEF IInv

LEMMA ReceiveIInv == ASSUME IInv, NEW c \in Consumers, Receive(c) PROVE IInv'
<1> DEFINE now == reading[c]
           line == Line(now)
           dead == ended \cup ExpiredIds(now)
<1>1. /\ now # NotCalling /\ Reap(c) /\ ended' = dead /\ acked' = acked
  BY DEF Receive
<1>2. /\ now \in Nat /\ nextId' \in Nat
      /\ Sound(line, Kept(now), nextId', dead)
      /\ Bodies(line, Kept(now)) = (1..published) \ acked
      /\ Len(line) + Cardinality(Kept(now)) = Len(pending) + Cardinality(inFlight)
      /\ Len(pending) + Cardinality(inFlight) \in Nat
  BY <1>1, AfterReap
<1>3. /\ acked \subseteq 1..published /\ given \in [Consumers -> SUBSET Ids]
      /\ pending \in Seq(QueuedMessage)
  BY DEF IInv, TypeOK
<1>4. CASE line = <<>>
  <2>1. inFlight' = Kept(now) /\ pending' = pending /\ given' = given
    BY <1>4 DEF Receive
  <2>2. Cardinality(Kept(now)) <= Cardinality(inFlight)
    <3>1. Kept(now) \in SUBSET inFlight /\ IsFiniteSet(inFlight)
      BY DEF Kept, IInv, Sound, Well
    <3> QED
      BY <3>1, FS_Subset
  <2>3. pending' = line
    <3>1. Len(line) = 0
      BY <1>4
    <3>2. /\ Cardinality(inFlight) \in Nat /\ Cardinality(Kept(now)) \in Nat
          /\ Len(pending) \in Nat
      BY <1>2, <1>3, FS_CardinalityType DEF IInv, Sound, Well
    <3>3. Len(pending) = 0
      BY <1>2, <2>2, <3>1, <3>2
    <3> QED
      BY <1>3, <1>4, <2>1, <3>3
  <2> HIDE DEF now, line, dead
  <2>4. /\ Sound(pending', inFlight', nextId', ended')
        /\ Len(pending') + Cardinality(inFlight') \in Nat
        /\ Len(pending') + Cardinality(inFlight') <= Len(pending) + Cardinality(inFlight)
        /\ Bodies(pending', inFlight') = (1..published) \ acked'
        /\ acked' \subseteq 1..published /\ given' \in [Consumers -> SUBSET Ids]
    BY <1>1, <1>2, <1>3, <2>1, <2>3
  <2> QED
    BY <1>1, <2>4, CallIInv
<1>5. CASE line # <<>>
  <2> DEFINE r == [id |-> Head(line).id, body |-> Head(line).body,
                   deliveries |-> Head(line).deliveries + 1, deadline |-> now + Lease]
  <2>1. /\ pending' = Tail(line) /\ inFlight' = Kept(now) \cup {r}
        /\ given' = [given EXCEPT ![c] = @ \cup {Head(line).id}]
    BY <1>5 DEF Receive
  <2>2. now + Lease \in Nat
    BY <1>2, QueueAssumption
  <2>3. Head(line).id \in Ids
    <3>1. line \in Seq(QueuedMessage)
      BY <1>2 DEF Sound, Well
    <3> HIDE DEF line
    <3>2. Head(line) \in QueuedMessage
      BY <1>5, <3>1, HeadTailProperties
    <3> QED
      BY <3>2 DEF QueuedMessage
  <2>4. given' \in [Consumers -> SUBSET Ids]
    BY <1>3, <2>1, <2>3
  <2>5. /\ Sound(Tail(line), Kept(now) \cup {r}, nextId', dead)
        /\ Bodies(Tail(line), Kept(now) \cup {r}) = Bodies(line, Kept(now))
        /\ Len(Tail(line)) + Cardinality(Kept(now) \cup {r}) = Len(line) + Cardinality(Kept(now))
    <3> HIDE DEF now, line, dead
    <3> QED
      BY <1>2, <1>5, <2>2, LeaseSound
  <2> HIDE DEF now, line, dead, r
  <2>6. /\ Sound(pending', inFlight', nextId', ended')
        /\ Bodies(pending', inFlight') = (1..published) \ acked'
        /\ acked' \subseteq 1..published
    BY <1>1, <1>2, <1>3, <2>1, <2>5
  <2> DEFINE k == Len(pending) + Cardinality(inFlight)
             kk == Len(pending') + Cardinality(inFlight')
  <2>7. k \in Nat /\ kk = k
    BY <1>2, <2>1, <2>5
  <2>8. kk \in Nat /\ kk <= k
    <3> HIDE DEF k, kk
    <3> QED
      BY <2>7
  <2> QED
    BY <1>1, <2>4, <2>6, <2>8, CallIInv
<1> QED
  BY <1>4, <1>5

LEMMA AcknowledgeIInv ==
    ASSUME IInv, NEW c \in Consumers, NEW id, Acknowledge(c, id) PROVE IInv'
<1> DEFINE now == reading[c]
           line == Line(now)
           dead == ended \cup ExpiredIds(now)
           mine == {f \in Kept(now) : f.id = id}
           bodies == {f.body : f \in mine}
<1>1. /\ now # NotCalling /\ Reap(c) /\ pending' = line /\ inFlight' = Kept(now) \ mine
      /\ acked' = acked \cup bodies /\ ended' = dead \cup {f.id : f \in mine}
      /\ given' = given
  BY DEF Acknowledge
<1>2. /\ nextId' \in Nat
      /\ Sound(line, Kept(now), nextId', dead)
      /\ Bodies(line, Kept(now)) = (1..published) \ acked
      /\ Len(line) + Cardinality(Kept(now)) = Len(pending) + Cardinality(inFlight)
      /\ Len(pending) + Cardinality(inFlight) \in Nat
  BY <1>1, AfterReap
<1>3. acked \subseteq 1..published /\ given \in [Consumers -> SUBSET Ids]
  BY DEF IInv, TypeOK
<1>4. mine \in SUBSET Kept(now)
  OBVIOUS
<1>5. bodies \subseteq Bodies(line, Kept(now))
  BY DEF Bodies
<1> HIDE DEF now, line, dead, mine
<1>6. /\ Sound(line, Kept(now) \ mine, nextId', dead \cup {f.id : f \in mine})
      /\ Bodies(line, Kept(now) \ mine) = Bodies(line, Kept(now)) \ bodies
      /\ Len(line) + Cardinality(Kept(now) \ mine) <= Len(line) + Cardinality(Kept(now))
      /\ Len(line) + Cardinality(Kept(now) \ mine) \in Nat
  BY <1>2, <1>4, RemoveSound
<1> HIDE DEF bodies
<1>7. /\ acked' \subseteq 1..published
      /\ Bodies(pending', inFlight') = (1..published) \ acked'
  BY <1>1, <1>2, <1>3, <1>5, <1>6
<1>8. /\ Sound(pending', inFlight', nextId', ended')
      /\ Len(pending') + Cardinality(inFlight') \in Nat
      /\ Len(pending') + Cardinality(inFlight') <= Len(pending) + Cardinality(inFlight)
  BY <1>1, <1>2, <1>6
<1> QED
  BY <1>1, <1>3, <1>7, <1>8, CallIInv

LEMMA RejectIInv ==
    ASSUME IInv, NEW c \in Consumers, NEW id, Reject(c, id) PROVE IInv'
<1> DEFINE now == reading[c]
           line == Line(now)
           dead == ended \cup ExpiredIds(now)
           kept == Kept(now)
           L == Returned(line, SetToSeq(BackOf(kept, id)))
           G == kept \ MineIn(kept, id)
<1>1. /\ now # NotCalling /\ Reap(c) /\ pending' = L /\ inFlight' = G
      /\ ended' = dead /\ given' = given /\ acked' = acked
  BY DEF Reject, BackOf, MineIn
<1>2. /\ nextId' \in Nat
      /\ Sound(line, kept, nextId', dead)
      /\ Bodies(line, kept) = (1..published) \ acked
      /\ Len(line) + Cardinality(kept) = Len(pending) + Cardinality(inFlight)
      /\ Len(pending) + Cardinality(inFlight) \in Nat
  BY <1>1, AfterReap
<1>3. acked \subseteq 1..published /\ given \in [Consumers -> SUBSET Ids]
  BY DEF IInv, TypeOK
<1> HIDE DEF now, line, dead, kept
<1>4. /\ Sound(L, G, nextId', dead)
      /\ Bodies(L, G) = Bodies(line, kept)
      /\ Len(L) + Cardinality(G) = Len(line) + Cardinality(kept)
  BY <1>2, ReturnSound
<1> HIDE DEF L, G
<1>5. /\ Sound(pending', inFlight', nextId', ended')
      /\ Len(pending') + Cardinality(inFlight') \in Nat
      /\ Len(pending') + Cardinality(inFlight') <= Len(pending) + Cardinality(inFlight)
      /\ Bodies(pending', inFlight') = (1..published) \ acked'
      /\ acked' \subseteq 1..published /\ given' \in [Consumers -> SUBSET Ids]
  BY <1>1, <1>2, <1>3, <1>4
<1> QED
  BY <1>1, <1>5, CallIInv

(* The other steps leave the queue alone. *)
LEMMA IdleIInv ==
    ASSUME IInv,
           Tick \/ (\E c \in Consumers : ReadClock(c)) \/ UNCHANGED vars
    PROVE  IInv'
<1>1. UNCHANGED <<pending, inFlight, nextId, given, published, acked, ended>>
  BY DEF Tick, ReadClock, vars, queueVars
<1>2. clock' \in 0..MaxClock
  <2>1. clock \in 0..MaxClock
    BY DEF IInv, TypeOK
  <2> QED
    BY <2>1, QueueAssumption DEF Tick, ReadClock, vars
<1>3. reading' \in [Consumers -> {NotCalling} \cup 0..MaxClock]
  BY DEF IInv, TypeOK, Tick, ReadClock, vars
<1> QED
  BY <1>1, <1>2, <1>3 DEF IInv, TypeOK

LEMMA NextIInv == IInv /\ [Next]_vars => IInv'
<1> SUFFICES ASSUME IInv, [Next]_vars PROVE IInv'
  OBVIOUS
<1>1. ASSUME NEW n \in 1..Batch, Publish(n) PROVE IInv'
  BY <1>1, PublishIInv
<1>2. ASSUME NEW c \in Consumers, Receive(c) PROVE IInv'
  BY <1>2, ReceiveIInv
<1>3. ASSUME NEW c \in Consumers, NEW id \in given[c], Acknowledge(c, id) PROVE IInv'
  BY <1>3, AcknowledgeIInv
<1>4. ASSUME NEW c \in Consumers, NEW id \in given[c], Reject(c, id) PROVE IInv'
  BY <1>4, RejectIInv
<1>5. CASE Tick \/ (\E c \in Consumers : ReadClock(c)) \/ UNCHANGED vars
  BY <1>5, IdleIInv
<1> QED
  BY <1>1, <1>2, <1>3, <1>4, <1>5 DEF Next, Call

THEOREM Invariance == Spec => []IInv
<1> QED
  BY InitIInv, NextIInv, PTL DEF Spec

-----------------------------------------------------------------------------
(* What the invariant says in the terms of the module's properties. *)

LEMMA LineSet == ASSUME NEW p, NEW S, p \in Seq(S)
                 PROVE  ToSet(p) = {p[i] : i \in 1..Len(p)}
  BY DEF ToSet

LEMMA BodiesAreLive == IInv => LiveBodies = Bodies(pending, inFlight)
<1> SUFFICES ASSUME IInv PROVE LiveBodies = Bodies(pending, inFlight)
  OBVIOUS
<1>1. ToSet(pending) = {pending[i] : i \in 1..Len(pending)}
  BY LineSet DEF IInv, TypeOK
<1> QED
  BY <1>1 DEF LiveBodies, Bodies

(* No message twice: the queue holds as many messages as it has places. *)
LEMMA BodiesCounted ==
    IInv => Cardinality(Bodies(pending, inFlight)) = Len(pending) + Cardinality(inFlight)
<1> SUFFICES ASSUME IInv
             PROVE  Cardinality(Bodies(pending, inFlight))
                      = Len(pending) + Cardinality(inFlight)
  OBVIOUS
<1> DEFINE n == Len(pending)
           P == {pending[i].body : i \in 1..n}
           Q == {f.body : f \in inFlight}
           fp == [i \in 1..n |-> pending[i].body]
           fq == [f \in inFlight |-> f.body]
<1>1. /\ n \in Nat /\ IsFiniteSet(inFlight)
      /\ \A i, j \in 1..n : i # j => pending[i].body # pending[j].body
      /\ \A f, g \in inFlight : f # g => f.body # g.body
      /\ \A i \in 1..n, f \in inFlight : pending[i].body # f.body
  BY DEF IInv, TypeOK, Sound, Well, BodiesOnce
<1>2. fp \in Bijection(1..n, P)
  <2>1. /\ fp \in [1..n -> P]
        /\ \A i, j \in 1..n : fp[i] = fp[j] => i = j
        /\ \A b \in P : \E i \in 1..n : fp[i] = b
    BY <1>1
  <2> HIDE DEF fp, P, n
  <2> QED
    BY <2>1 DEF Bijection, Injection, Surjection, IsInjective
<1>3. fq \in Bijection(inFlight, Q)
  <2>1. /\ fq \in [inFlight -> Q]
        /\ \A f, g \in inFlight : fq[f] = fq[g] => f = g
        /\ \A b \in Q : \E f \in inFlight : fq[f] = b
    BY <1>1
  <2> HIDE DEF fq, Q
  <2> QED
    BY <2>1 DEF Bijection, Injection, Surjection, IsInjective
<1> HIDE DEF n, P, Q, fp, fq
<1>4. IsFiniteSet(1..n) /\ Cardinality(1..n) = n
  BY <1>1, FS_Interval
<1>5. IsFiniteSet(P) /\ Cardinality(P) = n
  BY <1>2, <1>4, FS_Bijection DEF ExistsBijection
<1>6. IsFiniteSet(Q) /\ Cardinality(Q) = Cardinality(inFlight)
  BY <1>1, <1>3, FS_Bijection DEF ExistsBijection
<1>7. P \cap Q = {}
  BY <1>1 DEF P, Q
<1>8. Cardinality(P \cup Q) = Cardinality(P) + Cardinality(Q)
  <2>1. Cardinality(P \cup Q) = Cardinality(P) + Cardinality(Q) - Cardinality(P \cap Q)
    BY <1>5, <1>6, FS_Union
  <2>2. Cardinality(P \cap Q) = 0
    BY <1>7, FS_EmptySet
  <2>3. Cardinality(P) \in Nat /\ Cardinality(Q) \in Nat
    BY <1>5, <1>6, FS_CardinalityType
  <2> QED
    BY <2>1, <2>2, <2>3
<1>9. Bodies(pending, inFlight) = P \cup Q
  BY DEF Bodies, P, Q, n
<1> QED
  BY <1>5, <1>6, <1>8, <1>9 DEF n

(* Every variable has its type, and the depth bound holds although reaping and
   rejecting put messages back without asking for room. *)
THEOREM TypeCorrect == Spec => []TypeOK
<1>1. IInv => TypeOK
  BY DEF IInv
<1> QED
  BY <1>1, Invariance, PTL

(* NothingLostOrDoubled for every number of consumers and messages: a message
   that was published and not acknowledged is in the queue exactly once. *)
THEOREM NothingLost == Spec => []NothingLostOrDoubled
<1>1. IInv => NothingLostOrDoubled
  BY BodiesAreLive, BodiesCounted DEF IInv, NothingLostOrDoubled
<1> QED
  BY <1>1, Invariance, PTL

(* EndedIdsStayDead for every number of consumers and messages: reap_expired
   and reject never bring an ended identifier back. *)
THEOREM EndedStayDead == Spec => []EndedIdsStayDead
<1>1. IInv => EndedIdsStayDead
  <2> SUFFICES ASSUME IInv PROVE EndedIdsStayDead
    OBVIOUS
  <2>1. ToSet(pending) = {pending[i] : i \in 1..Len(pending)}
    BY LineSet DEF IInv, TypeOK
  <2>2. IdsFresh(pending, inFlight, nextId, ended)
    BY DEF IInv, Sound
  <2> QED
    BY <2>1, <2>2 DEF EndedIdsStayDead, LiveIds, IdsFresh
<1> QED
  BY <1>1, Invariance, PTL

(* RedeliveredFirst for every number of consumers and messages. *)
THEOREM HandedOutComesFirst == Spec => []RedeliveredFirst
<1>1. IInv => RedeliveredFirst
  BY DEF IInv, Sound, InOrder, RedeliveredFirst
<1> QED
  BY <1>1, Invariance, PTL
=============================================================================
