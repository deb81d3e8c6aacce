------------------------- MODULE GenerationsProofs -------------------------
(* Proofs about Generations, for every registry size, retired limit, number  *)
(* of clients and largest revision.                                          *)
EXTENDS Generations, FiniteSetTheorems, TLAPS

(* What the bounds need: the entries and the retired list are finite. *)
FiniteOK == IsFiniteSet(retired) /\ IsFiniteSet(Entries)

(* How the revisions in the registry are ordered.  The counter is past all of
   them; an entry's requested revision is no older than the last reservation
   of its name and newer than its last removal; a token never outruns the
   last reservation. *)
RevisionOrder ==
    /\ \A n \in Names :
         /\ issued[n] <= revision
         /\ removedAt[n] <= revision
         /\ requested[n] # None => /\ requested[n] >= issued[n]
                                   /\ requested[n] > removedAt[n]
         /\ active[n] # None => active[n] > removedAt[n]
    /\ \A u \in updates : u.revision <= issued[u.name]

(* The inductive invariant. *)
IInv ==
    /\ TypeOK
    /\ FiniteOK
    /\ Bounded
    /\ LeasesAccounted
    /\ RevisionOrder

-----------------------------------------------------------------------------
(* A sweep only shrinks the retired list. *)
LEMMA RetainedSmaller ==
    ASSUME IsFiniteSet(retired)
    PROVE  /\ Retained \subseteq retired
           /\ IsFiniteSet(Retained)
           /\ Cardinality(Retained) \in Nat
           /\ Cardinality(Retained) <= Cardinality(retired)
BY FS_Subset, FS_CardinalityType DEF Retained

(* Displacing a generation while retirement is not full keeps the retired list
   finite and within its limit: the heart of publish and of remove. *)
LEMMA DisplaceBounded ==
    ASSUME NEW n \in Names, TypeOK, IsFiniteSet(retired),
           Cardinality(retired) <= RetiredLimit,
           ~RetirementFull(n), Displace(n)
    PROVE  IsFiniteSet(retired') /\ Cardinality(retired') <= RetiredLimit
<1>1. /\ IsFiniteSet(Retained)
      /\ Cardinality(Retained) \in Nat
      /\ Cardinality(Retained) <= RetiredLimit
  BY RetainedSmaller, FS_CardinalityType, BoundsAssumption
<1>2. CASE Pinned(n)
  <2>1. Cardinality(Retained) < RetiredLimit
    BY <1>1, <1>2, BoundsAssumption DEF RetirementFull
  <2>2. retired' = Retained \cup {active[n]}
    BY <1>2 DEF Displace
  <2>3. /\ IsFiniteSet(Retained \cup {active[n]})
        /\ \/ Cardinality(Retained \cup {active[n]}) = Cardinality(Retained)
           \/ Cardinality(Retained \cup {active[n]}) = Cardinality(Retained) + 1
    BY <1>1, FS_AddElement
  <2> QED
    BY <1>1, <2>1, <2>2, <2>3, BoundsAssumption
<1>3. CASE ~Pinned(n)
  BY <1>1, <1>3 DEF Displace
<1> QED
  BY <1>2, <1>3

(* Displacing the generation of a name never loses track of a lease: a leased
   one is pinned, so it moves to the retired list, and the sweep only drops
   what nobody holds. *)
LEMMA DisplaceAccounted ==
    ASSUME NEW n \in Names, TypeOK, LeasesAccounted, Displace(n), leases' = leases,
           NEW r \in {None} \cup Revisions,
           active' = [active EXCEPT ![n] = r]
    PROVE  LeasesAccounted'
<1> SUFFICES ASSUME NEW g \in Leased, g \notin retired'
             PROVE  g \in ActiveSet'
  BY DEF LeasesAccounted, Leased
<1>1. g # None /\ Held(g)
  BY DEF Leased, Held
<1>2. Retained \subseteq retired'
  BY DEF Displace
<1>3. g \notin retired
  BY <1>1, <1>2 DEF Retained
<1>4. PICK m \in Names : active[m] = g
  BY <1>3 DEF LeasesAccounted, ActiveSet
<1>5. m # n
  <2> SUFFICES ASSUME m = n PROVE FALSE
    OBVIOUS
  <2>1. Pinned(n)
    BY <1>1, <1>4 DEF Pinned
  <2> QED
    BY <2>1, <1>4 DEF Displace
<1>6. active'[m] = g
  BY <1>4, <1>5 DEF TypeOK
<1> QED
  BY <1>1, <1>6 DEF ActiveSet

(* Displacing a generation keeps the two sets of generations well typed. *)
LEMMA DisplaceTyped ==
    ASSUME NEW n \in Names, TypeOK, Displace(n)
    PROVE  retired' \in SUBSET Revisions /\ previous' \in SUBSET Revisions
<1>1. active[n] # None => active[n] \in Revisions
  BY DEF TypeOK
<1>2. Retained \in SUBSET Revisions
  BY DEF TypeOK, Retained
<1>3. Pinned(n) => active[n] # None
  BY DEF Pinned
<1> QED
  BY <1>1, <1>2, <1>3 DEF Displace, TypeOK

(* Names that have an entry stay finitely many and within the capacity when a
   call adds at most one name while there is room, or none. *)
LEMMA EntryAdded ==
    ASSUME NEW n \in Names, NEW r \in Revisions, TypeOK,
           IsFiniteSet(Entries), Cardinality(Entries) <= Capacity,
           n \in Entries \/ Cardinality(Entries) < Capacity,
           requested' = [requested EXCEPT ![n] = r]
    PROVE  IsFiniteSet(Entries') /\ Cardinality(Entries') <= Capacity
<1>1. Entries' = Entries \cup {n}
  BY DEF TypeOK, Entries, None, Revisions
<1>2. /\ IsFiniteSet(Entries \cup {n})
      /\ Cardinality(Entries) \in Nat
      /\ \/ Cardinality(Entries \cup {n}) = Cardinality(Entries)
         \/ Cardinality(Entries \cup {n}) = Cardinality(Entries) + 1
  BY FS_AddElement, FS_CardinalityType
<1>3. CASE n \in Entries
  <2>1. Entries' = Entries
    BY <1>1, <1>3
  <2> QED
    BY <2>1
<1>4. CASE Cardinality(Entries) < Capacity
  BY <1>1, <1>2, <1>4, BoundsAssumption
<1> QED
  BY <1>3, <1>4

LEMMA EntryDropped ==
    ASSUME NEW n \in Names, TypeOK,
           IsFiniteSet(Entries), Cardinality(Entries) <= Capacity,
           requested' = [requested EXCEPT ![n] = None]
    PROVE  IsFiniteSet(Entries') /\ Cardinality(Entries') <= Capacity
<1>1. Entries' \subseteq Entries
  BY DEF TypeOK, Entries
<1> QED
  BY <1>1, FS_Subset, FS_CardinalityType, BoundsAssumption

(* Leases stay accounted for when the retired list is only swept. *)
LEMMA SweepAccounted ==
    ASSUME LeasesAccounted, retired' = Retained, leases' = leases, active' = active
    PROVE  LeasesAccounted'
BY DEF LeasesAccounted, Retained, Held, Leased, ActiveSet

-----------------------------------------------------------------------------
(* The invariant holds initially ... *)
LEMMA InitIInv == Init => IInv
<1> SUFFICES ASSUME Init PROVE IInv
  OBVIOUS
<1>1. TypeOK
  BY BoundsAssumption DEF Init, TypeOK
<1>2. Entries = {} /\ retired = {}
  BY DEF Init, Entries
<1>3. FiniteOK /\ Bounded
  BY <1>2, FS_EmptySet, BoundsAssumption DEF FiniteOK, Bounded
<1>4. LeasesAccounted
  BY DEF Init, LeasesAccounted, Leased
<1>5. RevisionOrder
  BY SMT DEF Init, RevisionOrder, None
<1> QED
  BY <1>1, <1>3, <1>4, <1>5 DEF IInv

(* ... and every step preserves it. *)
LEMMA NextIInv == IInv /\ [Next]_vars => IInv'
<1> SUFFICES ASSUME IInv, [Next]_vars PROVE IInv'
  OBVIOUS
<1> USE DEF None, Revisions
<1>0. /\ TypeOK
      /\ IsFiniteSet(retired) /\ Cardinality(retired) <= RetiredLimit
      /\ IsFiniteSet(Entries) /\ Cardinality(Entries) <= Capacity
      /\ LeasesAccounted
      /\ RevisionOrder
  BY DEF IInv, FiniteOK, Bounded
<1>1. ASSUME NEW n \in Names, Reserve(n) PROVE IInv'
  <2>1. TypeOK'
    BY <1>0, <1>1, BoundsAssumption DEF Reserve, TypeOK, CanAdvance, Advance, Update
  <2>2. FiniteOK' /\ Bounded'
    <3>1. revision + 1 \in Revisions
      BY <1>0, <1>1, BoundsAssumption DEF Reserve, TypeOK, CanAdvance
    <3>2. IsFiniteSet(Entries') /\ Cardinality(Entries') <= Capacity
      BY <1>0, <1>1, <3>1, EntryAdded DEF Reserve
    <3> QED
      BY <1>0, <1>1, <3>2 DEF Reserve, FiniteOK, Bounded
  <2>3. LeasesAccounted'
    BY <1>0, <1>1 DEF Reserve, LeasesAccounted, Leased, ActiveSet
  <2>4. RevisionOrder'
    BY <1>0, <1>1 DEF Reserve, RevisionOrder, TypeOK, Advance, Update
  <2> QED
    BY <2>1, <2>2, <2>3, <2>4 DEF IInv
<1>2. ASSUME NEW n \in Names, Remove(n) PROVE IInv'
  <2>1. TypeOK'
    <3>1. retired' \in SUBSET Revisions /\ previous' \in SUBSET Revisions
      BY <1>0, <1>2, DisplaceTyped DEF Remove
    <3> QED
      BY <1>0, <1>2, <3>1, BoundsAssumption DEF Remove, TypeOK, CanAdvance, Advance
  <2>2. FiniteOK' /\ Bounded'
    BY <1>0, <1>2, DisplaceBounded, EntryDropped DEF Remove, FiniteOK, Bounded
  <2>3. LeasesAccounted'
    BY <1>0, <1>2, DisplaceAccounted DEF Remove
  <2>4. RevisionOrder'
    BY <1>0, <1>2 DEF Remove, RevisionOrder, TypeOK, Advance, Update
  <2> QED
    BY <2>1, <2>2, <2>3, <2>4 DEF IInv
<1>3. ASSUME NEW u \in updates, Publish(u) PROVE IInv'
  <2>0. u \in Update /\ u.name \in Names /\ u.revision \in Revisions
    BY <1>0 DEF TypeOK, Update
  <2>1. TypeOK'
    <3>1. retired' \in SUBSET Revisions /\ previous' \in SUBSET Revisions
      BY <1>0, <1>3, <2>0, DisplaceTyped DEF Publish
    <3> QED
      BY <1>0, <1>3, <2>0, <3>1, BoundsAssumption DEF Publish, TypeOK, CanAdvance, Advance
  <2>2. FiniteOK' /\ Bounded'
    <3>1. IsFiniteSet(retired') /\ Cardinality(retired') <= RetiredLimit
      BY <1>0, <1>3, <2>0, DisplaceBounded DEF Publish
    <3>2. Entries' = Entries
      BY <1>3 DEF Publish, Entries
    <3> QED
      BY <1>0, <3>1, <3>2 DEF FiniteOK, Bounded
  <2>3. LeasesAccounted'
    BY <1>0, <1>3, <2>0, DisplaceAccounted DEF Publish
  <2>4. RevisionOrder'
    BY <1>0, <1>3, <2>0 DEF Publish, RevisionOrder, TypeOK, Advance, Valid
  <2> QED
    BY <2>1, <2>2, <2>3, <2>4 DEF IInv
<1>4. ASSUME NEW u \in updates, PublishRefused(u) PROVE IInv'
  <2>1. TypeOK'
    BY <1>0, <1>4 DEF PublishRefused, TypeOK, Retained
  <2>2. FiniteOK' /\ Bounded'
    <3>1. IsFiniteSet(retired') /\ Cardinality(retired') <= RetiredLimit
      BY <1>0, <1>4, RetainedSmaller, FS_CardinalityType, BoundsAssumption
      DEF PublishRefused
    <3>2. Entries' = Entries
      BY <1>4 DEF PublishRefused, Entries
    <3> QED
      BY <1>0, <3>1, <3>2 DEF FiniteOK, Bounded
  <2>3. LeasesAccounted'
    <3>1. CASE retired' = Retained
      BY <1>0, <1>4, <3>1, SweepAccounted DEF PublishRefused
    <3>2. CASE retired' = retired
      BY <1>0, <1>4, <3>2 DEF PublishRefused, LeasesAccounted, Leased, ActiveSet
    <3> QED
      BY <1>4, <3>1, <3>2 DEF PublishRefused
  <2>4. RevisionOrder'
    BY <1>0, <1>4 DEF PublishRefused, RevisionOrder
  <2> QED
    BY <2>1, <2>2, <2>3, <2>4 DEF IInv
<1>5. ASSUME NEW u \in updates, Cancel(u) PROVE IInv'
  <2>0. u \in Update /\ u.name \in Names /\ u.revision \in Revisions
    BY <1>0 DEF TypeOK, Update
  <2>1. TypeOK'
    BY <1>0, <1>5, <2>0, BoundsAssumption DEF Cancel, TypeOK, CanAdvance, Advance
  <2>2. FiniteOK' /\ Bounded'
    <3>1. u.name \in Entries
      BY <1>5, <2>0 DEF Cancel, Valid, Entries
    <3>2. CASE active[u.name] = None
      <4>1. requested' = [requested EXCEPT ![u.name] = None]
        BY <1>5, <3>2 DEF Cancel
      <4> QED
        BY <1>0, <1>5, <2>0, <4>1, EntryDropped DEF Cancel, FiniteOK, Bounded
    <3>3. CASE active[u.name] # None
      <4>1. /\ requested' = [requested EXCEPT ![u.name] = revision + 1]
            /\ revision + 1 \in Revisions
        BY <1>0, <1>5, <3>3, BoundsAssumption DEF Cancel, TypeOK, CanAdvance
      <4> QED
        BY <1>0, <1>5, <2>0, <3>1, <4>1, EntryAdded DEF Cancel, FiniteOK, Bounded
    <3> QED
      BY <3>2, <3>3
  <2>3. LeasesAccounted'
    BY <1>0, <1>5 DEF Cancel, LeasesAccounted, Leased, ActiveSet
  <2>4. RevisionOrder'
    BY <1>0, <1>5, <2>0 DEF Cancel, RevisionOrder, TypeOK, Advance
  <2> QED
    BY <2>1, <2>2, <2>3, <2>4 DEF IInv
<1>6. ASSUME NEW u \in updates, Abandon(u) PROVE IInv'
  BY <1>0, <1>6
  DEF Abandon, IInv, TypeOK, FiniteOK, Bounded, Entries, LeasesAccounted, Leased,
      ActiveSet, RevisionOrder
<1>7. CASE Sweep
  <2>1. TypeOK' /\ RevisionOrder'
    BY <1>0, <1>7 DEF Sweep, TypeOK, Retained, RevisionOrder
  <2>2. FiniteOK' /\ Bounded'
    <3>1. Entries' = Entries
      BY <1>7 DEF Sweep, Entries
    <3> QED
      BY <1>0, <1>7, <3>1, RetainedSmaller, FS_CardinalityType, BoundsAssumption
      DEF Sweep, FiniteOK, Bounded
  <2>3. LeasesAccounted'
    BY <1>0, <1>7, SweepAccounted DEF Sweep
  <2> QED
    BY <2>1, <2>2, <2>3 DEF IInv
<1>8. CASE LeaseStep
  <2>0. /\ UNCHANGED <<revision, requested, active, retired, updates, issued, removedAt>>
        /\ TypeOK'
    BY <1>0, <1>8
    DEF LeaseStep, Acquire, CloneLease, DropLease, DropPrevious, TypeOK
  <2>1. FiniteOK' /\ Bounded' /\ RevisionOrder'
    BY <1>0, <2>0 DEF FiniteOK, Bounded, Entries, RevisionOrder
  <2>2. LeasesAccounted'
    <3>1. Leased' \subseteq Leased \cup ActiveSet
      BY <1>0, <1>8
      DEF LeaseStep, Acquire, CloneLease, DropLease, DropPrevious, Leased,
          ActiveSet, TypeOK
    <3> QED
      BY <1>0, <2>0, <3>1 DEF LeasesAccounted, ActiveSet
  <2> QED
    BY <2>0, <2>1, <2>2 DEF IInv
<1>9. CASE UNCHANGED vars
  BY <1>0, <1>9
  DEF vars, IInv, TypeOK, FiniteOK, Bounded, Entries, LeasesAccounted, Leased,
      ActiveSet, RevisionOrder
<1> QED
  BY <1>1, <1>2, <1>3, <1>4, <1>5, <1>6, <1>7, <1>8, <1>9 DEF Next, RegistryStep

(* The invariant is one of the specification. *)
THEOREM Invariance == Spec => []IInv
BY InitIInv, NextIInv, PTL DEF Spec

(* Type correctness of the registry. *)
THEOREM TypeCorrect == Spec => []TypeOK
<1>1. IInv => TypeOK
  BY DEF IInv
<1> QED
  BY Invariance, <1>1, PTL

(* No leased generation escapes draining(), for any number of clients. *)
THEOREM LeasesAlwaysAccounted == Spec => []LeasesAccounted
<1>1. IInv => LeasesAccounted
  BY DEF IInv
<1> QED
  BY Invariance, <1>1, PTL

(* capacity and retired_limit are never exceeded. *)
THEOREM RegistryBounded == Spec => []Bounded
<1>1. IInv => Bounded
  BY DEF IInv
<1> QED
  BY Invariance, <1>1, PTL

(* A removal invalidates every reservation made before it. *)
THEOREM RemovalAlwaysWins == Spec => []RemovalWins
<1>1. IInv => RemovalWins
  BY DEF IInv, RevisionOrder, RemovalWins, Valid, TypeOK, Update, None, Revisions
<1> QED
  BY Invariance, <1>1, PTL

(* Only the latest reservation of a name activates. *)
THEOREM LatestAlwaysWins == Spec => LatestWins
<1> DEFINE Activates == \A n \in Names :
              active'[n] \notin {None, active[n]} => active'[n] = issued[n]
<1>1. IInv /\ [Next]_vars => [Activates]_vars
  <2> SUFFICES ASSUME IInv, Next, NEW n \in Names,
                      active'[n] \notin {None, active[n]}
               PROVE  active'[n] = issued[n]
    OBVIOUS
  <2> USE DEF None, Revisions
  <2>0. TypeOK /\ RevisionOrder
    BY DEF IInv
  <2>1. PICK u \in updates : Publish(u)
    BY <2>0
    DEF Next, RegistryStep, LeaseStep, Reserve, Remove, PublishRefused, Cancel,
        Abandon, Sweep, Acquire, CloneLease, DropLease, DropPrevious, TypeOK
  <2>2. u.name = n /\ active'[n] = u.revision
    BY <2>0, <2>1 DEF Publish, TypeOK
  <2> QED
    BY <2>0, <2>1, <2>2 DEF Publish, Valid, RevisionOrder, TypeOK, Update
<1> QED
  BY Invariance, <1>1, PTL DEF Spec, LatestWins

(* Nothing but remove takes a serving component out of service. *)
THEOREM ServiceContinues == Spec => OnlyRemoveStopsService
<1> DEFINE Stops == \A n \in Names :
              active[n] # None /\ active'[n] = None => removedAt'[n] # removedAt[n]
<1>1. IInv /\ [Next]_vars => [Stops]_vars
  <2> SUFFICES ASSUME IInv, Next, NEW n \in Names,
                      active[n] # None, active'[n] = None
               PROVE  removedAt'[n] # removedAt[n]
    OBVIOUS
  <2> USE DEF None, Revisions
  <2>0. TypeOK /\ RevisionOrder
    BY DEF IInv
  <2>1. PICK m \in Names : Remove(m)
    BY <2>0
    DEF Next, RegistryStep, LeaseStep, Reserve, Publish, PublishRefused, Cancel,
        Abandon, Sweep, Acquire, CloneLease, DropLease, DropPrevious, TypeOK, Update
  <2>2. m = n
    BY <2>0, <2>1 DEF Remove, TypeOK
  <2> QED
    BY <2>0, <2>1, <2>2 DEF Remove, RevisionOrder, TypeOK
<1> QED
  BY Invariance, <1>1, PTL DEF Spec, OnlyRemoveStopsService
=============================================================================
