---------------------------- MODULE Generations ----------------------------
(***************************************************************************)
(* The component registry of crates/qqq-run/src/generations.rs: versioned   *)
(* ownership of component code for live replacement.                       *)
(*                                                                         *)
(* One mutex guards the revision counter, the entries and the list of      *)
(* retired generations, so every registry call is one action here.  What   *)
(* happens outside the mutex is a step of its own: a lease (an Arc clone)  *)
(* is cloned and dropped at any time, a preparation runs between reserve   *)
(* and publish, and the generation that publish or remove displaced stays  *)
(* alive in the local `previous` until it is dropped after the unlock.     *)
(*                                                                         *)
(* A generation is identified by its revision: the revision of the         *)
(* reservation it was published under, which no other generation shares.   *)
(* The digest and the value it carries are never looked at here.           *)
(***************************************************************************)
EXTENDS Integers, FiniteSets

CONSTANTS
    Names,         \* component names (1..256 bytes, so reserve accepts them)
    Clients,       \* threads and sessions that hold leases
    Capacity,      \* Registry::capacity, the most entries
    RetiredLimit,  \* Registry::retired_limit, the most retired generations
    MaxRevision    \* the largest value of the counter (u64::MAX in the code)

ASSUME BoundsAssumption ==
    /\ Capacity \in Nat
    /\ RetiredLimit \in Nat
    /\ MaxRevision \in Nat

VARIABLES
    revision,   \* State::revision
    requested,  \* Entry::requested per name, None when there is no entry
    active,     \* Entry::active per name, None when there is no generation
    retired,    \* State::retired, the generations behind the weak pointers
    updates,    \* the Update tokens callers hold
    leases,     \* the Arc<Generation> each client holds, None when it has none
    previous,   \* displaced generations a publish or remove has yet to drop
    issued,     \* history: the last revision reserved for a name
    removedAt   \* history: the revision at which a name was last removed

vars == <<revision, requested, active, retired, updates, leases, previous,
          issued, removedAt>>

None == 0
Revisions == 1..MaxRevision
Update == [name : Names, revision : Revisions]

TypeOK ==
    /\ revision \in 0..MaxRevision
    /\ requested \in [Names -> {None} \cup Revisions]
    /\ active \in [Names -> {None} \cup Revisions]
    /\ retired \in SUBSET Revisions
    /\ updates \in SUBSET Update
    /\ leases \in [Clients -> {None} \cup Revisions]
    /\ previous \in SUBSET Revisions
    /\ issued \in [Names -> {None} \cup Revisions]
    /\ removedAt \in [Names -> {None} \cup Revisions]

-----------------------------------------------------------------------------
(* Registry::new: an empty registry at revision 0. *)
Init ==
    /\ revision = 0
    /\ requested = [n \in Names |-> None]
    /\ active = [n \in Names |-> None]
    /\ retired = {}
    /\ updates = {}
    /\ leases = [c \in Clients |-> None]
    /\ previous = {}
    /\ issued = [n \in Names |-> None]
    /\ removedAt = [n \in Names |-> None]

Entries == {n \in Names : requested[n] # None}
Leased == {leases[c] : c \in Clients} \ {None}

(* A strong reference other than the one an entry holds. *)
Held(g) == g \in Leased \cup previous

(* state.retired.retain(|g| g.strong_count() != 0) *)
Retained == {g \in retired : Held(g)}

(* Arc::strong_count of the active generation is above the entry's own one. *)
Pinned(n) == active[n] # None /\ Held(active[n])

(* Faulty form of CanAdvance: no room is left for the value after the last. *)
CanAdvanceUnchecked == revision <= MaxRevision

(* checked_add: the call is refused once the counter is at its maximum. *)
CanAdvance == revision < MaxRevision
Advance == revision' = revision + 1

(* Faulty form of Valid: any token not newer than the entry's is accepted. *)
ValidIfNotNewer(u) == u.revision <= requested[u.name]

(* validate: the entry exists and the token is its latest reservation. *)
Valid(u) == requested[u.name] = u.revision

(* Faulty form of Displace: the weak pointer is not kept. *)
DisplaceUntracked(n) ==
    /\ previous' = IF active[n] = None THEN previous ELSE previous \cup {active[n]}
    /\ retired' = Retained

(* Put the name's active generation out of service: `previous` owns it until
   the unlock, and a weak pointer to it is retired when somebody leases it. *)
Displace(n) ==
    /\ previous' = IF active[n] = None THEN previous ELSE previous \cup {active[n]}
    /\ retired' = IF Pinned(n) THEN Retained \cup {active[n]} ELSE Retained

(* Faulty form of RetirementFull: the limit is tested one too late. *)
RetirementOverfull(n) == Pinned(n) /\ Cardinality(Retained) > RetiredLimit

RetirementFull(n) == Pinned(n) /\ Cardinality(Retained) >= RetiredLimit

-----------------------------------------------------------------------------
(* reserve.  A refusal (full registry, exhausted counter) changes nothing. *)
Reserve(n) ==
    /\ n \in Entries \/ Cardinality(Entries) < Capacity
    /\ CanAdvance
    /\ Advance
    /\ requested' = [requested EXCEPT ![n] = revision + 1]
    /\ updates' = updates \cup {[name |-> n, revision |-> revision + 1]}
    /\ issued' = [issued EXCEPT ![n] = revision + 1]
    /\ UNCHANGED <<active, retired, leases, previous, removedAt>>

(* publish, successful: the new generation carries the token's revision. *)
Publish(u) ==
    /\ u \in updates
    /\ Valid(u)
    /\ ~RetirementFull(u.name)
    /\ CanAdvance
    /\ Advance
    /\ Displace(u.name)
    /\ active' = [active EXCEPT ![u.name] = u.revision]
    /\ updates' = updates \ {u}
    /\ UNCHANGED <<requested, leases, issued, removedAt>>

(* publish, refused: the token is consumed all the same.  A stale token is
   refused before the retired list is swept, the others after it. *)
PublishRefused(u) ==
    /\ u \in updates
    /\ \/ /\ ~Valid(u)
          /\ UNCHANGED retired
       \/ /\ Valid(u)
          /\ RetirementFull(u.name) \/ ~CanAdvance
          /\ retired' = Retained
    /\ updates' = updates \ {u}
    /\ UNCHANGED <<revision, requested, active, leases, previous, issued, removedAt>>

(* Faulty form of Cancel: the entry is dropped with its active generation. *)
CancelEntry(u) ==
    /\ u \in updates
    /\ Valid(u)
    /\ requested' = [requested EXCEPT ![u.name] = None]
    /\ active' = [active EXCEPT ![u.name] = None]
    /\ updates' = updates \ {u}
    /\ UNCHANGED <<revision, retired, leases, previous, issued, removedAt>>

(* cancel of a valid token: a name that never became active gives its entry
   back, an active one moves its requested revision past every token. *)
Cancel(u) ==
    /\ u \in updates
    /\ Valid(u)
    /\ \/ /\ active[u.name] = None
          /\ requested' = [requested EXCEPT ![u.name] = None]
          /\ UNCHANGED revision
       \/ /\ active[u.name] # None
          /\ CanAdvance
          /\ Advance
          /\ requested' = [requested EXCEPT ![u.name] = revision + 1]
    /\ updates' = updates \ {u}
    /\ UNCHANGED <<active, retired, leases, previous, issued, removedAt>>

(* A token that is dropped (its preparation failed without a cancel), and a
   cancel that is refused: the token is gone and the entry stays as it is. *)
Abandon(u) ==
    /\ u \in updates
    /\ updates' = updates \ {u}
    /\ UNCHANGED <<revision, requested, active, retired, leases, previous,
                   issued, removedAt>>

(* acquire: an Arc clone of the active generation, taken under the lock. *)
Acquire(c, n) ==
    /\ leases[c] = None
    /\ active[n] # None
    /\ leases' = [leases EXCEPT ![c] = active[n]]
    /\ UNCHANGED <<revision, requested, active, retired, updates, previous,
                   issued, removedAt>>

(* A lease is an Arc: its holder may clone it for another client and drop it,
   both without the registry's lock. *)
CloneLease(c, d) ==
    /\ leases[c] # None
    /\ leases[d] = None
    /\ leases' = [leases EXCEPT ![d] = leases[c]]
    /\ UNCHANGED <<revision, requested, active, retired, updates, previous,
                   issued, removedAt>>

DropLease(c) ==
    /\ leases[c] # None
    /\ leases' = [leases EXCEPT ![c] = None]
    /\ UNCHANGED <<revision, requested, active, retired, updates, previous,
                   issued, removedAt>>

(* The end of publish and of remove: `previous` goes out of scope. *)
DropPrevious(g) ==
    /\ g \in previous
    /\ previous' = previous \ {g}
    /\ UNCHANGED <<revision, requested, active, retired, updates, leases,
                   issued, removedAt>>

(* remove, of a present or an absent name: the counter advances either way. *)
Remove(n) ==
    /\ ~RetirementFull(n)
    /\ CanAdvance
    /\ Advance
    /\ Displace(n)
    /\ requested' = [requested EXCEPT ![n] = None]
    /\ active' = [active EXCEPT ![n] = None]
    /\ removedAt' = [removedAt EXCEPT ![n] = revision + 1]
    /\ UNCHANGED <<updates, leases, issued>>

(* draining, and a remove that is refused after its sweep: both only sweep. *)
Sweep ==
    /\ retired' = Retained
    /\ UNCHANGED <<revision, requested, active, updates, leases, previous,
                   issued, removedAt>>

RegistryStep ==
    \/ \E n \in Names : Reserve(n) \/ Remove(n)
    \/ \E u \in updates : Publish(u) \/ PublishRefused(u) \/ Cancel(u) \/ Abandon(u)
    \/ Sweep

LeaseStep ==
    \/ \E c \in Clients, n \in Names : Acquire(c, n)
    \/ \E c \in Clients, d \in Clients : CloneLease(c, d)
    \/ \E c \in Clients : DropLease(c)
    \/ \E g \in previous : DropPrevious(g)

Next == RegistryStep \/ LeaseStep

Spec == Init /\ [][Next]_vars

-----------------------------------------------------------------------------
(* Properties. *)

ActiveSet == {active[n] : n \in Names} \ {None}

(* Every generation somebody still leases is in service or on the retired
   list: draining() never overlooks running code, whatever the order of
   leases taken, cloned and dropped around publish, remove and their sweeps. *)
LeasesAccounted == Leased \subseteq ActiveSet \cup retired

(* The two limits of Registry::new hold in every reachable state: a pinned
   generation is never retired past retired_limit, nor a name added past
   capacity. *)
Bounded ==
    /\ Cardinality(retired) <= RetiredLimit
    /\ Cardinality(Entries) <= Capacity

(* remove invalidates the preparations that were outstanding: what serves a
   name, or could be published for it now, was reserved after its last
   removal, even when the name was reserved again in between. *)
RemovalWins ==
    /\ \A n \in Names : active[n] # None => active[n] > removedAt[n]
    /\ \A u \in updates : Valid(u) => u.revision > removedAt[u.name]

(* Only the latest reservation of a name activates: publications that finish
   out of order never roll a component back. *)
LatestWins ==
    [][\A n \in Names :
         active'[n] \notin {None, active[n]} => active'[n] = issued[n]]_vars

(* A failed, stale, cancelled or abandoned update never takes a serving
   component out of service: only remove does. *)
OnlyRemoveStopsService ==
    [][\A n \in Names :
         active[n] # None /\ active'[n] = None => removedAt'[n] # removedAt[n]]_vars
=============================================================================
