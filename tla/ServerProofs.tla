---------------------------- MODULE ServerProofs ----------------------------
(* Proofs about Server, for every set of connections and tenants, every      *)
(* ceiling and every bound.                                                  *)
EXTENDS Server, FiniteSetTheorems, TLAPS

(* A task between its spawn and its release belongs to a tenant. *)
TenantKnown == \A c \in Conns : at[c] \in Holding \cup {"spawned"} => tenant[c] \in Tenants

(* A connection that may still answer has not used up its requests. *)
RequestsLeft == \A c \in Conns : at[c] \notin {"closing", "aborted"} => served[c] < MaxRequests

(* Only a signalled server drains. *)
DrainSignalled == server # "accepting" => signalled

(* A request after the signal is the last one of its connection: the loop does
   not read another head. *)
LateIsLast == \A c \in Conns : late[c] <= 1 /\ (late[c] > 0 => signalled /\ at[c] # "head")

(* The inductive invariant. *)
IInv ==
    /\ TypeOK
    /\ TenantKnown
    /\ RequestsLeft
    /\ DrainSignalled
    /\ LateIsLast
    /\ LedgerExact
    /\ BoundHonoured

USE DEF Holding, Running, Finished

-----------------------------------------------------------------------------
LEMMA HoldersFinite ==
    ASSUME NEW t PROVE IsFiniteSet(Holders(t)) /\ Cardinality(Holders(t)) \in Nat
BY ServerAssumption, FS_Subset, FS_CardinalityType DEF Holders

(* The invariant holds initially. *)
LEMMA InitIInv == Init => IInv
<1> SUFFICES ASSUME Init PROVE IInv
  OBVIOUS
<1>1. TypeOK
  <2>1. window \in 0..GlobalBudget /\ accepted \in Nat /\ counts \in [Tenants -> Nat]
    BY ServerAssumption DEF Init
  <2>2. served \in [Conns -> 0..MaxRequests] /\ late \in [Conns -> Nat]
    BY ServerAssumption DEF Init
  <2>3. keep \in [Conns -> BOOLEAN] /\ signalled \in BOOLEAN
    BY Zenon DEF Init
  <2>4. /\ server \in {"accepting", "draining", "stopped"}
        /\ at \in [Conns -> Holding \cup Finished \cup {"spawned", "stopping"}]
        /\ tenant \in [Conns -> Tenants \cup {NoTenant}]
    BY DEF Init
  <2> QED
    BY <2>1, <2>2, <2>3, <2>4, Zenon DEF TypeOK
<1>2. TenantKnown /\ RequestsLeft /\ DrainSignalled /\ LateIsLast
  BY ServerAssumption DEF Init, TenantKnown, RequestsLeft, DrainSignalled, LateIsLast
<1>3. LedgerExact
  <2>1. \A t \in Tenants : Holders(t) = {}
    BY DEF Init, Holders
  <2> QED
    BY <2>1, FS_EmptySet, ServerAssumption DEF Init, LedgerExact
<1>4. BoundHonoured
  BY ServerAssumption DEF Init, BoundHonoured
<1> QED
  BY <1>1, <1>2, <1>3, <1>4 DEF IInv

(* A step of one task that neither takes nor gives back a slot leaves the
   ledger exact. *)
LEMMA SlotsUntouched ==
    ASSUME IInv, NEW c \in Conns, NEW s, at' = [at EXCEPT ![c] = s],
           UNCHANGED <<server, counts>>,
           \A d \in Conns : d # c => tenant'[d] = tenant[d],
           \/ at[c] \in Holding /\ s \in Holding /\ tenant'[c] = tenant[c]
           \/ at[c] \notin Holding /\ s \notin Holding
    PROVE  LedgerExact'
<1>1. \A t \in Tenants : Holders(t)' = Holders(t)
  BY DEF Holders, IInv, TypeOK
<1> QED
  BY <1>1 DEF LedgerExact, IInv

(* Moving on inside a connection keeps everything that is not about `served`,
   `keep` and `late`. *)
LEMMA MoveOn ==
    ASSUME IInv, NEW c \in Conns, NEW s \in Holding, at[c] \in Holding,
           at' = [at EXCEPT ![c] = s],
           UNCHANGED <<loopVars, ledgerVars>>,
           served' \in [Conns -> 0..MaxRequests],
           keep' \in [Conns -> BOOLEAN],
           late' \in [Conns -> Nat],
           \A d \in Conns : d # c => served'[d] = served[d] /\ late'[d] = late[d],
           s = "closing" \/ served'[c] < MaxRequests,
           late'[c] <= 1 /\ (late'[c] > 0 => signalled /\ s # "head")
    PROVE  IInv'
<1>1. TypeOK'
  BY DEF IInv, TypeOK, loopVars, ledgerVars
<1>2. TenantKnown' /\ RequestsLeft' /\ DrainSignalled' /\ LateIsLast'
  BY DEF IInv, TypeOK, TenantKnown, RequestsLeft, DrainSignalled, LateIsLast, loopVars,
     ledgerVars
<1>3. LedgerExact'
  BY SlotsUntouched DEF loopVars, ledgerVars
<1>4. BoundHonoured'
  BY DEF IInv, TypeOK, BoundHonoured, loopVars
<1> QED
  BY <1>1, <1>2, <1>3, <1>4 DEF IInv

-----------------------------------------------------------------------------
(* One lemma per group of actions. *)

(* The accept loop and the drain. *)
LEMMA LoopStep ==
    ASSUME IInv, AcceptEnds \/ Signal \/ Joined \/ DrainTimeout PROVE IInv'
<1> USE DEF loopVars, ledgerVars, connVars
<1>1. CASE AcceptEnds \/ Signal \/ Joined
  <2>1. UNCHANGED <<accepted, window, counts, tenant, at, served, keep, late>>
    BY <1>1 DEF AcceptEnds, Signal, Joined
  <2>2. /\ server' \in {"accepting", "draining", "stopped"}
        /\ signalled' \in BOOLEAN
        /\ signalled => signalled'
        /\ server' # "accepting" => signalled'
        /\ server' # "stopped" => server # "stopped"
    BY <1>1 DEF AcceptEnds, Signal, Joined, IInv, TypeOK, DrainSignalled
  <2>3. TypeOK' /\ TenantKnown' /\ RequestsLeft' /\ DrainSignalled' /\ LateIsLast'
    BY <2>1, <2>2 DEF IInv, TypeOK, TenantKnown, RequestsLeft, DrainSignalled, LateIsLast
  <2>4. LedgerExact'
    <3>1. \A t \in Tenants : Holders(t)' = Holders(t)
      BY <2>1 DEF Holders
    <3> QED
      BY <2>1, <2>2, <3>1 DEF IInv, LedgerExact
  <2>5. BoundHonoured'
    BY <2>1, <2>2 DEF IInv, BoundHonoured
  <2> QED
    BY <2>3, <2>4, <2>5 DEF IInv
<1>2. CASE DrainTimeout
  <2>1. TypeOK'
    BY <1>2 DEF DrainTimeout, IInv, TypeOK
  <2>2. TenantKnown' /\ RequestsLeft' /\ DrainSignalled' /\ LateIsLast'
    BY <1>2 DEF DrainTimeout, IInv, TypeOK, TenantKnown, RequestsLeft, DrainSignalled,
       LateIsLast
  <2>3. LedgerExact' /\ BoundHonoured'
    BY <1>2 DEF DrainTimeout, IInv, LedgerExact, BoundHonoured, DrainSignalled
  <2> QED
    BY <2>1, <2>2, <2>3 DEF IInv
<1> QED
  BY <1>1, <1>2

(* An accepted connection holds no slot yet. *)
LEMMA AcceptStep ==
    ASSUME IInv, NEW c \in Conns, NEW t \in Tenants, Accept(c, t) PROVE IInv'
<1> USE DEF Accept, GoTo, connVars
<1>1. TypeOK'
  BY DEF IInv, TypeOK
<1>2. TenantKnown' /\ RequestsLeft' /\ DrainSignalled' /\ LateIsLast'
  BY DEF IInv, TypeOK, TenantKnown, RequestsLeft, DrainSignalled, LateIsLast
<1>3. LedgerExact'
  <2>1. /\ at' = [at EXCEPT ![c] = "spawned"] /\ UNCHANGED <<server, counts>>
        /\ at[c] \notin Holding /\ "spawned" \notin Holding
        /\ \A d \in Conns : d # c => tenant'[d] = tenant[d]
    BY DEF IInv, TypeOK
  <2> QED
    BY <2>1, SlotsUntouched
<1>4. BoundHonoured'
  BY DEF IInv, TypeOK, BoundHonoured
<1> QED
  BY <1>1, <1>2, <1>3, <1>4 DEF IInv

(* A refused connection takes no slot, an admitted one takes one below the
   ceiling. *)
LEMMA AdmitStep ==
    ASSUME IInv, NEW c \in Conns, Admit(c), server # "stopped" PROVE IInv'
<1> USE DEF Admit, GoTo, Refused, loopVars, connVars
<1>0. tenant[c] \in Tenants /\ at[c] = "spawned"
  BY DEF IInv, TenantKnown
<1>1. window' \in 0..GlobalBudget
  BY ServerAssumption DEF IInv, TypeOK, GlobalAdmits, GlobalRefuses
<1>2. PICK s \in {"stopping", "handshake"} : at' = [at EXCEPT ![c] = s]
  OBVIOUS
<1>3. TypeOK'
  <2>1. counts' \in [Tenants -> Nat]
    BY <1>0 DEF IInv, TypeOK
  <2>2. at' \in [Conns -> Holding \cup Finished \cup {"spawned", "stopping"}]
    BY <1>2 DEF IInv, TypeOK
  <2> QED
    BY <1>1, <2>1, <2>2 DEF IInv, TypeOK
<1>4. TenantKnown' /\ RequestsLeft' /\ DrainSignalled' /\ LateIsLast'
  BY <1>0, <1>2 DEF IInv, TypeOK, TenantKnown, RequestsLeft, DrainSignalled, LateIsLast
<1>5. LedgerExact'
  <2>1. CASE at' = [at EXCEPT ![c] = "stopping"] /\ UNCHANGED counts
    BY <1>0, <2>1, SlotsUntouched
  <2>2. CASE /\ LedgerAdmits(tenant[c])
             /\ counts' = [counts EXCEPT ![tenant[c]] = @ + 1]
             /\ at' = [at EXCEPT ![c] = "handshake"]
    <3>1. \A t \in Tenants \ {tenant[c]} : Holders(t)' = Holders(t)
      BY <1>0, <2>2 DEF Holders, IInv, TypeOK
    <3>2. Holders(tenant[c])' = Holders(tenant[c]) \cup {c} /\ c \notin Holders(tenant[c])
      BY <1>0, <2>2 DEF Holders, IInv, TypeOK
    <3>3. Cardinality(Holders(tenant[c])') = Cardinality(Holders(tenant[c])) + 1
      BY <3>2, HoldersFinite, FS_AddElement
    <3>4. ASSUME NEW t \in Tenants
          PROVE  counts'[t] = Cardinality(Holders(t)') /\ counts'[t] <= Ceiling[t]
      <4>1. CASE t = tenant[c]
        <5>1. /\ counts[t] \in Nat /\ Ceiling[t] \in Nat /\ counts[t] < Ceiling[t]
              /\ counts[t] = Cardinality(Holders(t)) /\ counts'[t] = counts[t] + 1
          BY <1>0, <2>2, <4>1, ServerAssumption DEF LedgerAdmits, LedgerExact, IInv, TypeOK
        <5>2. Cardinality(Holders(t)') = Cardinality(Holders(t)) + 1
          BY <3>3, <4>1
        <5> QED
          BY <5>1, <5>2
      <4>2. CASE t # tenant[c]
        BY <1>0, <2>2, <3>1, <4>2 DEF LedgerExact, IInv, TypeOK
      <4> QED
        BY <4>1, <4>2
    <3> QED
      BY <3>4 DEF LedgerExact
  <2> QED
    BY <2>1, <2>2
<1>6. BoundHonoured'
  BY <1>2 DEF IInv, TypeOK, BoundHonoured
<1> QED
  BY <1>3, <1>4, <1>5, <1>6 DEF IInv

(* The steps of a task that holds its slot. *)
LEMMA ConnectionStep ==
    ASSUME IInv, NEW c \in Conns,
           \/ Handshake(c) \/ Top(c) \/ HeadFails(c) \/ Handle(c) \/ HandlerEnds(c)
           \/ SessionEnds(c)
    PROVE  IInv'
<1> USE DEF GoTo, Close, connVars
<1>1. /\ at[c] \in Holding /\ UNCHANGED <<loopVars, ledgerVars, served, keep, late>>
      /\ \E s \in Holding : at' = [at EXCEPT ![c] = s] /\ (s = "head" => ~signalled)
  BY DEF Handshake, Top, HeadFails, Handle, HandlerEnds, SessionEnds, RefuseBeforeReading,
     SpecialRoute, DrainBody
<1>2. PICK s \in Holding : at' = [at EXCEPT ![c] = s] /\ (s = "head" => ~signalled)
  BY <1>1
<1>3. /\ served' \in [Conns -> 0..MaxRequests] /\ late' \in [Conns -> Nat]
      /\ \A d \in Conns : d # c => served'[d] = served[d] /\ late'[d] = late[d]
  BY <1>1 DEF IInv, TypeOK
<1>4. keep' \in [Conns -> BOOLEAN]
  BY <1>1 DEF IInv, TypeOK
<1>5. s = "closing" \/ served'[c] < MaxRequests
  BY <1>1, <1>2 DEF IInv, RequestsLeft, Handshake, Top, HeadFails, Handle, HandlerEnds,
     SessionEnds, RefuseBeforeReading, SpecialRoute, DrainBody
<1>6. late'[c] <= 1 /\ (late'[c] > 0 => signalled /\ s # "head")
  BY <1>1, <1>2 DEF IInv, LateIsLast
<1> QED
  BY <1>1, <1>2, <1>3, <1>4, <1>5, <1>6, MoveOn

(* A head that is read after the signal is the first such head. *)
LEMMA HeadReadStep ==
    ASSUME IInv, NEW c \in Conns, NEW wants \in BOOLEAN, HeadRead(c, wants) PROVE IInv'
<1> USE DEF HeadRead, GoTo
<1>1. /\ served' \in [Conns -> 0..MaxRequests] /\ late' \in [Conns -> Nat]
      /\ \A d \in Conns : d # c => served'[d] = served[d] /\ late'[d] = late[d]
  BY DEF IInv, TypeOK
<1>2. keep' \in [Conns -> BOOLEAN]
  BY DEF IInv, TypeOK
<1>3. served'[c] < MaxRequests
  BY DEF IInv, RequestsLeft
<1>4. late'[c] <= 1 /\ (late'[c] > 0 => signalled)
  BY DEF IInv, TypeOK, LateIsLast
<1> QED
  BY <1>1, <1>2, <1>3, <1>4, MoveOn

(* A response keeps the connection only below its bound of requests. *)
LEMMA RespondStep ==
    ASSUME IInv, NEW c \in Conns, Respond(c) PROVE IInv'
<1> USE DEF Respond, GoTo, Close
<1>1. served[c] \in 0..MaxRequests /\ served[c] < MaxRequests /\ at[c] \in Holding
  BY DEF IInv, TypeOK, RequestsLeft
<1>2. /\ served' \in [Conns -> 0..MaxRequests]
      /\ \A d \in Conns : d # c => served'[d] = served[d]
  BY <1>1, ServerAssumption DEF IInv, TypeOK
<1>3. late' \in [Conns -> Nat] /\ late'[c] <= 1 /\ (late'[c] > 0 => signalled)
  BY DEF IInv, TypeOK, LateIsLast
<1>4. keep' \in [Conns -> BOOLEAN]
  BY DEF IInv, TypeOK
<1>5. PICK s \in {"top", "closing"} :
        at' = [at EXCEPT ![c] = s] /\ (s = "closing" \/ served'[c] < MaxRequests)
  BY <1>1, ServerAssumption DEF WillKeepAlive, IInv, TypeOK
<1> QED
  BY <1>1, <1>2, <1>3, <1>4, <1>5, MoveOn

(* The slot of a closing connection was counted, so that it is given back once
   and the subtraction does not saturate. *)
LEMMA ReleaseStep ==
    ASSUME IInv, NEW c \in Conns, Release(c), server # "stopped" PROVE IInv'
<1> USE DEF Release, GoTo, loopVars
<1>0. tenant[c] \in Tenants /\ at[c] = "closing" /\ at' = [at EXCEPT ![c] = "stopping"]
  BY DEF IInv, TenantKnown
<1>1. TypeOK'
  <2>1. counts' \in [Tenants -> Nat]
    BY <1>0 DEF IInv, TypeOK
  <2>2. at' \in [Conns -> Holding \cup Finished \cup {"spawned", "stopping"}]
    BY DEF IInv, TypeOK
  <2>3. served' \in [Conns -> 0..MaxRequests] /\ late' \in [Conns -> Nat]
    BY ServerAssumption DEF IInv, TypeOK
  <2>4. keep' \in [Conns -> BOOLEAN]
    BY DEF IInv, TypeOK
  <2> QED
    BY <2>1, <2>2, <2>3, <2>4 DEF IInv, TypeOK
<1>2. TenantKnown' /\ RequestsLeft' /\ DrainSignalled' /\ LateIsLast'
  BY ServerAssumption DEF IInv, TypeOK, TenantKnown, RequestsLeft, DrainSignalled, LateIsLast
<1>3. LedgerExact'
  <2>1. \A t \in Tenants \ {tenant[c]} : Holders(t)' = Holders(t)
    BY <1>0 DEF Holders, IInv, TypeOK
  <2>2. Holders(tenant[c])' = Holders(tenant[c]) \ {c} /\ c \in Holders(tenant[c])
    BY <1>0 DEF Holders, IInv, TypeOK
  <2>3. /\ Cardinality(Holders(tenant[c])') = Cardinality(Holders(tenant[c])) - 1
        /\ Cardinality(Holders(tenant[c])') \in Nat
    BY <2>2, HoldersFinite, FS_RemoveElement, FS_CardinalityType
  <2>4. ASSUME NEW t \in Tenants
        PROVE  counts'[t] = Cardinality(Holders(t)') /\ counts'[t] <= Ceiling[t]
    <3>1. CASE t = tenant[c]
      <4>1. /\ counts[t] \in Nat /\ Ceiling[t] \in Nat /\ counts[t] <= Ceiling[t]
            /\ counts[t] = Cardinality(Holders(t))
            /\ counts'[t] = IF counts[t] > 0 THEN counts[t] - 1 ELSE 0
        BY <1>0, <3>1, ServerAssumption DEF LedgerExact, IInv, TypeOK
      <4>2. /\ Cardinality(Holders(t)') = Cardinality(Holders(t)) - 1
            /\ Cardinality(Holders(t)') \in Nat
        BY <2>3, <3>1
      <4> QED
        BY <4>1, <4>2
    <3>2. CASE t # tenant[c]
      BY <1>0, <2>1, <3>2 DEF LedgerExact, IInv, TypeOK
    <3> QED
      BY <3>1, <3>2
  <2> QED
    BY <2>4 DEF LedgerExact
<1>4. BoundHonoured'
  BY <1>0 DEF IInv, TypeOK, BoundHonoured
<1> QED
  BY <1>1, <1>2, <1>3, <1>4 DEF IInv

(* The last task to end signals at the bound. *)
LEMMA StopStep ==
    ASSUME IInv, NEW c \in Conns, StopAfterTheBound(c) PROVE IInv'
<1> USE DEF StopAfterTheBound, GoTo, connVars
<1>1. TypeOK'
  BY DEF IInv, TypeOK
<1>2. TenantKnown' /\ RequestsLeft' /\ DrainSignalled' /\ LateIsLast'
  BY DEF IInv, TypeOK, TenantKnown, RequestsLeft, DrainSignalled, LateIsLast
<1>3. LedgerExact'
  <2>1. /\ at' = [at EXCEPT ![c] = "ended"] /\ UNCHANGED <<server, counts>>
        /\ at[c] \notin Holding /\ "ended" \notin Holding
        /\ \A d \in Conns : d # c => tenant'[d] = tenant[d]
    BY DEF IInv, TypeOK
  <2> QED
    BY <2>1, SlotsUntouched
<1>4. BoundHonoured'
  BY DEF IInv, TypeOK, BoundHonoured
<1> QED
  BY <1>1, <1>2, <1>3, <1>4 DEF IInv

(* Every step preserves the invariant. *)
LEMMA NextIInv == IInv /\ [Next]_vars => IInv'
<1> SUFFICES ASSUME IInv, [Next]_vars PROVE IInv'
  OBVIOUS
<1>1. ASSUME NEW c \in Conns, NEW t \in Tenants, Accept(c, t) PROVE IInv'
  BY <1>1, AcceptStep
<1>2. ASSUME NEW c \in Conns, Task(c) PROVE IInv'
  BY <1>2, AdmitStep, ConnectionStep, HeadReadStep, RespondStep, ReleaseStep, StopStep
     DEF Task
<1>3. CASE AcceptEnds \/ Signal \/ Joined \/ DrainTimeout
  BY <1>3, LoopStep
<1>4. CASE UNCHANGED vars
  <2>1. \A t \in Tenants : Holders(t)' = Holders(t)
    BY <1>4 DEF vars, Holders
  <2> QED
    BY <1>4, <2>1 DEF vars, connVars, IInv, TypeOK, TenantKnown, RequestsLeft, DrainSignalled,
       LateIsLast, LedgerExact, BoundHonoured
<1> QED
  BY <1>1, <1>2, <1>3, <1>4 DEF Next

-----------------------------------------------------------------------------
(* The inductive invariant holds throughout. *)
THEOREM Invariance == Spec => []IInv
BY InitIInv, NextIInv, PTL DEF Spec

(* The server's state keeps its types: the global bucket its budget and every
   connection its bound of requests. *)
THEOREM TypeCorrect == Spec => []TypeOK
<1>1. IInv => TypeOK
  BY DEF IInv
<1> QED
  BY <1>1, Invariance, PTL

(* The ledger of conn.rs counts exactly the connections that hold a slot, on
   every way out of a connection's task, and no tenant exceeds its ceiling. *)
THEOREM LedgerAlwaysExact == Spec => []LedgerExact
<1>1. IInv => LedgerExact
  BY DEF IInv
<1> QED
  BY <1>1, Invariance, PTL

(* Refused connections count towards the bound, and the server that reached it
   and finished its connections has been signalled (stop_after_the_bound). *)
THEOREM BoundAlwaysHonoured == Spec => []BoundHonoured
<1>1. IInv => BoundHonoured
  BY DEF IInv
<1> QED
  BY <1>1, Invariance, PTL

(* After the signal a connection reads at most one more head. *)
THEOREM AtMostOneRequestAfterSignal == Spec => []OneRequestAfterSignal
<1>1. IInv => OneRequestAfterSignal
  BY DEF IInv, LateIsLast, OneRequestAfterSignal
<1> QED
  BY <1>1, Invariance, PTL
=============================================================================
