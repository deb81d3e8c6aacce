--------------------------- MODULE DevReloadProofs ---------------------------
(***************************************************************************)
(* Proofs about LiveApp and DevReload: the live app's registry keeps what  *)
(* Generations promises and no preparation leaves a reservation behind; a  *)
(* reload never activates a mixture of two source trees nor acts under a   *)
(* policy that has changed.  They hold for any number of coordinators,     *)
(* requests, sources and saves.                                            *)
(***************************************************************************)
EXTENDS DevReload, GenerationsProofs

(* The preparation mutex is held exactly by the coordinator that is inside
   replace_checked. *)
MutexHeld ==
    /\ \A w \in Coordinators : step[w] # "idle" => preparing = w
    /\ preparing # NoOne => step[preparing] # "idle"

(* A reservation without an active generation belongs to the preparation in
   progress, which still has the token to publish or cancel it. *)
ReservationOwned ==
    CanAdvance /\ requested[App] # None /\ active[App] = None =>
        /\ preparing # NoOne
        /\ step[preparing] \in {"reserved", "ready"}
        /\ token[preparing] = requested[App]

(* The inductive invariant of the live app, beside that of its registry. *)
LiveInv ==
    /\ LiveTypeOK
    /\ MutexHeld
    /\ ReservationOwned

-----------------------------------------------------------------------------
(* What the inductive invariant of `qqqai dev` says. *)

(* A baseline is older than the snapshot being taken, and what was read is no
   newer than the file. *)
ReadsBehindDisk ==
    /\ \A f \in Files : snapshot[f] <= scan[f] /\ scan[f] <= disk[f]
    /\ \A f \in Sources : built[f] <= disk[f]
    /\ SourcesOf(disk) \in trees

(* What the build has read is no older than the baseline, and what the verifying
   snapshot has read is no older than the build. *)
BuildAfterBaseline ==
    /\ phase \in {"build", "verify"} =>
         \A f \in Sources : (phase = "build" /\ f \in todo) \/ snapshot[f] <= built[f]
    /\ phase = "verify" => \A f \in Sources \ todo : built[f] <= scan[f]

(* The tree on disk when the build began lies between the baseline and all that
   the verifying snapshot has read. *)
TreeBetween ==
    phase \in {"build", "verify"} =>
        \E t \in trees : \A f \in Sources :
            /\ snapshot[f] <= t[f] /\ t[f] <= disk[f]
            /\ phase = "verify" /\ f \notin todo => t[f] <= scan[f]

(* A candidate past its verification was built from one tree, and so was every
   activated one. *)
CandidateWhole ==
    /\ phase \in {"replace", "check"} => built \in trees
    /\ phase = "initial" => active[App] = 1
    /\ NoMixedBuild

Cycle == {"build", "verify", "replace", "check"}

(* A cycle runs only without a restart barrier and with nothing pending; the
   replacement passes its check only in the phase of that name. *)
CycleClean ==
    /\ phase \in Cycle => ~restartRequired /\ pending = {}
    /\ step[Watcher] \in {"ready", "published"} => phase = "replace"

(* Once the manifest was saved, each phase still has the evidence ahead of it
   that will keep the cycle from activating. *)
BarrierHolds ==
    barred =>
        /\ phase # "initial"
        /\ phase = "baseline" => Manifest \notin todo /\ scan[Manifest] < disk[Manifest]
        /\ phase \in {"poll"} \cup Cycle =>
              restartRequired \/ Manifest \in pending \/ snapshot[Manifest] < disk[Manifest]
        /\ phase = "check" /\ Manifest \notin todo => scan[Manifest] # snapshot[Manifest]
        /\ step[Watcher] \notin {"ready", "published"}

(* The inductive invariant of `qqqai dev`. *)
DevInv ==
    /\ DevTypeOK
    /\ ReadsBehindDisk
    /\ BuildAfterBaseline
    /\ TreeBetween
    /\ CandidateWhole
    /\ CycleClean
    /\ BarrierHolds

-----------------------------------------------------------------------------
(* The live app is a use of its registry: each of its steps is one of the
   registry or leaves it alone.  Nothing here uses what DevReload assumes. *)
LEMMA LiveStepIsRegistryStep == LiveNext => [Next]_vars
<1> SUFFICES ASSUME LiveNext PROVE [Next]_vars
  OBVIOUS
<1>0. App \in Names /\ Coordinators \subseteq Clients /\ Requests \subseteq Clients
  BY LiveAssumption DEF Requests
<1>1. ASSUME NEW w \in Coordinators, Replace(w) PROVE [Next]_vars
  <2>1. CASE ReplaceTryLock(w)
    BY <2>1 DEF ReplaceTryLock
  <2>2. CASE ReplaceAcquire(w)
    BY <1>0, <2>2 DEF ReplaceAcquire, Next, LeaseStep
  <2>3. CASE ReplaceReserve(w)
    BY <1>0, <2>3 DEF ReplaceReserve, Next, LeaseStep, RegistryStep
  <2>4. CASE ReplaceRejected(w)
    <3>1. Cancel(TokenOf(w)) \/ Abandon(TokenOf(w))
      BY <2>4 DEF ReplaceRejected
    <3>2. TokenOf(w) \in updates
      BY <3>1 DEF Cancel, Abandon
    <3> QED
      BY <3>1, <3>2 DEF Next, RegistryStep
  <2>5. CASE ReplaceFailed(w)
    BY <1>0, <2>5 DEF ReplaceFailed, Next, LeaseStep
  <2>6. CASE ReplaceReady(w)
    BY <1>0, <2>6 DEF ReplaceReady, Next, LeaseStep
  <2>7. CASE ReplacePublish(w)
    <3>1. Publish(TokenOf(w)) \/ PublishRefused(TokenOf(w))
      BY <2>7 DEF ReplacePublish
    <3>2. TokenOf(w) \in updates
      BY <3>1 DEF Publish, PublishRefused
    <3> QED
      BY <3>1, <3>2 DEF Next, RegistryStep
  <2>8. CASE ReplaceDone(w)
    <3>1. UNCHANGED vars \/ DropPrevious(displaced[w])
      BY <2>8 DEF ReplaceDone
    <3>2. DropPrevious(displaced[w]) => displaced[w] \in previous
      BY DEF DropPrevious
    <3> QED
      BY <3>1, <3>2 DEF Next, LeaseStep
  <2> QED
    BY <1>1, <2>1, <2>2, <2>3, <2>4, <2>5, <2>6, <2>7, <2>8 DEF Replace
<1>2. ASSUME NEW c \in Requests, AnswerBegin(c) \/ AnswerEnd(c) PROVE [Next]_vars
  BY <1>0, <1>2 DEF AnswerBegin, AnswerEnd, Next, LeaseStep
<1>3. CASE RemoveApp
  BY <1>0, <1>3 DEF RemoveApp, Next, RegistryStep
<1>4. ASSUME NEW g \in previous, RemoveReturns(g) PROVE [Next]_vars
  BY <1>4 DEF RemoveReturns, Next, LeaseStep
<1>5. CASE Draining
  BY <1>5 DEF Draining, Next, RegistryStep
<1> QED
  BY <1>1, <1>2, <1>3, <1>4, <1>5 DEF LiveNext

(* LiveApp::new leaves the registry in a state its invariant allows. *)
LEMMA LiveInitRegistry == LiveInit => IInv
<1> SUFFICES ASSUME LiveInit PROVE IInv
  OBVIOUS
<1> USE DEF None, Revisions
<1>0. MaxRevision >= 2 /\ Capacity >= 1 /\ Names = {App}
  BY LiveAssumption
<1>1. TypeOK
  BY <1>0, BoundsAssumption DEF LiveInit, TypeOK
<1>2. Entries = {App} /\ retired = {}
  BY <1>0 DEF LiveInit, Entries
<1>3. FiniteOK /\ Bounded
  BY <1>0, <1>2, FS_EmptySet, FS_Singleton, BoundsAssumption DEF FiniteOK, Bounded
<1>4. LeasesAccounted
  BY DEF LiveInit, LeasesAccounted, Leased
<1>5. RevisionOrder
  BY DEF LiveInit, RevisionOrder
<1> QED
  BY <1>1, <1>3, <1>4, <1>5 DEF IInv

(* Draining finds every generation the app still runs, its limits hold and a
   removal wins, in the composition with coordinators and requests too. *)
THEOREM LiveKeepsRegistry == LiveSpec => [](LeasesAccounted /\ Bounded /\ RemovalWins)
<1>1. IInv => LeasesAccounted /\ Bounded /\ RemovalWins
  BY DEF IInv, RevisionOrder, RemovalWins, Valid, TypeOK, Update, None, Revisions
<1>2. IInv /\ [LiveNext]_allVars => IInv'
  <2> SUFFICES ASSUME IInv, [LiveNext]_allVars PROVE IInv'
    OBVIOUS
  <2>1. [Next]_vars
    BY LiveStepIsRegistryStep DEF allVars
  <2> QED
    BY <2>1, NextIInv
<1> QED
  BY LiveInitRegistry, <1>1, <1>2, PTL DEF LiveSpec

-----------------------------------------------------------------------------
(* The reservation stays owned when the registry's entry, the counter's room
   and the preparation's place are as they were. *)
LEMMA OwnedKept ==
    ASSUME ReservationOwned, UNCHANGED <<revision, requested, active, preparing, token>>,
           preparing # NoOne => step'[preparing] \in {"reserved", "ready"}
                                  \/ step'[preparing] = step[preparing]
    PROVE  ReservationOwned'
BY DEF ReservationOwned, CanAdvance

(* Every step of a coordinator keeps the invariant. *)
LEMMA ReplaceLiveInv ==
    ASSUME LiveInv, TypeOK', NEW w \in Coordinators, Replace(w)
    PROVE  LiveInv'
<1> USE DEF None, Revisions, GoTo, Return
<1>0. /\ TypeOK
      /\ step \in [Coordinators -> Steps]
      /\ token \in [Coordinators -> {None} \cup Revisions]
      /\ displaced \in [Coordinators -> {None} \cup Revisions]
      /\ preparing \in Coordinators \cup {NoOne}
      /\ NoOne \notin Coordinators
      /\ App \in Names
      /\ MutexHeld /\ ReservationOwned
  BY LiveAssumption DEF LiveInv, LiveTypeOK
<1>1. CASE ReplaceTryLock(w)
  <2>1. LiveTypeOK' /\ MutexHeld'
    BY <1>0, <1>1 DEF ReplaceTryLock, LiveTypeOK, MutexHeld, Steps
  <2>2. ReservationOwned'
    BY <1>0, <1>1 DEF ReplaceTryLock, ReservationOwned, CanAdvance, vars
  <2> QED
    BY <2>1, <2>2 DEF LiveInv
<1>2. CASE ReplaceAcquire(w)
  <2>0. preparing = w /\ UNCHANGED <<revision, requested, active, token, displaced>>
    BY <1>0, <1>2 DEF ReplaceAcquire, Acquire, MutexHeld, vars
  <2>1. LiveTypeOK' /\ MutexHeld'
    BY <1>0, <1>2, <2>0 DEF ReplaceAcquire, LiveTypeOK, MutexHeld, Steps
  <2>2. ReservationOwned'
    BY <1>0, <1>2, <2>0 DEF ReplaceAcquire, ReservationOwned, CanAdvance
  <2> QED
    BY <2>1, <2>2 DEF LiveInv
<1>3. CASE ReplaceReserve(w)
  <2>0. preparing = w /\ UNCHANGED <<active, displaced>>
    BY <1>0, <1>3 DEF ReplaceReserve, Reserve, DropLease, MutexHeld
  <2>1. CASE Reserve(App) /\ token' = [token EXCEPT ![w] = revision + 1]
               /\ GoTo(w, "reserved") /\ UNCHANGED preparing
    <3>1. revision + 1 \in Revisions /\ requested'[App] = revision + 1
      BY <1>0, <2>1, BoundsAssumption DEF Reserve, CanAdvance, TypeOK
    <3>2. LiveTypeOK' /\ MutexHeld'
      BY <1>0, <2>0, <2>1, <3>1 DEF LiveTypeOK, MutexHeld, Steps
    <3>3. ReservationOwned'
      BY <1>0, <2>0, <2>1, <3>1 DEF ReservationOwned
    <3> QED
      BY <3>2, <3>3 DEF LiveInv
  <2>2. CASE ~CanAdvance /\ DropLease(w) /\ Return(w) /\ UNCHANGED token
    <3>1. LiveTypeOK' /\ MutexHeld'
      BY <1>0, <2>0, <2>2 DEF LiveTypeOK, MutexHeld, Steps
    <3>2. ReservationOwned'
      BY <2>2 DEF ReservationOwned, CanAdvance, DropLease
    <3> QED
      BY <3>1, <3>2 DEF LiveInv
  <2> QED
    BY <1>3, <2>1, <2>2 DEF ReplaceReserve
<1>4. CASE ReplaceRejected(w)
  <2>0. preparing = w /\ UNCHANGED <<active, displaced, preparing>>
    BY <1>0, <1>4 DEF ReplaceRejected, Cancel, Abandon, MutexHeld
  <2>1. LiveTypeOK' /\ MutexHeld'
    BY <1>0, <1>4, <2>0 DEF ReplaceRejected, LiveTypeOK, MutexHeld, Steps
  <2>2. ReservationOwned'
    <3>0. TokenOf(w).name = App /\ TokenOf(w).revision = token[w]
      BY DEF TokenOf
    <3>1. CASE Cancel(TokenOf(w))
      BY <1>0, <2>0, <3>0, <3>1 DEF Cancel, ReservationOwned, TypeOK
    <3>2. CASE /\ ~Valid(TokenOf(w)) \/ (active[App] # None /\ ~CanAdvance)
               /\ Abandon(TokenOf(w))
      BY <1>0, <2>0, <3>0, <3>2 DEF Abandon, Valid, ReservationOwned, CanAdvance
    <3> QED
      BY <1>4, <3>1, <3>2 DEF ReplaceRejected
  <2> QED
    BY <2>1, <2>2 DEF LiveInv
<1>5. CASE ReplaceFailed(w)
  <2>0. preparing = w /\ UNCHANGED <<revision, requested, active, token, displaced>>
    BY <1>0, <1>5 DEF ReplaceFailed, DropLease, MutexHeld
  <2>1. LiveTypeOK' /\ MutexHeld'
    BY <1>0, <1>5, <2>0 DEF ReplaceFailed, LiveTypeOK, MutexHeld, Steps
  <2>2. ReservationOwned'
    BY <1>0, <1>5, <2>0 DEF ReplaceFailed, ReservationOwned, CanAdvance
  <2> QED
    BY <2>1, <2>2 DEF LiveInv
<1>6. CASE ReplaceReady(w)
  <2>0. preparing = w /\ UNCHANGED <<revision, requested, active, token, displaced, preparing>>
    BY <1>0, <1>6 DEF ReplaceReady, DropLease, MutexHeld
  <2>1. LiveTypeOK' /\ MutexHeld'
    BY <1>0, <1>6, <2>0 DEF ReplaceReady, LiveTypeOK, MutexHeld, Steps
  <2>2. ReservationOwned'
    BY <1>0, <1>6, <2>0, OwnedKept DEF ReplaceReady
  <2> QED
    BY <2>1, <2>2 DEF LiveInv
<1>7. CASE ReplacePublish(w)
  <2>0. preparing = w /\ TokenOf(w).name = App /\ TokenOf(w).revision = token[w]
    BY <1>0, <1>7 DEF ReplacePublish, MutexHeld, TokenOf
  <2>1. CASE /\ Publish(TokenOf(w))
             /\ displaced' = [displaced EXCEPT ![w] = active[App]]
             /\ GoTo(w, "published")
             /\ UNCHANGED preparing
    <3>1. active[App] \in {None} \cup Revisions /\ token' = [token EXCEPT ![w] = None]
      BY <1>0, <1>7 DEF TypeOK, ReplacePublish
    <3>2. LiveTypeOK' /\ MutexHeld'
      BY <1>0, <2>0, <2>1, <3>1 DEF LiveTypeOK, MutexHeld, Steps
    <3>3. requested[App] = token[w] /\ active'[App] = token[w] /\ requested' = requested
      BY <1>0, <2>0, <2>1 DEF Publish, Valid, TypeOK
    <3>4. ReservationOwned'
      BY <3>3 DEF ReservationOwned
    <3> QED
      BY <3>2, <3>4 DEF LiveInv
  <2>2. CASE PublishRefused(TokenOf(w)) /\ Return(w) /\ UNCHANGED displaced
    <3>1. LiveTypeOK' /\ MutexHeld'
      BY <1>0, <1>7, <2>0, <2>2 DEF ReplacePublish, LiveTypeOK, MutexHeld, Steps
    <3>2. UNCHANGED <<revision, requested, active>>
      BY <2>2 DEF PublishRefused
    <3>3. \/ requested[App] # token[w]
          \/ active[App] # None
          \/ ~CanAdvance
      BY <2>0, <2>2 DEF PublishRefused, Valid, RetirementFull, Pinned
    <3>4. ReservationOwned'
      BY <1>0, <2>0, <3>2, <3>3 DEF ReservationOwned, CanAdvance
    <3> QED
      BY <3>1, <3>4 DEF LiveInv
  <2> QED
    BY <1>7, <2>1, <2>2 DEF ReplacePublish
<1>8. CASE ReplaceDone(w)
  <2>0. preparing = w /\ UNCHANGED <<revision, requested, active, token>>
    BY <1>0, <1>8 DEF ReplaceDone, DropPrevious, MutexHeld, vars
  <2>1. LiveTypeOK' /\ MutexHeld'
    BY <1>0, <1>8, <2>0 DEF ReplaceDone, LiveTypeOK, MutexHeld, Steps
  <2>2. ReservationOwned'
    BY <1>0, <1>8, <2>0 DEF ReplaceDone, ReservationOwned, CanAdvance
  <2> QED
    BY <2>1, <2>2 DEF LiveInv
<1> QED
  BY <1>1, <1>2, <1>3, <1>4, <1>5, <1>6, <1>7, <1>8 DEF Replace

(* So does every other step of the live app. *)
LEMMA LiveNextInv == LiveInv /\ TypeOK' /\ [LiveNext]_allVars => LiveInv'
<1> SUFFICES ASSUME LiveInv, TypeOK', [LiveNext]_allVars PROVE LiveInv'
  OBVIOUS
<1>1. ASSUME NEW w \in Coordinators, Replace(w) PROVE LiveInv'
  BY <1>1, ReplaceLiveInv
<1>2. CASE RemoveApp
  <2>1. requested'[App] = None
    BY <1>2, LiveAssumption DEF RemoveApp, Remove, LiveInv, LiveTypeOK, TypeOK
  <2> QED
    BY <1>2, <2>1
    DEF RemoveApp, liveVars, LiveInv, LiveTypeOK, MutexHeld, ReservationOwned
<1>3. CASE /\ UNCHANGED <<liveVars, revision, requested, active>>
  BY <1>3 DEF liveVars, LiveInv, LiveTypeOK, MutexHeld, ReservationOwned, CanAdvance
<1> QED
  BY <1>1, <1>2, <1>3
  DEF LiveNext, AnswerBegin, AnswerEnd, Acquire, DropLease, RemoveReturns, DropPrevious,
      Draining, Sweep, allVars, vars

(* Both invariants together, for any specification of that next-state relation. *)
LEMMA LiveStepInv == IInv /\ LiveInv /\ [LiveNext]_allVars => IInv' /\ LiveInv'
<1> SUFFICES ASSUME IInv, LiveInv, [LiveNext]_allVars PROVE IInv' /\ LiveInv'
  OBVIOUS
<1>1. [Next]_vars
  BY LiveStepIsRegistryStep DEF allVars
<1>2. IInv' /\ TypeOK'
  BY <1>1, NextIInv DEF IInv
<1> QED
  BY <1>2, LiveNextInv

LEMMA LiveInitInv == LiveInit => IInv /\ LiveInv
<1> SUFFICES ASSUME LiveInit PROVE IInv /\ LiveInv
  OBVIOUS
<1>1. IInv /\ TypeOK
  BY LiveInitRegistry DEF IInv
<1>2. LiveInv
  BY <1>1, LiveAssumption
  DEF LiveInit, LiveInv, LiveTypeOK, MutexHeld, ReservationOwned, Steps, None
<1> QED
  BY <1>1, <1>2

(* A preparation that ended left no reservation behind, whatever other
   coordinators, requests and removals did during it. *)
THEOREM ReservationsNeverLeak == LiveSpec => []NoLeakedReservation
<1>1. LiveInv => NoLeakedReservation
  BY DEF LiveInv, ReservationOwned, NoLeakedReservation
<1> QED
  BY LiveInitInv, LiveStepInv, <1>1, PTL DEF LiveSpec

-----------------------------------------------------------------------------
(* `qqqai dev` is a use of the live app with one coordinator. *)
LEMMA DevStepIsLiveStep == DevNext => [LiveNext]_allVars
<1> SUFFICES ASSUME DevNext PROVE [LiveNext]_allVars
  OBVIOUS
<1>0. Watcher \in Coordinators
  BY DevAssumption
<1>1. CASE UNCHANGED allVars
  BY <1>1
<1>2. CASE Replace(Watcher)
  BY <1>0, <1>2 DEF LiveNext
<1>3. ASSUME NEW c \in Requests, Request(c) PROVE [LiveNext]_allVars
  BY <1>3 DEF Request, LiveNext
<1>4. CASE \E f \in Files : Save(f)
  BY <1>1, <1>4 DEF Save
<1>5. CASE Interrupted
  BY <1>1, <1>5 DEF Interrupted
<1>6. CASE WatchStep
  <2>1. UNCHANGED allVars \/ Replace(Watcher)
    BY <1>6
    DEF WatchStep, BuildRead, Take, InitialBuilt, StartListener, NotYet, Fire, Observe,
        Built, Verified, Prepare, CheckPolicy, CheckTree, Activate, Replace
  <2> QED
    BY <2>1, <1>1, <1>2
<1> QED
  BY <1>3, <1>4, <1>5, <1>6 DEF DevNext

(* The types of what the editor and the watch thread own, used everywhere. *)
LEMMA DevTypes ==
    ASSUME DevInv
    PROVE  /\ disk \in [Files -> Nat] /\ scan \in [Files -> Nat]
           /\ snapshot \in [Files -> Nat]
           /\ built \in [Sources -> Nat] /\ served \in [Sources -> Nat]
           /\ Sources \subseteq Files /\ Manifest \in Files /\ Manifest \notin Sources
BY DevAssumption DEF DevInv, DevTypeOK, Versions, Trees, Files

(* The editor saves a file. *)
LEMMA SaveDevInv ==
    ASSUME DevInv, LiveTypeOK', NEW f \in Files, Save(f)
    PROVE  DevInv'
<1>0. /\ disk' = [disk EXCEPT ![f] = @ + 1]
      /\ \A g \in Files : disk[g] <= disk'[g] /\ disk'[g] \in Nat
      /\ trees \subseteq trees'
      /\ UNCHANGED <<allVars, phase, todo, scan, snapshot, pending, restartRequired, built,
                     served, report, missed>>
  BY DevTypes DEF Save
<1>1. UNCHANGED <<active, step>>
  BY <1>0 DEF allVars, vars, liveVars
<1>2. DevTypeOK'
  <2>1. disk' \in Versions
    BY DevAssumption DEF DevInv, DevTypeOK, Versions, Save
  <2>2. SourcesOf(disk') \in Trees
    BY <2>1, DevTypes DEF SourcesOf, Versions, Trees
  <2>3. trees' \subseteq Trees
    BY <2>2 DEF DevInv, DevTypeOK, Save
  <2>4. policyChanged' \in BOOLEAN /\ barred' \in BOOLEAN
    BY DEF DevInv, DevTypeOK, Save
  <2> QED
    BY <1>0, <2>1, <2>3, <2>4 DEF DevInv, DevTypeOK
<1>3. ReadsBehindDisk'
  <2>1. SourcesOf(disk)' \in trees'
    BY DEF Save, SourcesOf
  <2> QED
    BY <1>0, <2>1, DevTypes DEF DevInv, ReadsBehindDisk
<1>4. BuildAfterBaseline'
  BY <1>0 DEF DevInv, BuildAfterBaseline
<1>5. TreeBetween'
  <2> SUFFICES ASSUME phase \in {"build", "verify"}
               PROVE  \E t \in trees' : \A g \in Sources :
                         /\ snapshot[g] <= t[g] /\ t[g] <= disk'[g]
                         /\ phase = "verify" /\ g \notin todo => t[g] <= scan[g]
    BY <1>0 DEF TreeBetween
  <2>1. PICK t \in trees : \A g \in Sources :
           /\ snapshot[g] <= t[g] /\ t[g] <= disk[g]
           /\ phase = "verify" /\ g \notin todo => t[g] <= scan[g]
    BY DEF DevInv, TreeBetween
  <2>2. t \in [Sources -> Nat]
    BY DevAssumption DEF DevInv, DevTypeOK, Trees
  <2>3. \A g \in Sources : t[g] <= disk'[g]
    BY <1>0, <2>1, <2>2, DevTypes
  <2> QED
    BY <1>0, <2>1, <2>3
<1>6. CandidateWhole'
  BY <1>0, <1>1 DEF DevInv, CandidateWhole, NoMixedBuild
<1>7. CycleClean'
  BY <1>0, <1>1 DEF DevInv, CycleClean
<1>8. BarrierHolds'
  <2>1. CASE f # Manifest
    <3>1. barred' = barred /\ disk'[Manifest] = disk[Manifest]
      BY <2>1, <1>0, DevTypes DEF Save
    <3> QED
      BY <1>0, <1>1, <3>1 DEF DevInv, BarrierHolds
  <2>2. CASE f = Manifest
    <3>1. /\ disk'[Manifest] = disk[Manifest] + 1
          /\ snapshot[Manifest] < disk'[Manifest] /\ scan[Manifest] < disk'[Manifest]
      BY <1>0, <2>2, DevTypes DEF DevInv, ReadsBehindDisk
    <3>2. CASE barred
      BY <1>0, <1>1, <3>1, <3>2 DEF DevInv, BarrierHolds
    <3>3. CASE ~barred
      <4>1. barred' => BaselineHasManifest /\ ~ManifestChecked
        BY <2>2, <3>3 DEF Save
      <4>2. step[Watcher] \in {"ready", "published"} => phase = "replace"
        BY DEF DevInv, CycleClean
      <4> QED
        BY <1>0, <1>1, <3>1, <4>1, <4>2
        DEF BarrierHolds, BaselineHasManifest, ManifestChecked
    <3> QED
      BY <3>2, <3>3
  <2> QED
    BY <2>1, <2>2
<1> QED
  BY <1>2, <1>3, <1>4, <1>5, <1>6, <1>7, <1>8 DEF DevInv

(* The build reads a source. *)
LEMMA BuildReadDevInv ==
    ASSUME DevInv, LiveTypeOK', NEW f \in Sources, BuildRead(f)
    PROVE  DevInv'
<1>0. /\ built' = [built EXCEPT ![f] = disk[f]]
      /\ todo' = todo \ {f}
      /\ phase \in {"initial", "build"}
      /\ UNCHANGED <<allVars, Env, phase, scan, snapshot, pending, restartRequired, served,
                     report, missed>>
      /\ UNCHANGED <<active, step>>
  BY DEF BuildRead, allVars, vars, liveVars
<1>2. DevTypeOK'
  <2>1. disk[f] \in 0..MaxEdits
    BY DevTypes DEF DevInv, DevTypeOK, Versions
  <2> QED
    BY <1>0, <2>1 DEF DevInv, DevTypeOK, Trees, Env
<1>3. ReadsBehindDisk' /\ BuildAfterBaseline'
  <2>1. snapshot[f] <= disk[f] /\ disk[f] <= disk[f]
    BY DevTypes DEF DevInv, ReadsBehindDisk
  <2> QED
    BY <1>0, <2>1, DevTypes
    DEF DevInv, ReadsBehindDisk, BuildAfterBaseline, Env, SourcesOf
<1>4. TreeBetween' /\ CandidateWhole' /\ CycleClean' /\ BarrierHolds'
  BY <1>0
  DEF DevInv, TreeBetween, CandidateWhole, NoMixedBuild, CycleClean, BarrierHolds, Env, Cycle
<1> QED
  BY <1>2, <1>3, <1>4 DEF DevInv

(* A snapshot reads a file. *)
LEMMA TakeDevInv ==
    ASSUME DevInv, LiveTypeOK', NEW f \in Files, Take(f)
    PROVE  DevInv'
<1>0. /\ scan' = [scan EXCEPT ![f] = disk[f]]
      /\ todo' = todo \ {f}
      /\ phase \in {"baseline", "poll", "verify", "check"}
      /\ UNCHANGED <<allVars, disk, policyChanged, trees, barred>>
      /\ UNCHANGED <<phase, snapshot, pending, restartRequired, built, served, report, missed>>
      /\ UNCHANGED <<active, step>>
  BY DEF Take, allVars, vars, liveVars, Env
<1>1. /\ scan'[f] = disk[f]
      /\ snapshot[f] <= disk[f]
      /\ \A g \in Files : scan[g] <= scan'[g] /\ scan'[g] <= disk[g] /\ scan'[g] \in Nat
      /\ \A g \in Files \ {f} : scan'[g] = scan[g]
  BY <1>0, DevTypes DEF DevInv, ReadsBehindDisk
<1>2. DevTypeOK'
  <2>1. disk[f] \in 0..MaxEdits
    BY DevTypes DEF DevInv, DevTypeOK, Versions
  <2> QED
    BY <1>0, <2>1 DEF DevInv, DevTypeOK, Versions
<1>3. ReadsBehindDisk'
  BY <1>0, <1>1, DevTypes DEF DevInv, ReadsBehindDisk, SourcesOf
<1>4. BuildAfterBaseline'
  <2>1. \A g \in Sources : built[g] <= disk[g]
    BY DEF DevInv, ReadsBehindDisk
  <2> QED
    BY <1>0, <1>1, <2>1, DevTypes DEF DevInv, BuildAfterBaseline
<1>5. TreeBetween'
  <2> SUFFICES ASSUME phase = "verify"
               PROVE  \E t \in trees : \A g \in Sources :
                         /\ snapshot[g] <= t[g] /\ t[g] <= disk[g]
                         /\ g \notin todo' => t[g] <= scan'[g]
    BY <1>0 DEF TreeBetween
  <2>1. PICK t \in trees : \A g \in Sources :
           /\ snapshot[g] <= t[g] /\ t[g] <= disk[g]
           /\ g \notin todo => t[g] <= scan[g]
    BY DEF DevInv, TreeBetween
  <2>2. t \in [Sources -> Nat]
    BY DevAssumption DEF DevInv, DevTypeOK, Trees
  <2>3. \A g \in Sources : g \notin todo' => t[g] <= scan'[g]
    BY <1>0, <1>1, <2>1, <2>2, DevTypes
  <2> QED
    BY <2>1, <2>3
<1>6. CandidateWhole' /\ CycleClean'
  BY <1>0 DEF DevInv, CandidateWhole, NoMixedBuild, CycleClean, Cycle
<1>7. BarrierHolds'
  <2> SUFFICES ASSUME barred PROVE BarrierHolds'
    BY <1>0 DEF BarrierHolds
  <2>1. phase = "baseline" => f # Manifest /\ scan'[Manifest] < disk[Manifest]
    BY <1>0, <1>1, DevTypes DEF Take, DevInv, BarrierHolds
  <2>2. phase = "check" /\ Manifest \notin todo' => scan'[Manifest] # snapshot[Manifest]
    <3>1. phase = "check" => snapshot[Manifest] < disk[Manifest]
      BY DEF DevInv, BarrierHolds, CycleClean, Cycle
    <3> QED
      BY <1>0, <1>1, <3>1, DevTypes DEF DevInv, BarrierHolds
  <2> QED
    BY <1>0, <2>1, <2>2 DEF DevInv, BarrierHolds
<1> QED
  BY <1>2, <1>3, <1>4, <1>5, <1>6, <1>7 DEF DevInv

(* The first build ends, the listener starts, the user interrupts. *)
LEMMA StartDevInv ==
    ASSUME DevInv, LiveTypeOK', InitialBuilt \/ StartListener \/ Interrupted
    PROVE  DevInv'
<1>0. /\ UNCHANGED <<active, step>>
      /\ UNCHANGED <<disk, policyChanged, trees, barred, scan, pending, restartRequired,
                     built, report>>
  BY DEF InitialBuilt, StartListener, Interrupted, allVars, vars, liveVars, Env
<1>1. CASE InitialBuilt
  <2>1. /\ phase = "initial" /\ active[App] = 1 /\ served' = built
        /\ UNCHANGED <<snapshot, missed>>
        /\ \/ phase' = "baseline" /\ todo' = Files
           \/ phase' = "stopped" /\ todo' = todo
    BY <1>1 DEF InitialBuilt, Stop, DevInv, CandidateWhole
  <2>2. DevTypeOK'
    BY <1>0, <2>1 DEF DevInv, DevTypeOK
  <2>3. ReadsBehindDisk'
    BY <1>0, <2>1 DEF DevInv, ReadsBehindDisk, SourcesOf
  <2>4. ~barred
    BY <2>1 DEF DevInv, BarrierHolds
  <2>5. step[Watcher] \notin {"ready", "published"}
    BY <2>1 DEF DevInv, CycleClean
  <2> QED
    BY <1>0, <2>1, <2>2, <2>3, <2>4, <2>5
    DEF DevInv, BuildAfterBaseline, TreeBetween, CandidateWhole, NoMixedBuild, CycleClean,
        BarrierHolds, Cycle
<1>2. CASE StartListener
  <2>1. /\ phase = "baseline" /\ snapshot' = scan /\ missed' \in BOOLEAN
        /\ UNCHANGED served
        /\ \/ phase' = "poll" /\ todo' = Files
           \/ phase' = "stopped" /\ todo' = todo
    BY <1>2 DEF StartListener, Stop, Loop
  <2>2. DevTypeOK'
    BY <1>0, <2>1 DEF DevInv, DevTypeOK
  <2>3. ReadsBehindDisk'
    BY <1>0, <2>1, DevTypes DEF DevInv, ReadsBehindDisk, SourcesOf
  <2>4. barred => scan[Manifest] < disk[Manifest]
    BY <2>1 DEF DevInv, BarrierHolds
  <2>5. step[Watcher] \notin {"ready", "published"}
    BY <2>1 DEF DevInv, CycleClean
  <2> QED
    BY <1>0, <2>1, <2>2, <2>3, <2>4, <2>5
    DEF DevInv, BuildAfterBaseline, TreeBetween, CandidateWhole, NoMixedBuild, CycleClean,
        BarrierHolds, Cycle
<1>3. CASE Interrupted
  <2>1. /\ phase = "poll" /\ phase' = "stopped" /\ UNCHANGED <<todo, snapshot, served, missed>>
    BY <1>3 DEF Interrupted, Stop
  <2>2. DevTypeOK' /\ ReadsBehindDisk'
    BY <1>0, <2>1 DEF DevInv, DevTypeOK, ReadsBehindDisk, SourcesOf
  <2> QED
    BY <1>0, <2>1, <2>2
    DEF DevInv, BuildAfterBaseline, TreeBetween, CandidateWhole, NoMixedBuild, CycleClean,
        BarrierHolds, Cycle
<1> QED
  BY <1>1, <1>2, <1>3

(* A poll ends: with the baseline moved or not, the changes kept or a cycle
   begun, for which the tree on disk at this moment is the one between. *)
LEMMA PollDevInv ==
    ASSUME DevInv, LiveTypeOK', NotYet \/ Fire
    PROVE  DevInv'
<1>0. /\ UNCHANGED <<active, step>>
      /\ UNCHANGED <<disk, policyChanged, trees, barred, scan, built, served, missed>>
      /\ phase = "poll"
      /\ (snapshot' = snapshot /\ Changes = {}) \/ snapshot' = scan
  BY DEF NotYet, Fire, Observe, allVars, vars, liveVars, Env
<1>1. /\ snapshot' \in Versions
      /\ \A f \in Files : snapshot'[f] <= scan[f] /\ snapshot'[f] <= disk[f]
  BY <1>0, DevTypes DEF DevInv, DevTypeOK, ReadsBehindDisk
<1>2. Changes \subseteq Files
  BY DevAssumption DEF Changes, Files
<1>3. ReadsBehindDisk'
  BY <1>0, <1>1 DEF DevInv, ReadsBehindDisk, SourcesOf
<1>4. step[Watcher] \notin {"ready", "published"}
  BY <1>0 DEF DevInv, CycleClean
<1>5. barred => restartRequired \/ Manifest \in pending \cup Changes
                  \/ snapshot'[Manifest] < disk[Manifest]
  <2>1. barred => restartRequired \/ Manifest \in pending \/ snapshot[Manifest] < disk[Manifest]
    BY <1>0 DEF DevInv, BarrierHolds
  <2>2. Manifest \notin Changes => scan[Manifest] = snapshot[Manifest]
    BY DEF Changes
  <2> QED
    BY <1>0, <2>1, <2>2
<1>6. CASE NotYet
  <2>1. /\ pending' = pending \cup Changes /\ phase' = "poll" /\ todo' = Files
        /\ UNCHANGED <<restartRequired, report>>
    BY <1>6 DEF NotYet, Loop
  <2>2. DevTypeOK'
    BY <1>0, <1>1, <1>2, <2>1 DEF DevInv, DevTypeOK
  <2> QED
    BY <1>0, <1>3, <1>4, <1>5, <2>1, <2>2
    DEF DevInv, BuildAfterBaseline, TreeBetween, CandidateWhole, NoMixedBuild, CycleClean,
        BarrierHolds, Cycle
<1>7. CASE Fire
  <2>0. pending' = {} /\ restartRequired' = RestartRequired
    BY <1>7 DEF Fire
  <2>1. CASE RestartRequired
    <3>1. /\ phase' = "poll" /\ todo' = Files /\ report' = "failed"
          /\ restartRequired' = TRUE
      BY <1>7, <2>1 DEF Fire, Loop, RestartRequired
    <3>2. DevTypeOK'
      BY <1>0, <1>1, <2>0, <3>1 DEF DevInv, DevTypeOK
    <3> QED
      BY <1>0, <1>3, <1>4, <2>0, <3>1, <3>2
      DEF DevInv, BuildAfterBaseline, TreeBetween, CandidateWhole, NoMixedBuild, CycleClean,
          BarrierHolds, Cycle
  <2>2. CASE ~RestartRequired
    <3>1. /\ phase' = "build" /\ todo' = Sources /\ report' = report
          /\ restartRequired' = FALSE
          /\ barred => snapshot'[Manifest] < disk[Manifest]
      BY <1>5, <1>7, <2>2 DEF Fire, RestartRequired
    <3>2. DevTypeOK'
      BY <1>0, <1>1, <2>0, <3>1, DevTypes DEF DevInv, DevTypeOK
    <3>3. BuildAfterBaseline'
      BY <3>1 DEF BuildAfterBaseline
    <3>4. TreeBetween'
      <4>1. SourcesOf(disk) \in trees
        BY DEF DevInv, ReadsBehindDisk
      <4>2. \A f \in Sources : /\ snapshot'[f] <= SourcesOf(disk)[f]
                               /\ SourcesOf(disk)[f] <= disk[f]
        BY <1>1, DevTypes DEF SourcesOf
      <4> QED
        BY <1>0, <3>1, <4>1, <4>2 DEF TreeBetween
    <3> QED
      BY <1>0, <1>3, <1>4, <2>0, <3>1, <3>2, <3>3, <3>4
      DEF DevInv, CandidateWhole, NoMixedBuild, CycleClean, BarrierHolds, Cycle
  <2> QED
    BY <2>1, <2>2
<1> QED
  BY <1>6, <1>7

(* A cycle that ends with a refusal keeps the baseline and the barrier. *)
LEMMA RefuseDevInv ==
    ASSUME DevInv, LiveTypeOK', phase \in Cycle, phase' = "poll", todo' = Files,
           UNCHANGED <<active, disk, policyChanged, trees, barred, scan, snapshot, pending,
                       restartRequired, built, served, missed>>,
           report' \in {"none", "activated", "waiting", "failed"},
           step'[Watcher] \notin {"ready", "published"}
    PROVE  DevInv'
<1>1. DevTypeOK'
  BY DEF DevInv, DevTypeOK
<1>2. ReadsBehindDisk' /\ BuildAfterBaseline' /\ TreeBetween' /\ CycleClean'
  BY DEF DevInv, ReadsBehindDisk, SourcesOf, BuildAfterBaseline, TreeBetween, CycleClean, Cycle
<1>3. CandidateWhole'
  BY DEF DevInv, CandidateWhole, NoMixedBuild
<1>4. BarrierHolds'
  BY DEF DevInv, BarrierHolds, Cycle
<1> QED
  BY <1>1, <1>2, <1>3, <1>4 DEF DevInv

(* The build ends and the verifying snapshot begins. *)
LEMMA BuiltDevInv ==
    ASSUME DevInv, LiveTypeOK', Built
    PROVE  DevInv'
<1>0. /\ UNCHANGED <<active, step>>
      /\ UNCHANGED <<disk, policyChanged, trees, barred, scan, snapshot, pending,
                     restartRequired, built, served, missed>>
      /\ phase = "build" /\ todo = {}
  BY DEF Built, Refuse, allVars, vars, liveVars, Env
<1>1. step[Watcher] \notin {"ready", "published"}
  BY <1>0 DEF DevInv, CycleClean
<1>2. CASE Compiles
  <2>1. phase' = "verify" /\ todo' = Files /\ report' = report
    BY <1>2 DEF Built
  <2>2. DevTypeOK' /\ ReadsBehindDisk'
    BY <1>0, <2>1 DEF DevInv, DevTypeOK, ReadsBehindDisk, SourcesOf
  <2>3. BuildAfterBaseline' /\ TreeBetween'
    BY <1>0, <2>1, DevTypes DEF DevInv, BuildAfterBaseline, TreeBetween
  <2>4. CandidateWhole' /\ CycleClean' /\ BarrierHolds'
    BY <1>0, <1>1, <2>1
    DEF DevInv, CandidateWhole, NoMixedBuild, CycleClean, BarrierHolds, Cycle
  <2> QED
    BY <2>2, <2>3, <2>4 DEF DevInv
<1>3. CASE ~Compiles
  <2>1. phase' = "poll" /\ todo' = Files /\ report' = "failed"
    BY <1>3 DEF Built, Refuse, Loop
  <2> QED
    BY <1>0, <1>1, <2>1, RefuseDevInv DEF Cycle
<1> QED
  BY <1>2, <1>3

(* The verification: an unchanged tree pins baseline, build and the tree in
   between to the same versions. *)
LEMMA VerifiedDevInv ==
    ASSUME DevInv, LiveTypeOK', Verified
    PROVE  DevInv'
<1>0. /\ UNCHANGED <<active, step>>
      /\ UNCHANGED <<disk, policyChanged, trees, barred, scan, snapshot, pending,
                     restartRequired, built, served, missed>>
      /\ phase = "verify" /\ todo = {}
  BY DEF Verified, Refuse, allVars, vars, liveVars, Env
<1>1. step[Watcher] \notin {"ready", "published"}
  BY <1>0 DEF DevInv, CycleClean
<1>2. CASE Unchanged /\ phase' = "replace" /\ UNCHANGED <<todo, report, snapshot>>
  <2>1. built \in trees
    <3>1. PICK t \in trees : \A f \in Sources : snapshot[f] <= t[f] /\ t[f] <= scan[f]
      BY <1>0 DEF DevInv, TreeBetween
    <3>2. t \in [Sources -> Nat]
      BY DevAssumption DEF DevInv, DevTypeOK, Trees
    <3>3. \A f \in Sources : snapshot[f] <= built[f] /\ built[f] <= scan[f]
      BY <1>0 DEF DevInv, BuildAfterBaseline
    <3>4. \A f \in Sources : t[f] = built[f]
      BY <1>2, <3>1, <3>2, <3>3, DevTypes DEF Unchanged
    <3>5. t = built
      BY <3>2, <3>4, DevTypes
    <3> QED
      BY <3>5
  <2>2. DevTypeOK' /\ ReadsBehindDisk'
    BY <1>0, <1>2 DEF DevInv, DevTypeOK, ReadsBehindDisk, SourcesOf
  <2>3. BuildAfterBaseline' /\ TreeBetween'
    BY <1>2 DEF BuildAfterBaseline, TreeBetween
  <2>4. CandidateWhole' /\ CycleClean' /\ BarrierHolds'
    BY <1>0, <1>1, <1>2, <2>1
    DEF DevInv, CandidateWhole, NoMixedBuild, CycleClean, BarrierHolds, Cycle
  <2> QED
    BY <2>2, <2>3, <2>4 DEF DevInv
<1>3. CASE Refuse("failed") \/ Refuse("waiting")
  <2>1. phase' = "poll" /\ todo' = Files /\ report' \in {"failed", "waiting"}
    BY <1>3 DEF Refuse, Loop
  <2> QED
    BY <1>0, <1>1, <2>1, RefuseDevInv DEF Cycle
<1> QED
  BY <1>2, <1>3 DEF Verified

(* The replacement goes on, or to and from its check, without activating. *)
LEMMA ReplaceDevInv ==
    ASSUME DevInv, LiveTypeOK', phase \in {"replace", "check"}, phase' \in {"replace", "check"},
           todo' \subseteq Files,
           UNCHANGED <<active, disk, policyChanged, trees, barred, scan, snapshot, pending,
                       restartRequired, built, served, missed>>,
           report' \in {"none", "activated", "waiting", "failed"},
           step'[Watcher] \in {"ready", "published"} => ~barred /\ phase' = "replace",
           phase' = "check" => todo' = Files
    PROVE  DevInv'
<1>1. DevTypeOK'
  BY DEF DevInv, DevTypeOK
<1>2. ReadsBehindDisk' /\ BuildAfterBaseline' /\ TreeBetween' /\ CycleClean'
  BY DEF DevInv, ReadsBehindDisk, SourcesOf, BuildAfterBaseline, TreeBetween, CycleClean, Cycle
<1>3. CandidateWhole'
  BY DEF DevInv, CandidateWhole, NoMixedBuild
<1>4. BarrierHolds'
  BY DevTypes DEF DevInv, BarrierHolds, Cycle
<1> QED
  BY <1>1, <1>2, <1>3, <1>4 DEF DevInv

LEMMA PrepareDevInv ==
    ASSUME DevInv, LiveTypeOK', Prepare
    PROVE  DevInv'
<1>0. /\ UNCHANGED active
      /\ UNCHANGED <<disk, policyChanged, trees, barred, scan, snapshot, pending,
                     restartRequired, built, served, missed>>
      /\ phase = "replace"
  BY DEF Prepare, Refuse, ReplaceTryLock, ReplaceAcquire, ReplaceReserve, Acquire, Reserve,
         DropLease, vars, Env
<1>1. step'[Watcher] \in {"locked", "current", "reserved", "idle"}
  BY DevAssumption
  DEF Prepare, ReplaceTryLock, ReplaceAcquire, ReplaceReserve, GoTo, Return, DevInv,
      DevTypeOK, LiveTypeOK
<1>2. CASE step'[Watcher] = "idle"
  <2>1. phase' = "poll" /\ todo' = Files /\ report' = "failed"
    BY <1>2 DEF Prepare, Refuse, Loop
  <2> QED
    BY <1>0, <1>1, <2>1, RefuseDevInv DEF Cycle
<1>3. CASE step'[Watcher] # "idle"
  <2>1. UNCHANGED <<phase, todo, report>>
    BY <1>3 DEF Prepare
  <2>2. todo \subseteq Files /\ report \in {"none", "activated", "waiting", "failed"}
    BY DEF DevInv, DevTypeOK
  <2> QED
    BY <1>0, <1>1, <2>1, <2>2, ReplaceDevInv
<1> QED
  BY <1>2, <1>3

LEMMA CheckPolicyDevInv ==
    ASSUME DevInv, LiveTypeOK', CheckPolicy
    PROVE  DevInv'
<1>0. /\ UNCHANGED active
      /\ UNCHANGED <<disk, policyChanged, trees, barred, scan, snapshot, pending,
                     restartRequired, built, served, missed>>
      /\ phase = "replace" /\ phase' \in {"replace", "check"}
      /\ phase' = "check" => todo' = Files
  BY DEF CheckPolicy, ReplaceRejected, Cancel, Abandon, allVars, vars, Env
<1>1. step'[Watcher] \notin {"ready", "published"}
  <2>1. CASE ReplaceRejected(Watcher)
    BY <2>1, DevAssumption DEF ReplaceRejected, GoTo, DevInv, DevTypeOK, LiveTypeOK
  <2>2. CASE UNCHANGED allVars
    BY <2>2 DEF CheckPolicy, allVars, liveVars
  <2> QED
    BY <2>1, <2>2 DEF CheckPolicy
<1>2. todo' \subseteq Files /\ report' \in {"none", "activated", "waiting", "failed"}
  BY DEF DevInv, DevTypeOK, CheckPolicy
<1> QED
  BY <1>0, <1>1, <1>2, ReplaceDevInv

(* The last look at the tree: under the barrier it finds the manifest changed,
   so the candidate is not declared ready. *)
LEMMA CheckTreeDevInv ==
    ASSUME DevInv, LiveTypeOK', CheckTree
    PROVE  DevInv'
<1>0. /\ UNCHANGED active
      /\ UNCHANGED <<todo, disk, policyChanged, trees, barred, scan, snapshot, pending,
                     restartRequired, built, served, missed>>
      /\ phase = "check" /\ phase' = "replace" /\ todo = {}
  BY DEF CheckTree, ReplaceReady, DropLease, ReplaceRejected, Cancel, Abandon, vars, Env
<1>1. step'[Watcher] \in {"ready", "published"} => ~barred
  <2>1. CASE Unchanged
    <3>1. scan[Manifest] = snapshot[Manifest]
      BY <2>1 DEF Unchanged
    <3> QED
      BY <1>0, <3>1 DEF DevInv, BarrierHolds
  <2>2. CASE ~Unchanged
    BY <2>2, DevAssumption DEF CheckTree, ReplaceRejected, GoTo, DevInv, DevTypeOK, LiveTypeOK
  <2> QED
    BY <2>1, <2>2
<1>2. todo' \subseteq Files /\ report' \in {"none", "activated", "waiting", "failed"}
  BY <1>0 DEF DevInv, DevTypeOK, CheckTree
<1> QED
  BY <1>0, <1>1, <1>2, ReplaceDevInv

(* What the end of a replacement does to the app: nothing, or the candidate
   becomes active and is what the server serves. *)
LEMMA ActivateDevInv ==
    ASSUME DevInv, LiveTypeOK', Activate
    PROVE  DevInv'
<1>0. /\ UNCHANGED <<disk, policyChanged, trees, barred, scan, snapshot, pending,
                     restartRequired, built, missed>>
      /\ phase = "replace"
      /\ Watcher \in Coordinators /\ step \in [Coordinators -> Steps]
      /\ report \in {"none", "activated", "waiting", "failed"}
  BY DevAssumption DEF Activate, Refuse, Env, DevInv, DevTypeOK, LiveTypeOK
<1>1. CASE ReplaceFailed(Watcher) /\ Refuse(report) /\ UNCHANGED served
  <2>1. UNCHANGED active /\ step'[Watcher] = "idle"
    BY <1>0, <1>1 DEF ReplaceFailed, DropLease, Return, GoTo
  <2>2. phase' = "poll" /\ todo' = Files /\ report' = report
    BY <1>1 DEF Refuse, Loop
  <2> QED
    BY <1>0, <1>1, <2>1, <2>2, RefuseDevInv DEF Cycle
<1>2. CASE /\ ReplacePublish(Watcher)
           /\ IF step'[Watcher] = "published"
              THEN served' = built /\ UNCHANGED <<phase, todo, report, snapshot>>
              ELSE Refuse("failed") /\ UNCHANGED served
  <2>0. step[Watcher] = "ready" /\ ~barred
    BY <1>2 DEF ReplacePublish, DevInv, BarrierHolds
  <2>1. CASE step'[Watcher] = "published"
    <3>1. served' = built /\ UNCHANGED <<phase, todo, report>>
      BY <1>2, <2>1
    <3>2. built \in trees
      BY <1>0 DEF DevInv, CandidateWhole
    <3>3. DevTypeOK' /\ ReadsBehindDisk'
      BY <1>0, <3>1 DEF DevInv, DevTypeOK, ReadsBehindDisk, SourcesOf
    <3>4. BuildAfterBaseline' /\ TreeBetween' /\ CycleClean' /\ BarrierHolds'
      BY <1>0, <2>0, <2>1, <3>1
      DEF DevInv, BuildAfterBaseline, TreeBetween, CycleClean, BarrierHolds, Cycle
    <3>5. CandidateWhole'
      BY <1>0, <3>1, <3>2 DEF CandidateWhole, NoMixedBuild
    <3> QED
      BY <3>3, <3>4, <3>5 DEF DevInv
  <2>2. CASE step'[Watcher] # "published"
    <3>1. PublishRefused(TokenOf(Watcher)) /\ step'[Watcher] = "idle"
      BY <1>0, <1>2, <2>2 DEF ReplacePublish, GoTo, Return
    <3>2. UNCHANGED <<active, served>> /\ phase' = "poll" /\ todo' = Files /\ report' = "failed"
      BY <1>2, <2>2, <3>1 DEF PublishRefused, Refuse, Loop
    <3> QED
      BY <1>0, <3>1, <3>2, RefuseDevInv DEF Cycle
  <2> QED
    BY <2>1, <2>2
<1>3. CASE ReplaceDone(Watcher) /\ report' = "activated" /\ Loop /\ UNCHANGED <<snapshot, served>>
  <2>1. UNCHANGED active /\ step'[Watcher] = "idle"
    BY <1>0, <1>3 DEF ReplaceDone, DropPrevious, vars, Return, GoTo
  <2> QED
    BY <1>0, <1>3, <2>1, RefuseDevInv DEF Loop, Cycle
<1> QED
  BY <1>1, <1>2, <1>3 DEF Activate

(* Every step of `qqqai dev` keeps the invariant. *)
LEMMA DevNextInv == DevInv /\ LiveTypeOK' /\ [DevNext]_everything => DevInv'
<1> SUFFICES ASSUME DevInv, LiveTypeOK', [DevNext]_everything PROVE DevInv'
  OBVIOUS
<1>1. CASE UNCHANGED <<devVars, active, step>>
  BY <1>1
  DEF devVars, DevInv, DevTypeOK, ReadsBehindDisk, SourcesOf, BuildAfterBaseline, TreeBetween,
      CandidateWhole, NoMixedBuild, CycleClean, BarrierHolds
<1>2. ASSUME NEW c \in Requests, Request(c) PROVE DevInv'
  BY <1>1, <1>2 DEF Request, AnswerBegin, AnswerEnd, Acquire, DropLease, liveVars
<1>3. CASE UNCHANGED everything
  BY <1>1, <1>3 DEF everything, allVars, vars, liveVars
<1>4. CASE WatchStep
  BY <1>4, BuildReadDevInv, TakeDevInv, StartDevInv, PollDevInv, BuiltDevInv, VerifiedDevInv,
     PrepareDevInv, CheckPolicyDevInv, CheckTreeDevInv, ActivateDevInv
  DEF WatchStep
<1>5. CASE DevNext
  BY <1>2, <1>4, <1>5, SaveDevInv, StartDevInv DEF DevNext
<1> QED
  BY <1>3, <1>5

LEMMA DevInitInv == DevInit => IInv /\ LiveInv /\ DevInv
<1> SUFFICES ASSUME DevInit PROVE IInv /\ LiveInv /\ DevInv
  OBVIOUS
<1>1. IInv /\ LiveInv /\ LiveTypeOK
  BY LiveInitInv DEF DevInit, LiveInv
<1>2. Sources \subseteq Files /\ Manifest \in Files /\ App \in Names /\ Watcher \in Coordinators
  BY DevAssumption, LiveAssumption DEF Files
<1>3. DevTypeOK
  <2>1. disk \in Versions /\ scan \in Versions /\ snapshot \in Versions
    BY DevAssumption DEF DevInit, Versions
  <2>2. built \in Trees /\ served \in Trees /\ trees \subseteq Trees
    BY DevAssumption DEF DevInit, Trees
  <2> QED
    BY <1>1, <1>2, <2>1, <2>2 DEF DevInit, DevTypeOK
<1>4. ReadsBehindDisk
  <2>1. SourcesOf(disk) = built
    BY <1>2 DEF DevInit, SourcesOf
  <2> QED
    BY <1>2, <2>1 DEF DevInit, ReadsBehindDisk
<1>5. active[App] = 1 /\ step[Watcher] = "idle"
  BY <1>2 DEF DevInit, LiveInit
<1>6. BuildAfterBaseline /\ TreeBetween /\ CandidateWhole /\ CycleClean /\ BarrierHolds
  BY <1>5
  DEF DevInit, BuildAfterBaseline, TreeBetween, CandidateWhole, NoMixedBuild, CycleClean,
      BarrierHolds, Cycle
<1> QED
  BY <1>1, <1>3, <1>4, <1>6 DEF DevInv

(* The three invariants hold together in every state of `qqqai dev`. *)
THEOREM DevInvariance == DevSpec => [](IInv /\ LiveInv /\ DevInv)
<1>1. (IInv /\ LiveInv /\ DevInv) /\ [DevNext]_everything => (IInv /\ LiveInv /\ DevInv)'
  <2> SUFFICES ASSUME IInv, LiveInv, DevInv, [DevNext]_everything
               PROVE  IInv' /\ LiveInv' /\ DevInv'
    OBVIOUS
  <2>1. [LiveNext]_allVars
    BY DevStepIsLiveStep DEF everything
  <2>2. IInv' /\ LiveInv' /\ LiveTypeOK'
    BY <2>1, LiveStepInv DEF LiveInv
  <2> QED
    BY <2>2, DevNextInv
<1> QED
  BY DevInitInv, <1>1, PTL DEF DevSpec

(* What a reload activated was built from one state of the source tree, for any
   number of files and saves in any order with the reads. *)
THEOREM NeverMixed == DevSpec => []NoMixedBuild
<1>1. DevInv => NoMixedBuild
  BY DEF DevInv, CandidateWhole
<1> QED
  BY DevInvariance, <1>1, PTL

(* After a save of the manifest nothing is activated any more. *)
THEOREM BarrierAlwaysHolds == DevSpec => PolicyBarrier
<1> DEFINE Kept == barred => served' = served
<1>1. DevInv /\ [DevNext]_everything => [Kept]_everything
  <2> SUFFICES ASSUME DevInv, DevNext, barred PROVE served' = served
    OBVIOUS
  <2>1. phase # "initial" /\ step[Watcher] # "ready"
    BY DEF DevInv, BarrierHolds
  <2>2. ~InitialBuilt /\ ~ReplacePublish(Watcher)
    BY <2>1 DEF InitialBuilt, ReplacePublish
  <2> QED
    BY <2>2
    DEF DevNext, WatchStep, Save, BuildRead, Take, StartListener, Interrupted, NotYet, Fire,
        Observe, Built, Verified, Prepare, CheckPolicy, CheckTree, Activate, Request, devVars
<1> QED
  BY DevInvariance, <1>1, PTL DEF DevSpec, PolicyBarrier
=============================================================================
