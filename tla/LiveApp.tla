------------------------------- MODULE LiveApp -------------------------------
(***************************************************************************)
(* crates/qqq-run/src/live.rs: the live HTTP component, a Registry with one *)
(* entry ("app") and room for retired generations, shared by the request   *)
(* handlers and by coordinators that replace the code.                     *)
(*                                                                         *)
(* A call of replace_checked is a sequence of registry calls with the      *)
(* compilation of the candidate in between; the steps of several           *)
(* coordinators, of requests and of remove() interleave freely.  The       *)
(* coordinator's lease on the current generation is leases[w], its lock    *)
(* on the preparation mutex is `preparing`.                                *)
(***************************************************************************)
EXTENDS Generations

CONSTANTS
    App,           \* the only name, "app"
    Coordinators,  \* threads that call replace / replace_checked
    NoOne          \* nobody holds the preparation mutex

ASSUME LiveAssumption ==
    /\ Names = {App}
    /\ Coordinators \subseteq Clients
    /\ NoOne \notin Coordinators
    /\ Capacity >= 1
    /\ MaxRevision >= 2

VARIABLES
    step,       \* where each coordinator is in replace_checked
    token,      \* the revision of its Update, None when it has none
    displaced,  \* the generation its publish displaced, until it drops it
    preparing   \* the coordinator that holds the preparation mutex

liveVars == <<step, token, displaced, preparing>>
allVars == <<vars, liveVars>>

Requests == Clients \ Coordinators
Steps == {"idle", "locked", "current", "reserved", "failed", "ready", "published"}
TokenOf(w) == [name |-> App, revision |-> token[w]]

LiveTypeOK ==
    /\ TypeOK
    /\ step \in [Coordinators -> Steps]
    /\ token \in [Coordinators -> {None} \cup Revisions]
    /\ displaced \in [Coordinators -> {None} \cup Revisions]
    /\ preparing \in Coordinators \cup {NoOne}

(* LiveApp::new: the first generation is reserved and published, which takes
   the revisions 1 and 2, before the handle is shared. *)
LiveInit ==
    /\ revision = 2
    /\ requested = [n \in Names |-> 1]
    /\ active = [n \in Names |-> 1]
    /\ issued = [n \in Names |-> 1]
    /\ removedAt = [n \in Names |-> None]
    /\ retired = {}
    /\ updates = {}
    /\ leases = [c \in Clients |-> None]
    /\ previous = {}
    /\ step = [w \in Coordinators |-> "idle"]
    /\ token = [w \in Coordinators |-> None]
    /\ displaced = [w \in Coordinators |-> None]
    /\ preparing = NoOne

GoTo(w, s) == step' = [step EXCEPT ![w] = s]

(* The mutex guard goes out of scope when replace_checked returns. *)
Return(w) == GoTo(w, "idle") /\ preparing' = NoOne

-----------------------------------------------------------------------------
(* preparing.try_lock: a second preparation is refused at once. *)
ReplaceTryLock(w) ==
    /\ step[w] = "idle"
    /\ preparing = NoOne
    /\ preparing' = w
    /\ GoTo(w, "locked")
    /\ UNCHANGED <<vars, token, displaced>>

(* self.acquire()?: pin the current code, or return its error. *)
ReplaceAcquire(w) ==
    /\ step[w] = "locked"
    /\ \/ Acquire(w, App) /\ GoTo(w, "current") /\ UNCHANGED preparing
       \/ active[App] = None /\ Return(w) /\ UNCHANGED vars
    /\ UNCHANGED <<token, displaced>>

(* registry.reserve("app")?: a refusal drops the lease and returns. *)
ReplaceReserve(w) ==
    /\ step[w] = "current"
    /\ \/ /\ Reserve(App)
          /\ token' = [token EXCEPT ![w] = revision + 1]
          /\ GoTo(w, "reserved")
          /\ UNCHANGED preparing
       \/ /\ ~CanAdvance
          /\ DropLease(w)
          /\ Return(w)
          /\ UNCHANGED token
    /\ UNCHANGED displaced

(* Faulty form of ReplaceRejected: the reservation is dropped, not cancelled. *)
ReplaceRejectedSilently(w) ==
    /\ step[w] = "reserved"
    /\ Abandon(TokenOf(w))
    /\ token' = [token EXCEPT ![w] = None]
    /\ GoTo(w, "failed")
    /\ UNCHANGED <<displaced, preparing>>

(* The candidate does not compile or validate, or the coordinator's check
   fails: the reservation is cancelled and the outcome of that is ignored. *)
ReplaceRejected(w) ==
    /\ step[w] = "reserved"
    /\ \/ Cancel(TokenOf(w))
       \/ /\ ~Valid(TokenOf(w)) \/ (active[App] # None /\ ~CanAdvance)
          /\ Abandon(TokenOf(w))
    /\ token' = [token EXCEPT ![w] = None]
    /\ GoTo(w, "failed")
    /\ UNCHANGED <<displaced, preparing>>

(* Faulty form of ReplaceFailed: the preparation mutex stays locked. *)
ReplaceFailedLocked(w) ==
    /\ step[w] = "failed"
    /\ DropLease(w)
    /\ GoTo(w, "idle")
    /\ UNCHANGED <<token, displaced, preparing>>

ReplaceFailed(w) ==
    /\ step[w] = "failed"
    /\ DropLease(w)
    /\ Return(w)
    /\ UNCHANGED <<token, displaced>>

(* The candidate is ready: drop(current) comes before publish, so that this
   call's own lease does not pin the generation it replaces. *)
ReplaceReady(w) ==
    /\ step[w] = "reserved"
    /\ DropLease(w)
    /\ GoTo(w, "ready")
    /\ UNCHANGED <<token, displaced, preparing>>

ReplacePublish(w) ==
    /\ step[w] = "ready"
    /\ \/ /\ Publish(TokenOf(w))
          /\ displaced' = [displaced EXCEPT ![w] = active[App]]
          /\ GoTo(w, "published")
          /\ UNCHANGED preparing
       \/ /\ PublishRefused(TokenOf(w))
          /\ Return(w)
          /\ UNCHANGED displaced
    /\ token' = [token EXCEPT ![w] = None]

(* publish drops what it displaced before it returns. *)
ReplaceDone(w) ==
    /\ step[w] = "published"
    /\ IF displaced[w] = None THEN UNCHANGED vars ELSE DropPrevious(displaced[w])
    /\ displaced' = [displaced EXCEPT ![w] = None]
    /\ Return(w)
    /\ UNCHANGED token

Replace(w) ==
    \/ ReplaceTryLock(w) \/ ReplaceAcquire(w) \/ ReplaceReserve(w)
    \/ ReplaceRejected(w) \/ ReplaceFailed(w) \/ ReplaceReady(w)
    \/ ReplacePublish(w) \/ ReplaceDone(w)

(* The part of a replacement that runs on its own once it has begun. *)
ReplaceProceeds(w) == step[w] # "idle" /\ Replace(w)

(* answer: a request pins one generation for as long as the guest runs; with
   no active generation it is answered 503 and nothing changes. *)
AnswerBegin(c) == Acquire(c, App) /\ UNCHANGED liveVars
AnswerEnd(c) == DropLease(c) /\ UNCHANGED liveVars

(* remove, and the end of its scope; a refused remove only sweeps. *)
RemoveApp == Remove(App) /\ UNCHANGED liveVars
RemoveReturns(g) ==
    /\ g \notin {displaced[w] : w \in Coordinators}
    /\ DropPrevious(g)
    /\ UNCHANGED liveVars

(* draining. *)
Draining == Sweep /\ UNCHANGED liveVars

LiveNext ==
    \/ \E w \in Coordinators : Replace(w)
    \/ \E c \in Requests : AnswerBegin(c) \/ AnswerEnd(c)
    \/ RemoveApp
    \/ \E g \in previous : RemoveReturns(g)
    \/ Draining

(* A coordinator thread that has begun a replacement runs to its end. *)
LiveFairness == \A w \in Coordinators : WF_allVars(ReplaceProceeds(w))

LiveSpec == LiveInit /\ [][LiveNext]_allVars /\ LiveFairness

-----------------------------------------------------------------------------
(* Properties. *)

(* A preparation that has ended leaves no reservation behind: without an
   active generation the only entry is free again, so the app can come back.
   An exhausted counter is the exception, and ends every update. *)
NoLeakedReservation ==
    preparing = NoOne /\ CanAdvance => (requested[App] # None => active[App] # None)

(* The preparation mutex is released on every path through replace_checked. *)
PreparationEnds == preparing # NoOne ~> preparing = NoOne
=============================================================================
