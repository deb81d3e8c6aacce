------------------------------- MODULE Server -------------------------------
(***************************************************************************)
(* The HTTP server: the accept loop of crates/qqq-io/src/listener.rs, the   *)
(* connection tasks that `serve` of crates/qqq-serve/src/server.rs spawns,   *)
(* the connection state machine and the ledger of                           *)
(* crates/qqq-serve/src/conn.rs, and the graceful drain.                    *)
(*                                                                         *)
(* A task passes the global connection budget and its tenant's ceiling,     *)
(* shakes hands, then serves requests in a loop until something closes the  *)
(* connection; every way out gives the ledger slot back and honours the     *)
(* bound on accepted connections.  Signal, accept loop, tasks and drain     *)
(* interleave at every await.  Shutdown::wait polls the flag every 5 ms, so *)
(* what was already arriving may win against the signal.                    *)
(*                                                                         *)
(* Clocks are left out: a deadline that is armed may pass at any moment.    *)
(* What a request asks for and what a handler answers is a choice.          *)
(***************************************************************************)
EXTENDS Integers, FiniteSets

CONSTANTS
    Conns,          \* connections, in the order of nobody
    Tenants,        \* the tenants their peers belong to
    Ceiling,        \* ConnectionLedger::ceiling_for
    GlobalBudget,   \* budget of the global connection bucket per window
    AcceptLimit,    \* ServerConfig::accept_limit
    MaxRequests,    \* ConnectionConfig::max_requests
    NoTenant

ASSUME ServerAssumption ==
    /\ IsFiniteSet(Conns)
    /\ Ceiling \in [Tenants -> Nat]
    /\ GlobalBudget \in Nat \ {0}
    /\ AcceptLimit \in Nat \ {0}
    /\ MaxRequests \in Nat \ {0}
    /\ NoTenant \notin Tenants

VARIABLES
    server,     \* "accepting", "draining", "stopped"
    signalled,  \* Shutdown::flag
    accepted,   \* connections accepted
    window,     \* GlobalBucket::count
    counts,     \* ConnectionLedger::counts
    at,         \* where each connection's task is
    tenant,     \* ConnectionId::tenant
    served,     \* Connection::served
    keep,       \* Connection::client_wants_keep_alive
    late        \* history: requests whose head was read after the signal

connVars == <<served, keep, late>>
vars == <<server, signalled, accepted, window, counts, at, tenant, connVars>>

Running == {"top", "head", "handle", "running", "timedOut", "respond", "session"}
Holding == Running \cup {"handshake", "closing"}
Holders(t) == {c \in Conns : at[c] \in Holding /\ tenant[c] = t}
Finished == {"none", "ended", "aborted"}

TypeOK ==
    /\ server \in {"accepting", "draining", "stopped"}
    /\ signalled \in BOOLEAN
    /\ accepted \in Nat
    /\ window \in 0..GlobalBudget
    /\ counts \in [Tenants -> Nat]
    /\ at \in [Conns -> Holding \cup Finished \cup {"spawned", "stopping"}]
    /\ tenant \in [Conns -> Tenants \cup {NoTenant}]
    /\ served \in [Conns -> 0..MaxRequests]
    /\ keep \in [Conns -> BOOLEAN]
    /\ late \in [Conns -> Nat]

Init ==
    /\ server = "accepting"
    /\ signalled = FALSE
    /\ accepted = 0
    /\ window = 0
    /\ counts = [t \in Tenants |-> 0]
    /\ at = [c \in Conns |-> "none"]
    /\ tenant = [c \in Conns |-> NoTenant]
    /\ served = [c \in Conns |-> 0]
    /\ keep = [c \in Conns |-> TRUE]
    /\ late = [c \in Conns |-> 0]

GoTo(c, s) == at' = [at EXCEPT ![c] = s]

(* A return from serve_negotiated_stream, whatever its Served outcome. *)
Close(c) == GoTo(c, "closing")

loopVars == <<server, signalled, accepted>>
ledgerVars == <<window, counts, tenant>>

-----------------------------------------------------------------------------
(* The accept loop. *)

(* The select takes a connection, also when the signal is not yet noticed;
   the callback counts it and spawns its task. *)
Accept(c, t) ==
    /\ server = "accepting"
    /\ at[c] = "none"
    /\ accepted' = accepted + 1
    /\ tenant' = [tenant EXCEPT ![c] = t]
    /\ GoTo(c, "spawned")
    /\ UNCHANGED <<server, signalled, window, counts, connVars>>

(* accept_stream returns, for the signal or because the listener failed;
   drain_tasks signals in either case. *)
AcceptEnds ==
    /\ server = "accepting"
    /\ server' = "draining"
    /\ signalled' = TRUE
    /\ UNCHANGED <<accepted, ledgerVars, at, connVars>>

(* The signal of the operator. *)
Signal ==
    /\ ~signalled
    /\ signalled' = TRUE
    /\ UNCHANGED <<server, accepted, ledgerVars, at, connVars>>

(* drain_tasks: all tasks are joined. *)
Joined ==
    /\ server = "draining"
    /\ \A c \in Conns : at[c] \in Finished
    /\ server' = "stopped"
    /\ UNCHANGED <<signalled, accepted, ledgerVars, at, connVars>>

(* Faulty form of DrainTimeout: the drain waits for tasks that still run. *)
DrainTimeoutIdle ==
    /\ server = "draining"
    /\ \A c \in Conns : at[c] \notin Running
    /\ server' = "stopped"
    /\ at' = [c \in Conns |-> IF at[c] \in Finished THEN at[c] ELSE "aborted"]
    /\ UNCHANGED <<signalled, accepted, ledgerVars, connVars>>

(* drain_tasks: the timeout passes first, the remaining tasks are aborted at
   their awaits. *)
DrainTimeout ==
    /\ server = "draining"
    /\ server' = "stopped"
    /\ at' = [c \in Conns |-> IF at[c] \in Finished THEN at[c] ELSE "aborted"]
    /\ UNCHANGED <<signalled, accepted, ledgerVars, connVars>>

-----------------------------------------------------------------------------
(* A connection's task, up to its first request. *)

(* GlobalBucket::admit: a window that is over begins anew. *)
GlobalAdmits == window' = 1 \/ (window < GlobalBudget /\ window' = window + 1)
GlobalRefuses == window >= GlobalBudget /\ UNCHANGED window

(* Faulty form of LedgerAdmits: one more than the ceiling. *)
LedgerAdmitsOneMore(t) == counts[t] <= Ceiling[t]

(* ConnectionLedger::admit. *)
LedgerAdmits(t) == counts[t] < Ceiling[t]

(* Faulty form of Refused: a refused connection ends without the bound. *)
RefusedQuietly(c) == GoTo(c, "ended")

(* close_refused, then the task goes on to stop_after_the_bound. *)
Refused(c) == GoTo(c, "stopping")

(* The two admissions at the beginning of the task. *)
Admit(c) ==
    LET t == tenant[c] IN
    /\ at[c] = "spawned"
    /\ \/ GlobalRefuses /\ Refused(c) /\ UNCHANGED counts
       \/ GlobalAdmits /\ ~LedgerAdmits(t) /\ Refused(c) /\ UNCHANGED counts
       \/ /\ GlobalAdmits
          /\ LedgerAdmits(t)
          /\ counts' = [counts EXCEPT ![t] = @ + 1]
          /\ GoTo(c, "handshake")
    /\ UNCHANGED <<loopVars, tenant, connVars>>

(* open_conn_stream and serve_negotiated_stream: TLS may fail or time out and
   ALPN may be refused; HTTP/2 is one session, HTTP/1 enters the loop. *)
Handshake(c) ==
    /\ at[c] = "handshake"
    /\ GoTo(c, "top") \/ GoTo(c, "session") \/ Close(c)
    /\ UNCHANGED <<loopVars, ledgerVars, connVars>>

-----------------------------------------------------------------------------
(* serve_connection. *)

(* Faulty form of Top: the loop does not look at the signal. *)
TopUnaware(c) ==
    /\ at[c] = "top"
    /\ GoTo(c, "head") \/ Close(c)
    /\ UNCHANGED <<loopVars, ledgerVars, connVars>>

(* The top of the loop: act_on_poll closes past the header deadline of a new
   connection or the idle deadline of a used one; begin_drain_if_signalled
   closes a connection that is between requests, so that it serves on only
   without the signal; else begin_request. *)
Top(c) ==
    /\ at[c] = "top"
    /\ Close(c) \/ (~signalled /\ GoTo(c, "head"))
    /\ UNCHANGED <<loopVars, ledgerVars, connVars>>

(* read_head and on_request_parsed: a head that is complete in the buffer, or
   arrives before the signal is noticed, is served. *)
HeadRead(c, wants) ==
    /\ at[c] = "head"
    /\ GoTo(c, "handle")
    /\ keep' = [keep EXCEPT ![c] = wants]
    /\ late' = [late EXCEPT ![c] = IF signalled THEN @ + 1 ELSE @]
    /\ UNCHANGED <<loopVars, ledgerVars, served>>

(* read_head fails: the peer is gone, the head does not parse, the header
   deadline has passed (it runs from the entry, whether a byte came or not),
   or the signal was noticed. *)
HeadFails(c) ==
    /\ at[c] = "head"
    /\ Close(c)
    /\ UNCHANGED <<loopVars, ledgerVars, connVars>>

(* The host check, the global request budget, the declared body size, the rate
   limit and the auth policy each refuse the request and its connection. *)
RefuseBeforeReading(c) == Close(c)

(* Metrics, preflight and a body where none is allowed answer and close; SSE,
   WebSocket and streaming routes take the connection over. *)
SpecialRoute(c) == Close(c) \/ GoTo(c, "session")

(* The body is read, or is too large, too slow or cut off, and rejected. *)
DrainBody(c) == Close(c) \/ GoTo(c, "running")

Handle(c) ==
    /\ at[c] = "handle"
    /\ RefuseBeforeReading(c) \/ SpecialRoute(c) \/ DrainBody(c)
    /\ UNCHANGED <<loopVars, ledgerVars, connVars>>

(* dispatch_off_thread answers (a panic of the handler is an answer), or the
   handler's time bound passes and a 504 takes its place. *)
HandlerEnds(c) ==
    /\ at[c] = "running"
    /\ GoTo(c, "respond") \/ GoTo(c, "timedOut")
    /\ UNCHANGED <<loopVars, ledgerVars, connVars>>

(* will_keep_alive(false): the header of the response. *)
WillKeepAlive(c) == keep[c] /\ served[c] + 1 < MaxRequests

(* write_flat_response and on_response_sent: a write that fails ends the
   connection; after a timed-out handler it is closed whatever the header of
   the response says. *)
Respond(c) ==
    /\ at[c] \in {"respond", "timedOut"}
    /\ \/ Close(c) /\ UNCHANGED served
       \/ /\ served' = [served EXCEPT ![c] = @ + 1]
          /\ IF at[c] = "respond" /\ WillKeepAlive(c) THEN GoTo(c, "top") ELSE Close(c)
    /\ UNCHANGED <<loopVars, ledgerVars, keep, late>>

(* SSE, WebSocket, streaming and HTTP/2 end on their own, by the idle rule, or
   because they watch the signal. *)
SessionEnds(c) ==
    /\ at[c] = "session"
    /\ Close(c)
    /\ UNCHANGED <<loopVars, ledgerVars, connVars>>

-----------------------------------------------------------------------------
(* The end of the task. *)

(* ledger.release, saturating like the code; the Connection is gone. *)
Release(c) ==
    LET t == tenant[c] IN
    /\ at[c] = "closing"
    /\ counts' = [counts EXCEPT ![t] = IF @ > 0 THEN @ - 1 ELSE 0]
    /\ GoTo(c, "stopping")
    /\ served' = [served EXCEPT ![c] = 0]
    /\ keep' = [keep EXCEPT ![c] = TRUE]
    /\ late' = [late EXCEPT ![c] = 0]
    /\ UNCHANGED <<loopVars, window, tenant>>

(* stop_after_the_bound: the last step of every task. *)
StopAfterTheBound(c) ==
    /\ at[c] = "stopping"
    /\ signalled' = (signalled \/ accepted >= AcceptLimit)
    /\ GoTo(c, "ended")
    /\ tenant' = [tenant EXCEPT ![c] = NoTenant]
    /\ UNCHANGED <<server, accepted, window, counts, connVars>>

(* An aborted runtime takes no step. *)
Task(c) ==
    /\ server # "stopped"
    /\ \/ Admit(c) \/ Handshake(c) \/ Top(c) \/ HeadFails(c) \/ Handle(c)
       \/ HandlerEnds(c) \/ Respond(c) \/ SessionEnds(c) \/ Release(c)
       \/ StopAfterTheBound(c)
       \/ \E wants \in BOOLEAN : HeadRead(c, wants)

Next ==
    \/ \E c \in Conns, t \in Tenants : Accept(c, t)
    \/ \E c \in Conns : Task(c)
    \/ AcceptEnds \/ Signal \/ Joined \/ DrainTimeout

(* The accept loop watches the signal and the drain has its timer.  Nothing is
   assumed of the tasks: a peer may never read, a handler never return. *)
Spec ==
    Init /\ [][Next]_vars
    /\ WF_vars(signalled /\ AcceptEnds) /\ WF_vars(Joined \/ DrainTimeout)

-----------------------------------------------------------------------------
(* Properties. *)

(* The ledger counts the connections that hold a slot, of every tenant, on
   every way out of a task, and no tenant exceeds its ceiling. *)
LedgerExact ==
    server # "stopped" =>
        \A t \in Tenants :
            counts[t] = Cardinality(Holders(t)) /\ counts[t] <= Ceiling[t]

(* A server that has accepted its bound of connections, refused ones included,
   and has finished with all of them is told to stop: it does not run on. *)
BoundHonoured ==
    accepted >= AcceptLimit /\ (\A c \in Conns : at[c] \in Finished) => signalled

(* A connection begins at most one request after the signal. *)
OneRequestAfterSignal == \A c \in Conns : late[c] <= 1

(* Once signalled the server stops, whatever its peers and handlers do. *)
DrainTerminates == signalled ~> server = "stopped"
=============================================================================
