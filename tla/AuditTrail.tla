----------------------------- MODULE AuditTrail -----------------------------
(***************************************************************************)
(* What the audit log promises, whatever queues, batches, timeouts and     *)
(* retries lie behind it: a request claims consecutive sequence numbers,   *)
(* the trail only ever grows, in sequence order, by rows that were         *)
(* claimed, and a request is told that its evidence is in place only when  *)
(* its rows are in the trail or a loss is on record.                       *)
(***************************************************************************)
EXTENDS Integers, Sequences

CONSTANTS Requests

VARIABLES
    assigned,  \* the last sequence number that was claimed
    rows,      \* the sequence numbers each request claimed
    trail,     \* the rows in the log
    losses,    \* the rows on record as lost
    answered   \* the requests whose persist succeeded

trailVars == <<assigned, rows, trail, losses, answered>>

InTrail(t) == {t[i] : i \in 1..Len(t)}

Init ==
    /\ assigned = 0
    /\ rows = [r \in Requests |-> {}]
    /\ trail = <<>>
    /\ losses = 0
    /\ answered = {}

(* A request commits its rows. *)
Claim(r) ==
    /\ rows[r] = {}
    /\ assigned' > assigned
    /\ rows' = [rows EXCEPT ![r] = (assigned + 1) .. assigned']
    /\ UNCHANGED <<trail, losses, answered>>

(* t extends the trail by later rows, in order. *)
Extends(t) ==
    /\ Len(t) >= Len(trail)
    /\ \A i \in 1..Len(trail) : t[i] = trail[i]
    /\ \A i, j \in 1..Len(t) : i < j => t[i] < t[j]
    /\ InTrail(t) \subseteq 1..assigned

(* Rows reach the log or are given up, and requests are answered. *)
Record ==
    /\ Extends(trail')
    /\ losses' >= losses
    /\ answered \subseteq answered'
    /\ \A r \in answered' \ answered :
          rows[r] # {} /\ (rows[r] \subseteq InTrail(trail') \/ losses' > 0)
    /\ UNCHANGED <<assigned, rows>>

Next == Record \/ \E r \in Requests : Claim(r)

Spec == Init /\ [][Next]_trailVars
=============================================================================
