----------------------------- MODULE Admission ------------------------------
(***************************************************************************)
(* What the buffer budget promises, without the request path around it     *)
(* (src/server.rs `BufferBudget`): a request is refused, shed, or given at *)
(* once everything it asks for; it gives everything back, once, and        *)
(* eventually; a permit has one owner at a time.                           *)
(***************************************************************************)
EXTENDS BufferBudget, FiniteSetsExt

CONSTANTS
  Requests,           \* the requests that may arrive
  Lengths             \* the Content-Length values a request may declare

VARIABLES
  stage,              \* how far each request got with the budget
  held                \* the permits each request holds

vars == <<stage, held>>

Free == Permits \ UNION {held[r] : r \in Requests}

Init ==
  /\ stage = [r \in Requests |-> "new"]
  /\ held = [r \in Requests |-> {}]

Refuse(r) ==
  /\ stage[r] = "new"
  /\ stage' = [stage EXCEPT ![r] = "over"]
  /\ UNCHANGED held

\* try_acquire: no queueing, the request is turned away at once.
Shed(r) ==
  /\ stage[r] = "new"
  /\ \E n \in Lengths : n <= MaxBodyBytes /\ Cardinality(Free) < Want(n)
  /\ stage' = [stage EXCEPT ![r] = "shed"]
  /\ UNCHANGED held

Admit(r) ==
  /\ stage[r] = "new"
  /\ \E n \in Lengths :
       /\ n <= MaxBodyBytes
       /\ \E P \in kSubset(Want(n), Free) : held' = [held EXCEPT ![r] = P]
  /\ stage' = [stage EXCEPT ![r] = "admitted"]

GiveBack(r) ==
  /\ stage[r] = "admitted"
  /\ stage' = [stage EXCEPT ![r] = "over"]
  /\ held' = [held EXCEPT ![r] = {}]

Next == \E r \in Requests : Refuse(r) \/ Shed(r) \/ Admit(r) \/ GiveBack(r)

\* The steps alone, and with what the budget owes in the end.
Safety == Init /\ [][Next]_vars

Spec == Safety /\ \A r \in Requests : WF_vars(GiveBack(r))
=============================================================================
