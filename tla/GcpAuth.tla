------------------------------- MODULE GcpAuth -------------------------------
(***************************************************************************)
(* src/gcp_auth.rs: requests of GCP candidates call get_token.  The first  *)
(* detects the credentials inside tokio's OnceCell, the others queue for   *)
(* its permit; each network step has a timeout.  A caller is dropped at    *)
(* any wait when its client disconnects.                                   *)
(*                                                                         *)
(* The OnceCell is external: a fair one-permit semaphore handed straight   *)
(* to the first in the queue, and closed once the value is set.  Time is   *)
(* discrete; a task that can run does so before time passes.               *)
(***************************************************************************)
EXTENDS Integers, Sequences, FiniteSets, SequencesExt

CONSTANTS
  Callers,            \* the calls of get_token
  AuthTimeout         \* AUTH_TIMEOUT, in ticks

ASSUME AuthAssumption == IsFiniteSet(Callers) /\ AuthTimeout \in Nat \ {0}

VARIABLES
  detected,           \* the OnceCell has its value
  queue,              \* callers waiting for its permit, first come first
  pc,                 \* where a call is
  left,               \* ticks until its timeout
  ahead,              \* history: calls before it when it queued
  waited              \* history: ticks since the call

vars == <<detected, queue, pc, left, ahead, waited>>

Init ==
  /\ detected = FALSE
  /\ queue = <<>>
  /\ pc = [c \in Callers |-> "idle"]
  /\ left = [c \in Callers |-> 0]
  /\ ahead = [c \in Callers |-> 0]
  /\ waited = [c \in Callers |-> 0]

Timed == {"detecting", "fetching"}
Over  == {"token", "failed", "gone"}
Pending(c) == pc[c] \in Timed \cup {"queued"}

Detecting == {c \in Callers : pc[c] = "detecting"}

\* pc and left after the calls in `to`'s domain moved.
Go(to) ==
  /\ pc' = [c \in Callers |-> IF c \in DOMAIN to THEN to[c] ELSE pc[c]]
  /\ left' = [c \in Callers |->
                IF c \in DOMAIN to
                THEN (IF to[c] \in Timed THEN AuthTimeout ELSE 0)
                ELSE left[c]]

Alone(c, where) == [x \in {c} |-> where]

-----------------------------------------------------------------------------
(* provider(): get_or_try_init *)

Call(c) ==
  /\ pc[c] = "idle"
  /\ \/ /\ detected
        /\ Go(Alone(c, "fetching"))
        /\ UNCHANGED <<queue, ahead>>
     \/ /\ ~detected /\ Detecting = {}
        /\ Go(Alone(c, "detecting"))
        /\ UNCHANGED <<queue, ahead>>
     \/ /\ ~detected /\ Detecting # {}
        /\ Go(Alone(c, "queued"))
        /\ queue' = Append(queue, c)
        /\ ahead' = [ahead EXCEPT ![c] = Len(queue) + 1]
  /\ UNCHANGED <<detected, waited>>

\* A slip: the permit is dropped without waking anybody.
WakeNobody(c, where) ==
  /\ Go(Alone(c, where))
  /\ UNCHANGED queue

\* A slip: the last to come is served first.
ServeLast(c, where) ==
  /\ IF queue = <<>>
     THEN Go(Alone(c, where)) /\ UNCHANGED queue
     ELSE /\ Go([x \in {c, Last(queue)} |-> IF x = c THEN where ELSE "detecting"])
          /\ queue' = Front(queue)

\* The permit goes back without a value: the first of the queue owns it, and
\* runs a detection of its own.
PassPermit(c, where) ==
  /\ IF queue = <<>>
     THEN Go(Alone(c, where)) /\ UNCHANGED queue
     ELSE /\ Go([x \in {c, Head(queue)} |-> IF x = c THEN where ELSE "detecting"])
          /\ queue' = Tail(queue)

\* gcp_auth::provider() returns an error, or its timeout does.
DetectionFails(c) ==
  /\ pc[c] = "detecting"
  /\ PassPermit(c, "failed")
  /\ UNCHANGED <<detected, ahead, waited>>

\* The value is set and the semaphore closed: everybody goes on to the token.
DetectionSucceeds(c) ==
  /\ pc[c] = "detecting"
  /\ detected' = TRUE
  /\ Go([x \in {c} \cup ToSet(queue) |-> "fetching"])
  /\ queue' = <<>>
  /\ UNCHANGED <<ahead, waited>>

-----------------------------------------------------------------------------
(* get_token(): the fetch *)

FetchEnds(c) ==
  /\ pc[c] = "fetching"
  /\ \E end \in {"token", "failed"} : Go(Alone(c, end))
  /\ UNCHANGED <<detected, queue, ahead, waited>>

\* The client disconnects and hyper drops the handler, the permit or the
\* place in the queue with it.
Disconnect(c) ==
  /\ \/ pc[c] = "detecting" /\ PassPermit(c, "gone")
     \/ /\ pc[c] = "queued"
        /\ Go(Alone(c, "gone"))
        /\ \E n \in DOMAIN queue : queue[n] = c /\ queue' = RemoveAt(queue, n)
     \/ pc[c] = "fetching" /\ Go(Alone(c, "gone")) /\ UNCHANGED queue
  /\ UNCHANGED <<detected, ahead, waited>>

-----------------------------------------------------------------------------
\* A slip: the detection has no timeout.
FetchOnly == {"fetching"}

\* The steps that run under a timeout.
Bounded == Timed

\* Where the history variable stops counting, above what is claimed of it.
MaxWaited == (Cardinality(Callers) + 2) * AuthTimeout

\* A slip: a timer that is due may be overslept.
Oversleep == TRUE

\* A timeout that is due has to be taken before time goes on.
NoneDue == \A c \in Callers : pc[c] \in Bounded => left[c] > 0

Tick ==
  /\ \E c \in Callers : Pending(c)
  /\ NoneDue
  /\ left' = [c \in Callers |-> IF pc[c] \in Bounded THEN left[c] - 1 ELSE left[c]]
  /\ waited' = [c \in Callers |->
                  IF Pending(c) /\ waited[c] < MaxWaited THEN waited[c] + 1 ELSE waited[c]]
  /\ UNCHANGED <<detected, queue, pc, ahead>>

\* Every call is over.
Done ==
  /\ \A c \in Callers : pc[c] \in Over
  /\ UNCHANGED vars

\* What happens by itself once a timeout is due.
Expire(c) == left[c] = 0 /\ (DetectionFails(c) \/ FetchEnds(c))

Next ==
  \/ \E c \in Callers :
       \/ Call(c) \/ DetectionFails(c) \/ DetectionSucceeds(c)
       \/ FetchEnds(c) \/ Disconnect(c)
  \/ Tick \/ Done

\* Time passes and timers fire; nothing is assumed of the network.
Fairness == WF_vars(Tick) /\ \A c \in Callers : WF_vars(Expire(c))

Spec == Init /\ [][Next]_vars /\ Fairness

-----------------------------------------------------------------------------
TypeOK ==
  /\ detected \in BOOLEAN
  /\ queue \in Seq(Callers)
  /\ pc \in [Callers -> {"idle", "queued"} \cup Timed \cup Over]
  /\ left \in [Callers -> 0 .. AuthTimeout]
  /\ ahead \in [Callers -> Nat]
  /\ waited \in [Callers -> Nat]

\* At most one detection runs, and none beside or after a value; whoever
\* waits for it waits for one that is running, also when the caller that ran
\* it failed, timed out or was disconnected.
NobodyStranded ==
  /\ \A c, d \in Detecting : c = d
  /\ detected => Detecting = {}
  /\ queue # <<>> => Detecting # {}
  /\ \A c \in Callers : pc[c] = "queued" <=> c \in ToSet(queue)

\* A stuck endpoint holds a request for one timeout per caller that came
\* before it, one for its own detection and one for the token, not longer.
WaitBounded == \A c \in Callers : waited[c] <= (ahead[c] + 2) * AuthTimeout

\* Every call ends by itself.
CallsEnd == \A c \in Callers : Pending(c) ~> pc[c] \in Over
=============================================================================
