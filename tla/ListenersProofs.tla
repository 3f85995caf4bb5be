-------------------------- MODULE ListenersProofs --------------------------
(***************************************************************************)
(* The safety of the shutdown for every number of connections and every    *)
(* timeout.                                                                *)
(***************************************************************************)
EXTENDS Listeners, TLAPS

\* Without a metrics_listen there is no second listener, ever.
NoObs == ~hasObs => phase["obs"] = "stopped"

\* An open connection of a listener that is not accepting is busy, and one of
\* a listener that stopped was left behind by its timeout.
LeftBehind ==
  /\ \A l \in Listeners : expired[l] => phase[l] = "stopped"
  /\ \A k \in Conns :
       /\ conn[k] = "idle" => phase[owner[k]] = "accepting"
       /\ conn[k] = "busy" /\ phase[owner[k]] = "stopped" => expired[owner[k]]

\* The time used so far, and what the running drain may still use.
Clock ==
  /\ phase["proxy"] = "accepting" => elapsed = 0
  /\ phase["proxy"] = "draining" => elapsed + timer["proxy"] <= ShutdownTimeout
  /\ phase["proxy"] = "stopped" /\ phase["obs"] = "accepting" => elapsed <= ShutdownTimeout
  /\ hasObs /\ phase["obs"] = "draining" => elapsed + timer["obs"] <= 2 * ShutdownTimeout
  /\ ExitInTime

IInv ==
  /\ TypeOK
  /\ NoObs
  /\ ScrapesSurviveDrain
  /\ LeftBehind
  /\ CutOnlyAfterTimeout
  /\ Clock

\* The invariant holds when the listeners start to accept.
LEMMA ListenersInit == Init => IInv
<1> SUFFICES ASSUME Init PROVE IInv
  OBVIOUS
<1> USE ListenersAssumption DEF Init, Listeners, Present
<1>1. TypeOK
  BY DEF TypeOK
<1>2. NoObs /\ ScrapesSurviveDrain
  BY DEF NoObs, ScrapesSurviveDrain
<1>3. LeftBehind /\ CutOnlyAfterTimeout
  BY DEF LeftBehind, CutOnlyAfterTimeout
<1>4. Clock
  BY DEF Clock, ExitInTime
<1> QED
  BY <1>1, <1>2, <1>3, <1>4 DEF IInv

\* Connections come and go without touching the listeners.
LEMMA ConnStep ==
  ASSUME IInv,
         NEW k \in Conns,
         \/ \E l \in Listeners : Accept(k, l)
         \/ Request(k) \/ Answered(k) \/ ClientCloses(k)
  PROVE  IInv'
<1> USE DEF Listeners
<1>1. ASSUME NEW l \in Listeners, Accept(k, l) PROVE IInv'
  <2> USE <1>1 DEF Accept
  <2>1. TypeOK'
    BY DEF IInv, TypeOK
  <2>2. NoObs' /\ ScrapesSurviveDrain' /\ Clock'
    BY DEF IInv, NoObs, ScrapesSurviveDrain, Clock, ExitInTime
  <2>3. LeftBehind' /\ CutOnlyAfterTimeout'
    BY DEF IInv, TypeOK, LeftBehind, CutOnlyAfterTimeout
  <2> QED
    BY <2>1, <2>2, <2>3 DEF IInv
<1>2. ASSUME NEW from \in {"idle", "busy"}, NEW to \in {"idle", "busy", "closed"},
             Becomes(k, from, to),
             to = "idle" => phase[owner[k]] = "accepting"
      PROVE  IInv'
  <2> USE <1>2 DEF Becomes, listening
  <2>1. TypeOK'
    BY DEF IInv, TypeOK
  <2>2. NoObs' /\ ScrapesSurviveDrain' /\ Clock'
    BY DEF IInv, NoObs, ScrapesSurviveDrain, Clock, ExitInTime
  <2>3. LeftBehind' /\ CutOnlyAfterTimeout'
    BY DEF IInv, TypeOK, LeftBehind, CutOnlyAfterTimeout
  <2> QED
    BY <2>1, <2>2, <2>3 DEF IInv
<1>3. CASE Request(k)
  BY <1>2, <1>3 DEF Request
<1>4. CASE Answered(k)
  BY <1>2, <1>4 DEF Answered
<1>5. CASE ClientCloses(k)
  BY <1>2, <1>5 DEF ClientCloses
<1> QED
  BY <1>1, <1>3, <1>4, <1>5

\* A step of a listener keeps it.
LEMMA ListenerStep ==
  ASSUME IInv,
         NEW l \in Listeners,
         AcceptFails(l) \/ BreakLoop(l) \/ Drained(l) \/ DrainTimesOut(l)
  PROVE  IInv'
<1> USE ListenersAssumption DEF Listeners
<1>1. CASE AcceptFails(l)
  <2> USE <1>1 DEF AcceptFails
  <2>1. TypeOK'
    BY DEF IInv, TypeOK
  <2>2. NoObs' /\ ScrapesSurviveDrain' /\ Clock'
    BY DEF IInv, NoObs, ScrapesSurviveDrain, Clock, ExitInTime
  <2>3. LeftBehind' /\ CutOnlyAfterTimeout'
    BY DEF IInv, LeftBehind, CutOnlyAfterTimeout
  <2> QED
    BY <2>1, <2>2, <2>3 DEF IInv
<1>2. CASE BreakLoop(l)
  <2> USE <1>2 DEF BreakLoop, Told
  <2>1. TypeOK'
    BY DEF IInv, TypeOK, Deadline, CloseIdle
  <2>2. NoObs' /\ ScrapesSurviveDrain'
    BY DEF IInv, TypeOK, NoObs, ScrapesSurviveDrain
  <2>3. LeftBehind' /\ CutOnlyAfterTimeout'
    BY DEF IInv, TypeOK, LeftBehind, CutOnlyAfterTimeout, CloseIdle
  <2>4. Clock'
    BY DEF IInv, TypeOK, NoObs, Clock, ExitInTime, Deadline
  <2> QED
    BY <2>1, <2>2, <2>3, <2>4 DEF IInv
<1>3. ASSUME NEW late \in BOOLEAN, Stops(l, late), late \/ AllDrained(l) PROVE IInv'
  <2> USE <1>3 DEF Stops
  <2>1. TypeOK'
    BY DEF IInv, TypeOK
  <2>2. NoObs' /\ ScrapesSurviveDrain'
    BY DEF IInv, TypeOK, NoObs, ScrapesSurviveDrain
  <2>3. LeftBehind' /\ CutOnlyAfterTimeout'
    BY DEF IInv, TypeOK, LeftBehind, CutOnlyAfterTimeout, AllDrained, Busy
  <2>4. Clock'
    BY DEF IInv, TypeOK, NoObs, ScrapesSurviveDrain, Clock, ExitInTime
  <2> QED
    BY <2>1, <2>2, <2>3, <2>4 DEF IInv
<1>4. CASE Drained(l)
  BY <1>3, <1>4 DEF Drained
<1>5. CASE DrainTimesOut(l)
  BY <1>3, <1>5 DEF DrainTimesOut
<1> QED
  BY <1>1, <1>2, <1>4, <1>5

\* So does the signal, the clock or the end of the process.
LEMMA ProcessStep ==
  ASSUME IInv, Exit \/ Signal \/ Tick
  PROVE  IInv'
<1> USE ListenersAssumption DEF Listeners
<1>1. CASE Exit
  <2> USE <1>1 DEF Exit, listening
  <2>1. TypeOK'
    BY DEF IInv, TypeOK
  <2>2. NoObs' /\ ScrapesSurviveDrain' /\ Clock'
    BY DEF IInv, NoObs, ScrapesSurviveDrain, Clock, ExitInTime
  <2>3. LeftBehind' /\ CutOnlyAfterTimeout'
    BY DEF IInv, TypeOK, LeftBehind, CutOnlyAfterTimeout
  <2> QED
    BY <2>1, <2>2, <2>3 DEF IInv
<1>2. CASE Signal
  <2> USE <1>2 DEF Signal
  <2>1. TypeOK'
    BY DEF IInv, TypeOK
  <2>2. NoObs' /\ ScrapesSurviveDrain' /\ Clock'
    BY DEF IInv, NoObs, ScrapesSurviveDrain, Clock, ExitInTime
  <2>3. LeftBehind' /\ CutOnlyAfterTimeout'
    BY DEF IInv, LeftBehind, CutOnlyAfterTimeout
  <2> QED
    BY <2>1, <2>2, <2>3 DEF IInv
<1>3. CASE Tick
  <2> USE <1>3 DEF Tick
  <2>1. TypeOK'
    BY DEF IInv, TypeOK, Ready
  <2>2. NoObs' /\ ScrapesSurviveDrain'
    BY DEF IInv, NoObs, ScrapesSurviveDrain
  <2>3. LeftBehind' /\ CutOnlyAfterTimeout'
    BY DEF IInv, LeftBehind, CutOnlyAfterTimeout
  <2>4. Clock'
    \* Time passes in exactly one drain: the proxy's, or the other's after it.
    <3>1. \/ phase["proxy"] = "draining" /\ (hasObs => phase["obs"] = "accepting")
          \/ phase["proxy"] = "stopped" /\ hasObs /\ phase["obs"] = "draining"
      BY DEF IInv, TypeOK, NoObs, ScrapesSurviveDrain, Clock, Ready, Told
    <3>2. timer["proxy"] \in Nat /\ timer["obs"] \in Nat /\ elapsed \in Nat
      BY DEF IInv, TypeOK
    <3>3. /\ phase["proxy"] = "draining" =>
               timer["proxy"] # 0 /\ timer'["proxy"] = timer["proxy"] - 1
          /\ phase["obs"] = "draining" =>
               timer["obs"] # 0 /\ timer'["obs"] = timer["obs"] - 1
      BY DEF Ready
    <3> QED
      BY <3>1, <3>2, <3>3 DEF IInv, NoObs, Clock, ExitInTime
  <2> QED
    BY <2>1, <2>2, <2>3, <2>4 DEF IInv
<1> QED
  BY <1>1, <1>2, <1>3

\* Hence every step does.
LEMMA ListenersNext == IInv /\ [Next]_vars => IInv'
<1> SUFFICES ASSUME IInv, [Next]_vars PROVE IInv'
  OBVIOUS
<1>1. CASE UNCHANGED vars
  BY <1>1 DEF vars, listening, IInv, TypeOK, NoObs, ScrapesSurviveDrain, LeftBehind,
     CutOnlyAfterTimeout, Clock, ExitInTime
<1>2. CASE Next
  BY <1>1, <1>2, ConnStep, ListenerStep, ProcessStep DEF Next, Gone
<1> QED
  BY <1>1, <1>2

\* And it always holds.
LEMMA ListenersInvariant == Spec => []IInv
  BY ListenersInit, ListenersNext, PTL DEF Spec

\* Every variable keeps its type.
THEOREM ListenersTypeCorrect == Spec => []TypeOK
<1>1. IInv => TypeOK
  BY DEF IInv
<1> QED
  BY <1>1, ListenersInvariant, PTL

\* run_servers: the observability listener accepts until the proxy has
\* returned, and the health flag tells the drain.
THEOREM ListenersScrapesSurviveDrain == Spec => []ScrapesSurviveDrain
<1>1. IInv => ScrapesSurviveDrain
  BY DEF IInv
<1> QED
  BY <1>1, ListenersInvariant, PTL

\* No request in progress is cut by a drain that ended in time.
THEOREM ListenersCutOnlyAfterTimeout == Spec => []CutOnlyAfterTimeout
<1>1. IInv => CutOnlyAfterTimeout
  BY DEF IInv
<1> QED
  BY <1>1, ListenersInvariant, PTL

\* One timeout for each listener bounds the way to the exit.
THEOREM ListenersExitInTime == Spec => []ExitInTime
<1>1. IInv => ExitInTime
  BY DEF IInv, Clock
<1> QED
  BY <1>1, ListenersInvariant, PTL
=============================================================================
