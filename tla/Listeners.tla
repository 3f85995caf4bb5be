------------------------------ MODULE Listeners ------------------------------
(***************************************************************************)
(* The listeners of sturnus from the first accept to the end of the        *)
(* process: src/server.rs run_servers and run_server_with_role, and the    *)
(* end of main.  Each listener accepts until it is told to stop, drains    *)
(* its connections under a timeout, and the observability listener is told *)
(* by the proxy's return.  Connections are tasks of their own, which only  *)
(* the end of the process takes down.                                      *)
(*                                                                         *)
(* Time is discrete; a task that can run does so before time passes.       *)
(***************************************************************************)
EXTENDS Integers

CONSTANTS
  Conns,              \* connections clients may open
  ShutdownTimeout     \* shutdown_timeout_secs, in ticks

ASSUME ListenersAssumption == ShutdownTimeout \in Nat

Listeners == {"proxy", "obs"}

VARIABLES
  hasObs,             \* metrics_listen is configured
  signal,             \* SIGTERM or SIGINT arrived
  phase,              \* a listener: "accepting", "draining" or "stopped"
  erred,              \* its last accept failed
  timer,              \* ticks left of its drain
  expired,            \* its drain ended by the timeout
  shuttingDown,       \* AppState.shutting_down
  conn,               \* what a connection is doing
  owner,              \* the listener that accepted it
  elapsed,            \* history: ticks since the proxy stopped accepting
  exited              \* main returned

listening == <<hasObs, signal, phase, erred, timer, expired, shuttingDown, elapsed>>
vars == <<listening, conn, owner, exited>>

Present(l) == l = "proxy" \/ hasObs

Init ==
  /\ hasObs \in BOOLEAN
  /\ signal = FALSE
  /\ phase = [l \in Listeners |-> IF Present(l) THEN "accepting" ELSE "stopped"]
  /\ erred = [l \in Listeners |-> FALSE]
  /\ timer = [l \in Listeners |-> 0]
  /\ expired = [l \in Listeners |-> FALSE]
  /\ shuttingDown = FALSE
  /\ conn = [k \in Conns |-> "new"]
  /\ owner = [k \in Conns |-> "proxy"]
  /\ elapsed = 0
  /\ exited = FALSE

\* A slip: the observability listener waits for the same signal.
SharedSignal(l) == signal

\* The listener's `shutdown` future is ready: the signal for the proxy, the
\* oneshot sent when the proxy's run returned for the other.
Told(l) == IF l = "proxy" THEN signal ELSE phase["proxy"] = "stopped"

Busy(l) == {k \in Conns : owner[k] = l /\ conn[k] = "busy"}

-----------------------------------------------------------------------------
(* Clients and connections *)

Accept(k, l) ==
  /\ ~exited /\ conn[k] = "new" /\ phase[l] = "accepting"
  /\ conn' = [conn EXCEPT ![k] = "idle"]
  /\ owner' = [owner EXCEPT ![k] = l]
  /\ erred' = [erred EXCEPT ![l] = FALSE]
  /\ UNCHANGED <<hasObs, signal, phase, timer, expired, shuttingDown, elapsed, exited>>

\* `continue`: the loop goes round at once, and may for ever.
AcceptFails(l) ==
  /\ ~exited /\ phase[l] = "accepting"
  /\ erred' = [erred EXCEPT ![l] = TRUE]
  /\ UNCHANGED <<hasObs, signal, phase, timer, expired, shuttingDown, conn, owner, elapsed, exited>>

Becomes(k, from, to) ==
  /\ ~exited /\ conn[k] = from
  /\ conn' = [conn EXCEPT ![k] = to]
  /\ UNCHANGED <<listening, owner, exited>>

\* A request begins on an idle connection.  Idle ones are closed with the
\* drain's start, so the listener still accepts.
Request(k) == Becomes(k, "idle", "busy")

\* The answer is out: keep-alive, unless the listener drains or is gone.
Answered(k) ==
  Becomes(k, "busy", IF phase[owner[k]] = "accepting" THEN "idle" ELSE "closed")

ClientCloses(k) == \E from \in {"idle", "busy"} : Becomes(k, from, "closed")

-----------------------------------------------------------------------------
(* run_server_with_role *)

\* A slip: a biased select!, which looks for connections first.
AfterAccepts(l) == ~erred[l]

\* select! polls its branches in random order: a ready shutdown is taken
\* whatever accept does.
MayBreak(l) == TRUE

\* GracefulShutdown: idle connections close, busy ones finish their request.
CloseIdle(l) ==
  [k \in Conns |-> IF owner[k] = l /\ conn[k] = "idle" THEN "closed" ELSE conn[k]]

\* A slip: a tick too long.
PaddedDeadline == ShutdownTimeout + 1

Deadline == ShutdownTimeout

\* The loop breaks, the listener is dropped, the connections are told.
BreakLoop(l) ==
  /\ ~exited /\ phase[l] = "accepting" /\ Told(l) /\ MayBreak(l)
  /\ phase' = [phase EXCEPT ![l] = "draining"]
  /\ timer' = [timer EXCEPT ![l] = Deadline]
  /\ shuttingDown' = TRUE
  /\ conn' = CloseIdle(l)
  /\ UNCHANGED <<hasObs, signal, erred, expired, owner, elapsed, exited>>

Stops(l, late) ==
  /\ phase[l] = "draining"
  /\ phase' = [phase EXCEPT ![l] = "stopped"]
  /\ expired' = [expired EXCEPT ![l] = late]
  /\ UNCHANGED <<hasObs, signal, erred, timer, shuttingDown, conn, owner, elapsed, exited>>

\* A slip: the drain ends with the first connection that closed.
SomeDrained(l) == \E k \in Conns : owner[k] = l /\ conn[k] = "closed"

AllDrained(l) == Busy(l) = {}

Drained(l) == AllDrained(l) /\ Stops(l, FALSE)

\* "drain timeout reached, dropping remaining connections"
DrainTimesOut(l) == timer[l] = 0 /\ Stops(l, TRUE)

\* main returns when the last listener has; the runtime takes every
\* connection down with it.
Exit ==
  /\ ~exited /\ \A l \in Listeners : phase[l] = "stopped"
  /\ exited' = TRUE
  /\ conn' = [k \in Conns |-> IF conn[k] \in {"idle", "busy"} THEN "cut" ELSE conn[k]]
  /\ UNCHANGED <<listening, owner>>

-----------------------------------------------------------------------------
Signal ==
  /\ ~signal /\ signal' = TRUE
  /\ UNCHANGED <<hasObs, phase, erred, timer, expired, shuttingDown, conn, owner, elapsed, exited>>

\* A slip: tasks may oversleep.
NeverReady(l) == FALSE

\* What the process does without waiting for anything.
Ready(l) ==
  \/ phase[l] = "accepting" /\ Told(l)
  \/ phase[l] = "draining" /\ (timer[l] = 0 \/ AllDrained(l))

Tick ==
  /\ \E l \in Listeners : phase[l] = "draining"
  /\ \A l \in Listeners : ~Ready(l)
  /\ timer' = [l \in Listeners |->
                 IF phase[l] = "draining" THEN timer[l] - 1 ELSE timer[l]]
  /\ elapsed' = elapsed + 1
  /\ UNCHANGED <<hasObs, signal, phase, erred, expired, shuttingDown, conn, owner, exited>>

\* The process is gone.
Gone == exited /\ UNCHANGED vars

Next ==
  \/ \E k \in Conns :
       \/ \E l \in Listeners : Accept(k, l)
       \/ Request(k) \/ Answered(k) \/ ClientCloses(k)
  \/ \E l \in Listeners :
       AcceptFails(l) \/ BreakLoop(l) \/ Drained(l) \/ DrainTimesOut(l)
  \/ Exit \/ Signal \/ Tick \/ Gone

\* The runtime's scheduling, and time.  Nothing is assumed of the clients or
\* of the accepts.
Fairness ==
  /\ \A l \in Listeners :
       WF_vars(BreakLoop(l)) /\ WF_vars(Drained(l)) /\ WF_vars(DrainTimesOut(l))
  /\ WF_vars(Tick) /\ WF_vars(Exit)

Spec == Init /\ [][Next]_vars /\ Fairness

-----------------------------------------------------------------------------
TypeOK ==
  /\ {hasObs, signal, shuttingDown, exited} \subseteq BOOLEAN
  /\ phase \in [Listeners -> {"accepting", "draining", "stopped"}]
  /\ erred \in [Listeners -> BOOLEAN]
  /\ timer \in [Listeners -> Nat]
  /\ expired \in [Listeners -> BOOLEAN]
  /\ conn \in [Conns -> {"new", "idle", "busy", "closed", "cut"}]
  /\ owner \in [Conns -> Listeners]
  /\ elapsed \in Nat

\* "Observability is stopped only after the proxy has drained, so scrapes
\* survive the drain": it accepts for as long as the proxy has not returned,
\* and what it then says of the health is that the proxy is shutting down.
ScrapesSurviveDrain ==
  /\ hasObs /\ phase["proxy"] # "stopped" => phase["obs"] = "accepting"
  /\ phase["proxy"] # "accepting" <=> shuttingDown

\* A request in progress is only ever cut when its own listener's drain ran
\* into the timeout.
CutOnlyAfterTimeout ==
  \A k \in Conns : conn[k] = "cut" => expired[owner[k]]

\* Whatever clients do, the process is gone after one timeout per listener.
ExitInTime ==
  elapsed <= IF hasObs THEN 2 * ShutdownTimeout ELSE ShutdownTimeout

\* A signal ends the process, though accepts may fail for ever.
SignalEnds == signal ~> exited

\* The message of the timeout: what remains is dropped, so when time has
\* moved past it nothing of that listener is in progress any more.
DroppedAtTimeout ==
  \A k \in Conns :
    expired[owner[k]] /\ elapsed > ShutdownTimeout => owner[k] = "obs" \/ conn[k] # "busy"
=============================================================================
