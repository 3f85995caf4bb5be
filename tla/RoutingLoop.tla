---------------------------- MODULE RoutingLoop -----------------------------
(***************************************************************************)
(* The feedback loop of one alias: weights decide who is measured, and     *)
(* measurements decide the weights.  Several requests are in flight, an    *)
(* upstream may slow down, fail or hang and recover, and an answer is      *)
(* folded in long after the request was routed, in any order.              *)
(* A selection is one step here; SelectCandidate takes it apart.           *)
(***************************************************************************)
EXTENDS CandidateWeights, WeylSample, Sequences, Functions

CONSTANTS
  Slots,              \* requests that may be in flight at once
  TrueLat,            \* what each candidate takes when it is up
  Troubled,           \* the candidates whose upstream may change
  SlowLat,            \* what they take when they are slow
  AlphaNum, AlphaDen, Threshold

INSTANCE Ewma WITH RateMax <- RateScale, NoSample <- Cold

Candidates == 1 .. Len(TrueLat)
Conditions == {"up", "slow", "failing", "hung"}

ASSUME LoopAssumption ==
  /\ TrueLat \in Seq(Latencies) /\ Len(TrueLat) > 0
  /\ Troubled \subseteq Candidates /\ SlowLat \in Latencies

VARIABLES
  lat, rate,          \* the tracker's EWMAs
  counter,            \* the alias' AtomicUsize
  world,              \* what the upstreams do
  flight,             \* where a request went, and what will come of it
  settled,            \* every upstream is up, from now on
  impatient           \* clients may give up on an upstream that hangs

vars == <<lat, rate, counter, world, flight, settled, impatient>>

None == [cand |-> 0, out |-> "none", ms |-> 0]

Init ==
  /\ lat = [c \in Candidates |-> Cold]
  /\ rate = [c \in Candidates |-> RateScale]
  /\ counter = 0
  /\ world = [c \in Candidates |-> "up"]
  /\ flight = [f \in Slots |-> None]
  /\ settled = FALSE
  /\ impatient \in BOOLEAN

-----------------------------------------------------------------------------
(* select_candidate, at one instant *)

Warm == {c \in Candidates : lat[c] # Cold}

Eff(c) == EffectiveOf(lat[c], rate[c])

\* The best effective latency of the warm candidates, NoData if there is none.
Best ==
  IF Warm = {} THEN NoData
  ELSE CHOOSE e \in {Eff(c) : c \in Warm} : \A c \in Warm : NoWorse(e, Eff(c))

Weight(c, best) ==
  IF c \in Warm THEN WarmWeight(Eff(c), best) ELSE ColdWeight(best = NoData, rate[c])

UpTo(w, j) == SumFunctionOnSet(w, 1 .. j)

\* c is the candidate whose slice holds the sample.
Chosen(c) ==
  \E best \in {Best} : \E w \in {[d \in Candidates |-> Weight(d, best)]} :
    \E pos \in {Pos(Spread(counter), UpTo(w, Len(TrueLat)))} :
      UpTo(w, c - 1) <= pos /\ pos < UpTo(w, c)

Outcome(c) ==
  CASE world[c] = "up" -> [cand |-> c, out |-> "ok", ms |-> TrueLat[c]]
    [] world[c] = "slow" -> [cand |-> c, out |-> "ok", ms |-> SlowLat]
    [] world[c] = "failing" -> [cand |-> c, out |-> "error", ms |-> 0]
    [] world[c] = "hung" -> [cand |-> c, out |-> "hang", ms |-> 0]

Send(f) ==
  /\ flight[f] = None
  /\ \E c \in Candidates : Chosen(c) /\ flight' = [flight EXCEPT ![f] = Outcome(c)]
  /\ counter' = NextTick(counter)
  /\ UNCHANGED <<lat, rate, world, settled, impatient>>

-----------------------------------------------------------------------------
(* Feedback *)

Lands(f, out) ==
  /\ flight[f].out = out
  /\ flight' = [flight EXCEPT ![f] = None]
  /\ UNCHANGED <<counter, world, settled, impatient>>

RecordSuccess(f) ==
  /\ Lands(f, "ok")
  /\ LET c == flight[f].cand
     IN  /\ lat' = [lat EXCEPT ![c] = NextLatency(@, flight[f].ms)]
         /\ rate' = [rate EXCEPT ![c] = NextRate(@, TRUE)]

RecordError(f, out) ==
  /\ Lands(f, out)
  /\ rate' = [rate EXCEPT ![flight[f].cand] = NextRate(@, FALSE)]
  /\ UNCHANGED lat

\* A slip: a timeout is not counted as an error.
TimesOutUnseen(f) == Lands(f, "hang") /\ UNCHANGED <<lat, rate>>

\* The client's read timeout ends the wait for a hung upstream.
TimesOut(f) == RecordError(f, "hang")

\* The caller disconnects first: the handler is dropped, nothing is recorded.
GivesUp(f) ==
  /\ impatient
  /\ Lands(f, "hang")
  /\ UNCHANGED <<lat, rate>>

Finish(f) == RecordSuccess(f) \/ RecordError(f, "error") \/ TimesOut(f)

-----------------------------------------------------------------------------
(* The upstreams *)

Change ==
  /\ ~settled
  /\ \E c \in Troubled, w \in Conditions : world' = [world EXCEPT ![c] = w]
  /\ UNCHANGED <<lat, rate, counter, flight, settled, impatient>>

Settle ==
  /\ ~settled /\ settled' = TRUE
  /\ world' = [c \in Candidates |-> "up"]
  /\ UNCHANGED <<lat, rate, counter, flight, impatient>>

Next ==
  \/ \E f \in Slots : Send(f) \/ Finish(f) \/ GivesUp(f)
  \/ Change \/ Settle

\* Requests keep coming, and each ends, by the read timeout at the latest.
Fairness ==
  /\ WF_vars(\E f \in Slots : Send(f))
  /\ \A f \in Slots : WF_vars(Finish(f))

Spec == Init /\ [][Next]_vars /\ Fairness

-----------------------------------------------------------------------------
TypeOK ==
  /\ lat \in [Candidates -> Latencies \cup {Cold}]
  /\ rate \in [Candidates -> Rates]
  /\ counter \in 0 .. WordSize - 1
  /\ world \in [Candidates -> Conditions]
  /\ flight \in [Slots -> [cand : {0} \cup Candidates, ms : Latencies,
                           out : {"none", "ok", "error", "hang"}]]
  /\ {settled, impatient} \subseteq BOOLEAN

\* Whatever trouble there was and whatever late answers are still to come,
\* once the upstreams are well the floor share brings every candidate the
\* samples that take its averages back to the truth (as far as rounding lets
\* them), and they stay there.
Forgiven ==
  \A c \in Candidates :
    /\ Settled(rate[c], RateScale)
    /\ lat[c] # Cold /\ Settled(lat[c], TrueLat[c])

Recovers == settled ~> []Forgiven

\* A candidate whose upstream hangs for good ends up at the probe floor,
\* provided nobody gives up on it before the read timeout does.
HungAvoided ==
  \A c \in Troubled : ~impatient /\ <>[](world[c] = "hung") => <>[](Weight(c, Best) = Floor)
=============================================================================
