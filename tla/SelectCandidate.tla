-------------------------- MODULE SelectCandidate ---------------------------
(***************************************************************************)
(* src/router.rs `select_candidate`, step by step: several requests of one *)
(* alias choose a candidate while other requests keep feeding the tracker. *)
(* Each load of a tracker atomic and the fetch_add on the alias' counter   *)
(* is a step; what runs between two of them touches only locals.           *)
(*                                                                         *)
(* The tracker's EWMAs (src/tracker.rs) are abstracted to what every alpha *)
(* in 0..1 guarantees: a value between the old one and the sample.         *)
(***************************************************************************)
EXTENDS WeylSample, CandidateWeights

CONSTANTS
  Selectors,          \* the calls of select_candidate that may run
  N,                  \* number of candidates of the alias
  StatsOf,            \* [1..N -> Stats]: stats_index; aliases may share one
  Stats,              \* the tracker's slots
  Modes               \* streaming, nonstreaming

ASSUME SelectAssumption ==
  /\ N \in Nat \ {0}
  /\ StatsOf \in [1 .. N -> Stats]

VARIABLES
  ewma,               \* latency EWMA per slot and mode
  rate,               \* success-rate EWMA per slot
  counter,            \* the alias' AtomicUsize
  pc, mode,           \* where a selector is, and for which mode it selects
  i,                  \* its loop index
  seen,               \* the EWMA it just loaded
  eff,                \* `effective`
  weight, total,      \* `weighted` and `total`
  upto,               \* history: `total` after each entry of `weighted`
  spread, pos, acc,   \* the sample, its position, the walk's prefix sum
  chosen              \* index of the candidate returned; 0 before that

shared == <<ewma, rate, counter>>
locals == <<pc, mode, i, seen, eff, weight, total, upto, spread, pos, acc, chosen>>
vars   == <<shared, locals>>

Init ==
  /\ ewma = [x \in Stats |-> [m \in Modes |-> Cold]]
  /\ rate = [x \in Stats |-> RateScale]
  /\ counter \in 0 .. WordSize - 1
  /\ pc = [s \in Selectors |-> "isCold"]
  /\ mode \in [Selectors -> Modes]
  /\ i = [s \in Selectors |-> 1]
  /\ seen = [s \in Selectors |-> Cold]
  /\ eff = [s \in Selectors |-> [j \in 1 .. N |-> NoData]]
  /\ weight = [s \in Selectors |-> [j \in 1 .. N |-> 0]]
  /\ total = [s \in Selectors |-> 0]
  /\ upto = [s \in Selectors |-> [j \in 0 .. N |-> 0]]
  /\ spread = [s \in Selectors |-> 0]
  /\ pos = [s \in Selectors |-> 0]
  /\ acc = [s \in Selectors |-> 0]
  /\ chosen = [s \in Selectors |-> 0]

-----------------------------------------------------------------------------
(* The tracker, fed by requests that completed elsewhere *)

Between(a, b) == IF a <= b THEN a .. b ELSE b .. a

\* A slip: a slot may be reset to cold.
ResetEwma(x, m) ==
  /\ \E v \in Latencies \cup {Cold} : ewma' = [ewma EXCEPT ![x][m] = v]
  /\ UNCHANGED <<rate, counter, locals>>

\* update_ewma: the first sample is taken as it is.
UpdateEwma(x, m) ==
  /\ \E ms \in Latencies :
       \E v \in (IF ewma[x][m] = Cold THEN {ms} ELSE Between(ewma[x][m], ms)) :
         ewma' = [ewma EXCEPT ![x][m] = v]
  /\ UNCHANGED <<rate, counter, locals>>

\* record_outcome: a success pulls the rate up, an error pulls it down.
RecordOutcome(x) ==
  /\ \E sample \in {0, RateScale} :
       \E v \in Between(rate[x], sample) : rate' = [rate EXCEPT ![x] = v]
  /\ UNCHANGED <<ewma, counter, locals>>

-----------------------------------------------------------------------------
(* First pass: effective latencies *)

\* The next candidate, or the next loop.
Proceed(s, here, next) ==
  IF i[s] < N
  THEN pc' = [pc EXCEPT ![s] = here] /\ i' = [i EXCEPT ![s] = @ + 1]
  ELSE pc' = [pc EXCEPT ![s] = next] /\ i' = [i EXCEPT ![s] = 1]

\* `stats.is_cold(mode)`
IsCold(s) ==
  /\ pc[s] = "isCold"
  /\ IF ewma[StatsOf[i[s]]][mode[s]] = Cold
     THEN Proceed(s, "isCold", "weigh")
     ELSE pc' = [pc EXCEPT ![s] = "loadEwma"] /\ UNCHANGED i
  /\ UNCHANGED <<shared, mode, seen, eff, weight, total, upto, spread, pos, acc, chosen>>

\* `stats.ewma_ms(mode)`, a second load of the same atomic
LoadEwma(s) ==
  /\ pc[s] = "loadEwma"
  /\ seen' = [seen EXCEPT ![s] = ewma[StatsOf[i[s]]][mode[s]]]
  /\ pc' = [pc EXCEPT ![s] = "loadRate"]
  /\ UNCHANGED <<shared, mode, i, eff, weight, total, upto, spread, pos, acc, chosen>>

\* `stats.success_rate()`
LoadRate(s) ==
  /\ pc[s] = "loadRate"
  /\ eff' = [eff EXCEPT ![s][i[s]] = EffectiveOf(seen[s], rate[StatsOf[i[s]]])]
  /\ Proceed(s, "isCold", "weigh")
  /\ UNCHANGED <<shared, mode, seen, weight, total, upto, spread, pos, acc, chosen>>

-----------------------------------------------------------------------------
(* Second pass: weights *)

Warm(s) == {j \in 1 .. N : eff[s][j] # NoData}

\* `best` is finite iff a candidate was warm; then it is theirs.
IsBest(s, b) == b \in Warm(s) /\ \A j \in Warm(s) : NoWorse(eff[s][b], eff[s][j])

AddWeight(s, w) ==
  /\ weight' = [weight EXCEPT ![s][i[s]] = w]
  /\ total' = [total EXCEPT ![s] = @ + w]
  /\ upto' = [upto EXCEPT ![s][i[s]] = total[s] + w]

Weigh(s) ==
  /\ pc[s] = "weigh"
  /\ LET e == eff[s][i[s]]
     IN  \/ /\ e = NoData
            /\ AddWeight(s, ColdWeight(Warm(s) = {}, rate[StatsOf[i[s]]]))
         \/ /\ e # NoData
            /\ \E b \in 1 .. N : IsBest(s, b) /\ AddWeight(s, WarmWeight(e, eff[s][b]))
  /\ Proceed(s, "weigh", "tick")
  /\ UNCHANGED <<shared, mode, seen, eff, spread, pos, acc, chosen>>

-----------------------------------------------------------------------------
(* The sample and the walk *)

TakeTick(s) ==
  /\ pc[s] = "tick"
  /\ LET sp == Spread(counter)
     IN  /\ spread' = [spread EXCEPT ![s] = sp]
         /\ pos' = [pos EXCEPT ![s] = Pos(sp, total[s])]
  /\ counter' = NextTick(counter)
  /\ pc' = [pc EXCEPT ![s] = "walk"]
  /\ UNCHANGED <<ewma, rate, mode, i, seen, eff, weight, total, upto, acc, chosen>>

\* One turn of the walk; after the last one, the last candidate.
Walk(s) ==
  /\ pc[s] = "walk"
  /\ LET a == acc[s] + weight[s][i[s]]
     IN  /\ acc' = [acc EXCEPT ![s] = a]
         /\ IF pos[s] < a \/ i[s] = N
            THEN /\ chosen' = [chosen EXCEPT ![s] = i[s]]
                 /\ pc' = [pc EXCEPT ![s] = "done"]
                 /\ UNCHANGED i
            ELSE /\ i' = [i EXCEPT ![s] = @ + 1]
                 /\ UNCHANGED <<pc, chosen>>
  /\ UNCHANGED <<shared, mode, seen, eff, weight, total, upto, spread, pos>>

Next ==
  \/ \E x \in Stats, m \in Modes : UpdateEwma(x, m)
  \/ \E x \in Stats : RecordOutcome(x)
  \/ \E s \in Selectors :
       \/ IsCold(s) \/ LoadEwma(s) \/ LoadRate(s)
       \/ Weigh(s) \/ TakeTick(s) \/ Walk(s)

Spec == Init /\ [][Next]_vars

-----------------------------------------------------------------------------
TypeOK ==
  /\ ewma \in [Stats -> [Modes -> Latencies \cup {Cold}]]
  /\ rate \in [Stats -> Rates]
  /\ counter \in 0 .. WordSize - 1
  /\ pc \in [Selectors -> {"isCold", "loadEwma", "loadRate", "weigh", "tick",
                           "walk", "done"}]
  /\ mode \in [Selectors -> Modes]
  /\ i \in [Selectors -> 1 .. N]
  /\ seen \in [Selectors -> Latencies \cup {Cold}]
  /\ eff \in [Selectors -> [1 .. N -> Effective]]
  /\ weight \in [Selectors -> [1 .. N -> Nat]]
  /\ total \in [Selectors -> Nat]
  /\ upto \in [Selectors -> [0 .. N -> Nat]]
  /\ spread \in [Selectors -> 0 .. WordSize - 1]
  /\ pos \in [Selectors -> Nat]
  /\ acc \in [Selectors -> Nat]
  /\ chosen \in [Selectors -> 0 .. N]

\* Between the check that a candidate is warm and the second load of the same
\* atomic, no feedback makes it cold again: the sentinel never enters the
\* arithmetic as a latency.
LoadedLatencyIsReal == \A s \in Selectors : pc[s] = "loadRate" => seen[s] # Cold

\* "pos < total guarantees a hit": the candidate returned is the one whose
\* slice of the weights holds the sample; the fallback to the last one is
\* never what decides.
WalkPicksItsSlice ==
  \A s \in Selectors :
    pc[s] = "done" => /\ chosen[s] \in 1 .. N
                      /\ upto[s][chosen[s] - 1] <= pos[s]
                      /\ pos[s] < upto[s][chosen[s]]

\* However the tracker moved between the two passes, nobody starves, nobody
\* outweighs the best, and the best of the first pass has the full weight.
WeightsWithinBounds ==
  \A s \in Selectors :
    pc[s] \in {"tick", "walk", "done"} =>
      \A j \in 1 .. N :
        /\ weight[s][j] \in Floor .. Resolution
        /\ IsBest(s, j) => weight[s][j] = Resolution
=============================================================================
