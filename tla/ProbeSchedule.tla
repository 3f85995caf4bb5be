---------------------------- MODULE ProbeSchedule ----------------------------
(***************************************************************************)
(* How often one candidate is picked while the weights of its alias stand  *)
(* still, as in an outage or after a recovery nobody has noticed yet: the  *)
(* requests of one latency mode walk src/router.rs' weighted schedule,     *)
(* those of the other mode take ticks of the same counter in between, as   *)
(* many and whenever they like.                                            *)
(***************************************************************************)
EXTENDS WeylSample, Sequences

CONSTANTS
  Weights,            \* the alias' weights, none below the floor
  Resolution,         \* WEIGHT_RESOLUTION
  Floor,              \* WEIGHT_RESOLUTION * PROBE_FLOOR
  Probed,             \* the candidate watched, at the floor
  Slack,              \* how far from proportional a share may be
  MaxMissed           \* bound on `missed`

\* `acc` after the first j weights.
UpTo[j \in 0 .. Len(Weights)] == IF j = 0 THEN 0 ELSE UpTo[j - 1] + Weights[j]

Total == UpTo[Len(Weights)]

\* j is the candidate whose slice holds the sample.
Holds(j, sp) == UpTo[j - 1] <= Pos(sp, Total) /\ Pos(sp, Total) < UpTo[j]

Pick(t) == CHOOSE j \in 1 .. Len(Weights) : Holds(j, Spread(t))

ASSUME ProbeAssumption ==
  /\ Floor \in Nat \ {0} /\ Resolution \in Nat
  /\ Weights \in Seq(Floor .. Resolution) /\ Probed \in 1 .. Len(Weights)
  /\ Weights[Probed] = Floor
  /\ Slack \in Nat \ {0} /\ MaxMissed \in Nat

\* How far the sample moves in k requests, one every s ticks.
Moved(k, s) == (k * s * WeylStep) % WordSize

\* The most ticks that should pass a candidate at the floor by.
MaxWait == (Slack * Total) \div Floor

\* How many samples fall to a candidate at the floor, rounded down.
Width == (Floor * WordSize) \div Total

\* What makes a step a good one for these weights.  Two moves, one ahead and
\* one back, are no longer than the slice and take few requests;
Returns(s) ==
  \E p, q \in 1 .. MaxWait :
    /\ p + q <= MaxWait + 1
    /\ Moved(p, s) \in 1 .. Width
    /\ WordSize - Moved(q, s) <= Width

ASSUME ReturnAssumption == Returns(1)

\* and still fewer requests lead out of the slice, ahead or back.
Leaves(s) ==
  \A k \in 1 .. Total : k * Slack * Floor < Total =>
    Width < Moved(k, s) /\ Width < WordSize - Moved(k, s)

ASSUME LeaveAssumption == Leaves(1)

VARIABLES
  counter,            \* the alias' AtomicUsize
  probed,             \* whether this mode ever picked Probed
  since,              \* history: requests of the alias since it last did,
  wait,               \* those of this mode among them, and
  missed              \* those of the other mode that took a tick of Probed's

vars == <<counter, probed, since, wait, missed>>

Init ==
  /\ counter = 0
  /\ probed = FALSE
  /\ since = 0
  /\ wait = 0
  /\ missed = 0

\* A request of the other mode takes the tick, and walks other weights.  The
\* bound is on the ticks it takes of Probed's slice, not on those it takes.
OtherMode ==
  /\ counter' = NextTick(counter)
  /\ since' = since + 1
  /\ \/ /\ Pick(counter) = Probed
        /\ missed < MaxMissed
        /\ missed' = missed + 1
     \/ /\ Pick(counter) # Probed
        /\ UNCHANGED missed
  /\ UNCHANGED <<probed, wait>>

Select ==
  /\ counter' = NextTick(counter)
  /\ \/ /\ Pick(counter) = Probed
        /\ probed' = TRUE
        /\ since' = 0 /\ wait' = 0 /\ missed' = 0
     \/ /\ Pick(counter) # Probed
        /\ since' = since + 1
        /\ wait' = wait + 1
        /\ UNCHANGED <<probed, missed>>

Next == OtherMode \/ Select

Spec == Init /\ [][Next]_vars

-----------------------------------------------------------------------------
TypeOK ==
  /\ counter \in 0 .. WordSize - 1
  /\ probed \in BOOLEAN
  /\ since \in Nat /\ wait \in Nat
  /\ missed \in 0 .. MaxMissed

\* The probe through which a recovered candidate is noticed comes in time, or
\* went to the other mode: at no point of the sequence, its wrap included, and
\* under no interleaving of the two modes do requests of a mode pass a
\* candidate at the floor by for much longer than the inverse of its share of
\* all the weights, once over for every tick of its slice that the other mode
\* took meanwhile.
ProbedInProportion == wait * Floor <= (missed + 1) * Slack * Total

\* Nor does an outage cost bursts of failing requests: between two picks of
\* the floor candidate by one mode the alias gets, by either mode, not many
\* fewer requests than the inverse of its share.
ProbesSpread ==
  [][probed /\ since' = 0 => (since + 1) * Slack * Floor >= Total]_vars

\* router.rs on the sample: "Stays equidistributed even when modes subsample
\* the shared counter", that is without a look at what the other mode took.
EvenWhenSubsampled == wait * Floor <= Slack * Total

\* router.rs: "a recovered candidate is re-detected within ~1/PROBE_FLOOR
\* requests" (twice that is allowed here, and the other mode is quiet).
RedetectedAsDocumented == since = wait => wait <= 2 * (Resolution \div Floor)
=============================================================================
