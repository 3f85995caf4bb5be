----------------------------- MODULE SlotReaders -----------------------------
(***************************************************************************)
(* One slot of the tracker (src/tracker.rs) between those who write it and *)
(* the two who read it outside of routing (src/server.rs): handle_request, *)
(* which follows a session-affinity pin until the error rate breaches the  *)
(* threshold, and build_status_response, which describes the slot from     *)
(* loads made one after another.  Answers come in any order, long after    *)
(* the pin was checked, and a success is recorded in two steps.            *)
(***************************************************************************)
EXTENDS Ewma, FiniteSets

CONSTANTS
  Requests,           \* requests that may be in flight at once
  Modes,              \* the latency modes, each with an EWMA of its own
  Tolerated           \* errors in a row that break a pin, by the documentation

ASSUME ReadersAssumption ==
  /\ IsFiniteSet(Requests) /\ IsFiniteSet(Modes) /\ Modes # {}
  /\ Tolerated \in Nat \ {0}

\* Tolerated is large enough for alpha and the threshold: so many errors in a
\* row bring even a perfect rate below it.
IsLadder(f) ==
  /\ f[1] = NextRate(RateMax, FALSE)
  /\ \A i \in 1 .. Tolerated - 1 : f[i + 1] = NextRate(f[i], FALSE)

ASSUME TolerationAssumption ==
  \E f \in [1 .. Tolerated -> 0 .. RateMax] : IsLadder(f) /\ Degraded(f[Tolerated])

VARIABLES
  rate,               \* the success-rate EWMA
  warm,               \* the modes whose latency EWMA has a sample
  flight,             \* where a request went, and what will become of it
  wasted,             \* history: errors since the last success that a pin led to
  report,             \* /status: its place, and the entry it is building
  moments             \* history: what Degraded(rate) was since it began

pins == <<flight, wasted>>
vars == <<rate, warm, pins, report, moments>>

None == [how |-> "none", ok |-> FALSE]
Flights == {None} \cup [how : {"pinned", "routed", "timed"}, ok : BOOLEAN]

\* An entry: `late` tells whether the slot was warm before the report began,
\* `unread` the modes still to load, `shown` those loaded with a sample.
Idle == [pc |-> "idle", late |-> FALSE, unread |-> {}, shown |-> {},
         label |-> "none", over |-> FALSE]

\* The bound of the history variable, one above what is claimed of it.
MaxWasted == Tolerated + Cardinality(Requests)

Init ==
  /\ rate = RateMax
  /\ warm = {}
  /\ flight = [r \in Requests |-> None]
  /\ wasted = 0
  /\ report = Idle
  /\ moments = {}

-----------------------------------------------------------------------------
(* Requests *)

SendTo(r, how) ==
  /\ flight[r] = None
  /\ \E ok \in BOOLEAN : flight' = [flight EXCEPT ![r] = [how |-> how, ok |-> ok]]
  /\ UNCHANGED <<rate, warm, wasted, report, moments>>

\* A slip: the header is honoured whatever the error rate.
AlwaysHonoured == TRUE

\* `is_degraded(found.stats_index)` at the time of the look.
Honoured == ~Degraded(rate)

\* The header names this candidate and is honoured.
FollowPin(r) == Honoured /\ SendTo(r, "pinned")

\* No header, a malformed one, or a pin just broken: the router chose this
\* candidate.  It never consults the threshold.
RouteHere(r) == SendTo(r, "routed")

\* record_success, first half
RecordLatency(r) ==
  /\ flight[r].ok /\ flight[r].how # "timed"
  /\ \E m \in Modes : warm' = warm \cup {m}
  /\ flight' = [flight EXCEPT ![r].how = "timed"]
  /\ UNCHANGED <<rate, wasted, report, moments>>

FoldIn(ok) ==
  /\ rate' = NextRate(rate, ok)
  /\ moments' = IF report.pc = "idle" THEN {} ELSE moments \cup {Degraded(rate')}
  /\ UNCHANGED <<warm, report>>

\* record_success, second half
RecordSuccess(r) ==
  /\ flight[r].how = "timed"
  /\ flight' = [flight EXCEPT ![r] = None]
  /\ FoldIn(TRUE)
  /\ wasted' = 0

\* record_error
RecordError(r) ==
  /\ flight[r] # None /\ ~flight[r].ok
  /\ flight' = [flight EXCEPT ![r] = None]
  /\ FoldIn(FALSE)
  /\ wasted' = IF flight[r].how = "pinned" /\ wasted < MaxWasted
               THEN wasted + 1 ELSE wasted

-----------------------------------------------------------------------------
(* GET /status *)

StartReport ==
  /\ report.pc = "idle"
  /\ report' = [Idle EXCEPT !.pc = "latency", !.late = warm # {}, !.unread = Modes]
  /\ moments' = {Degraded(rate)}
  /\ UNCHANGED <<rate, warm, pins>>

\* `stats.ewma_ms(mode)`, of one mode after the other.
LoadLatency ==
  /\ report.pc = "latency"
  /\ \E m \in report.unread :
       report' = [report EXCEPT !.unread = @ \ {m}, !.shown = @ \cup ({m} \cap warm)]
  /\ UNCHANGED <<rate, warm, pins, moments>>

\* A slip: a slot counts as warm when every mode is.
AllWarm(shown) == shown = Modes

AnyWarm(shown) == shown # {}

\* `is_degraded` loads the rate of a slot that has latencies.
Label ==
  /\ report.pc = "latency" /\ report.unread = {}
  /\ report' = [report EXCEPT
       !.pc = "rate",
       !.label = IF ~AnyWarm(report.shown) THEN "cold"
                 ELSE IF Degraded(rate) THEN "degraded" ELSE "warm"]
  /\ UNCHANGED <<rate, warm, pins, moments>>

\* `1.0 - stats.success_rate()`, another load; only its side of the threshold
\* is kept.
LoadErrorRate ==
  /\ report.pc = "rate"
  /\ report' = [report EXCEPT !.pc = "sent", !.over = Degraded(rate)]
  /\ UNCHANGED <<rate, warm, pins, moments>>

EndReport ==
  /\ report.pc = "sent"
  /\ report' = Idle
  /\ moments' = {}
  /\ UNCHANGED <<rate, warm, pins>>

Next ==
  \/ \E r \in Requests :
       \/ FollowPin(r) \/ RouteHere(r)
       \/ RecordLatency(r) \/ RecordSuccess(r) \/ RecordError(r)
  \/ StartReport \/ LoadLatency \/ Label \/ LoadErrorRate \/ EndReport

Spec == Init /\ [][Next]_vars

-----------------------------------------------------------------------------
TypeOK ==
  /\ rate \in 0 .. RateMax
  /\ warm \subseteq Modes
  /\ flight \in [Requests -> Flights]
  /\ wasted \in 0 .. MaxWasted
  /\ report \in [pc : {"idle", "latency", "rate", "sent"}, late : BOOLEAN,
                 unread : SUBSET Modes, shown : SUBSET Modes,
                 label : {"none", "cold", "warm", "degraded"}, over : BOOLEAN]
  /\ moments \subseteq BOOLEAN

\* README "Session affinity": two consecutive errors break the pin.  The check
\* is made before the request is sent, though, and is stale when it fails:
\* pins cost the tolerated errors, plus what was in flight when the last of
\* those came back, and no more until the candidate has succeeded again.
PinBreaksInTime ==
  wasted <= Tolerated + Cardinality(Requests) - 1

\* /status never contradicts the slot, though its loads are not a snapshot: a
\* slot that had a latency before is not called cold, one without a latency
\* is; the other labels were true at some moment of the report, and disagree
\* with the error rate beside them only if that crossed the threshold
\* meanwhile.
StatusTellsSlot ==
  report.pc = "sent" =>
    /\ (report.label = "cold") <=> (report.shown = {})
    /\ report.late => report.label # "cold"
    /\ report.label = "degraded" => TRUE \in moments
    /\ report.label = "warm" => FALSE \in moments
    /\ report.label # "cold" /\ (report.label = "degraded") # report.over
         => moments = BOOLEAN
=============================================================================
