# sturnus in TLA+

sturnus is a sidecar that proxies OpenAI-style POSTs to one of several LLM
providers, picks the provider by latency and error rate, and caps the memory
spent on request bodies. This directory holds TLA+ models of that program,
TLC configurations for small instances, and TLAPS proofs for all instances.
Paths below are relative to the repository root (`src/server.rs` and so on);
in `PROJECT.json` they carry the checkout's own prefix.

## Inventory

| Component | State | Operations | Talks to | What is hard | Correct means | Modelled in |
|---|---|---|---|---|---|---|
| Buffer budget (`server.rs` BufferBudget) | semaphore permits, per-request cap | new, reserve, drop of a permit | request path, HTTP client | release on every exit, clamp and rounding | no permit lost or shared; 429 only momentary | `BufferBudget`, `RequestLifecycle`, `Admission` |
| Request path (`server.rs` handle_request) | locals of one future per request | refuse, shed, buffer, parse, route, prepare, forward, record, meter, answer | all others | many early returns, disconnects at awaits, threads | one answer, one accounting, nothing leaked | `RequestLifecycle`; the pin's check in `SlotReaders` |
| Forwarding (`proxy.rs` forward_request) | OutboundBody, headers | prepare, authenticate, send, head | HTTP client, upstream | upload outliving the handler, failure after the head | body and permit freed together; credentials sent once | `RequestLifecycle`, `Startup` |
| Response (`proxy.rs` build_relay_stream, read_capped) | errored flag, bytes read | first chunk, chunk, error, end, cap | client, upstream | failure in mid-stream, announced length, a client that stops reading | a truncated answer never looks whole; memory bounded | `ResponseRelay` |
| Selection (`router.rs`) | one wrapping counter per alias | select_candidate, next_tick | tracker | torn reads, boundary of the weighted walk, two modes on one counter | the right slice; every candidate probed in proportion | `WeylSample`, `CandidateWeights`, `SelectCandidate`, `ProbeSchedule` |
| Tracker (`tracker.rs`) | three atomics per slot | record_success, record_error, is_degraded | request path, router, status | two-step update, late samples, rounding | averages return to the truth | `Ewma`, `SlotReaders`, `RoutingLoop` |
| Model map (`model_map.rs`) | alias to candidates, slot indices | from_config, get, iter | tracker | arbitrary map order, slot sharing | equal pairs share, others do not | `Startup` |
| GCP auth (`gcp_auth.rs`) | OnceCell of the provider | provider, get_token | forwarding | single flight, timeouts, dropped callers | nobody stranded, bounded wait | `GcpAuth` |
| Listeners and shutdown (`server.rs`, `main.rs`) | accept loops, drains, `shutting_down` | accept, break, drain, exit | connections | two listeners, drain against timeout | observability outlives the proxy; the process ends in time | `Listeners` |
| Raw body (`body.rs`) | ordered fields | parse, get, set | request path | duplicate keys, order, labels of any shape | last wins, place kept | `RawBody`, `Startup` |
| Configuration (`config.rs`, `main.rs`) | none after start | validate, resolve, budget | everything | two validations, memory limits | accepted means servable | `Startup` (partly) |
| Metrics (`metrics.rs`) | counter series | init_zero, inc, encode | request path | partial accounting | numbers that add up | `RequestLifecycle`, `ResponseRelay`, `Startup` (partly) |
| Status (`server.rs`) | none | build_status_response | tracker | several loads, no snapshot | never contradicts the slot | `SlotReaders` |
| Trace context (`trace.rs`) | none | parse, label a log span | log | - | - | not modelled |

`PROJECT.json` lists the hazards at their lines with the properties that cover
them, and the lines every definition translates.

## Modules

**BufferBudget** (no state): permits, cap and rounding. **Admission**: what the
budget promises, stated without the request path.

**RequestLifecycle.** `pc[r]` is the place in `handle_request`; `raw` is the
life of `body_bytes`, `out` that of the `OutboundBody` (in the handler, on the
wire, gone), `permit` and `free` the semaphore. A permit is a named token where
the code has a count, so that losing or sharing one can be said. Code between
two shared accesses runs in one step; each await and each write to the tracker
or a counter is a step. `Disconnect` drops the handler at an await and leaves a
body that is on the wire to `UploadEnds`, the HTTP client dropping it, which
may come before the response or long after the handler returned. It frees body
and permit in one step: what the client keeps in its own write buffers is
outside the model. The 413 of `Limited` cannot happen to a body framed by its
Content-Length and is folded into `BodyFails`. Requests are one-shot, so the
counters need no bound of their own.

**WeylSample**, **CandidateWeights**, **Ewma** (no state): the counter and its
golden-ratio sample; the weight of a warm and of a cold candidate; the two
moving averages. They are shared by the modules below, so that one definition
stands for one function of the code. An effective latency is the fraction
`lat/rate`. `powf` and `round` are the constant operator `Share`: the proofs
assume only that a ratio of at most one gets at most the resolution and the
ratio one gets all of it; the TLC instances compute it exactly for k = 3. `Ewma`
rounds latencies to whole milliseconds as the code does, and puts the f64
success rate on a grid of `RateMax` steps, which the code does not: the dead
zone of a rounded average (`Settled`, 1/(2 alpha) wide) is real for latencies
and an artefact for rates.

**SelectCandidate.** `select_candidate` with one atomic access per step, against
a tracker that moves at any time to any value between the old one and the
sample (which `SlotReadersProofs` shows to be what every `ewma_alpha` in 0..1 does).
`upto` is a history variable: the running totals while the weights are added.

**ProbeSchedule.** One latency mode's requests walk the weighted schedule
(`Select`) while those of the other mode take ticks of the same counter
(`OtherMode`), as many and whenever they like. `since` counts the alias' requests
since the last pick of the floor candidate, `wait` those of this mode among
them, and `missed` the ticks of the candidate's slice that went to the other
mode. Without `missed` there is no bound: a mode that always comes when the tick
is in the slice takes every probe. The weights stand still, as they do while nobody has noticed that a
candidate has recovered. Which steps are good ones is said by two assumptions
about a few multiples of the step: `ReturnAssumption` (two moves, one ahead and
one back, are no longer than the slice and take few requests) and
`LeaveAssumption` (still fewer requests lead out of the slice). That the code's
own numbers meet them is proved; see *Probes* under *Proofs*.

**RoutingLoop.** The feedback loop that selection and tracker close: requests in
flight, upstreams that slow down, fail, hang and recover (`Change`), answers
folded in long after the request was routed and in any order. A selection is
one step here, which `SelectCandidateProofs` shows it to be while the tracker
stands still (`QuietSelectionIsAtomic`). `impatient` says whether clients may give up before the read
timeout does, `settled` that the upstreams are well from now on. Pins are left
out: they only add requests.

**SlotReaders.** One slot between its writers and the two readers outside of
routing: the check that honours or breaks a session-affinity pin
(`FollowPin`), and `/status`, each of whose loads is a step (`LoadLatency`,
`Label`, `LoadErrorRate`). `record_success` is two steps. `wasted` and
`moments` are history variables.

**GcpAuth.** `get_token` for several requests: detection inside tokio's OnceCell
(external: a fair semaphore of one permit, handed straight to the first in the
queue, closed once the value is set), then the fetch, each under
`AUTH_TIMEOUT`; a caller is dropped at any wait. `ahead` and `waited` are
history variables.

**Listeners.** Both accept loops, the signal, the oneshot by which the proxy's
return tells the observability listener, each drain under its timeout, and the
end of `main`, which is what takes remaining connections down. A failing accept
goes round at once, and may for ever.

**ResponseRelay.** One response after its head: relayed or buffered under the
cap, with every framing, chunking and place to break. A body is numbered units,
so that loss, repetition and reordering show. The two HTTP libraries that frame
it are external: the client fails a body that ends short of its
Content-Length; the server cuts one to the length it announced, breaks the
connection of one that falls short, and polls the relay only while its write
buffer has room (`Polled`). `unread` is what the client has not taken of what was
written for it: it reads (`ClientReads`), leaves, or just stops, which nothing in
the code bounds. The read timeout is armed by a poll that finds nothing, so a
client that stops reading disarms it.

**RawBody**, **Startup.** From the configuration to the first request: `Load`
validates; `ModelMap::from_config` takes the aliases in the order of a HashMap
(`BeginAlias`), resolves their candidates one by one until one is refused
(`ResolveCandidate`), and inserts the alias (`InsertAlias`); then come counters,
token provider, budget, error series and binding in the order of `main`. A
request that arrives is read field by field (`ReadField`, the loop of
`visit_map`), and `Forward` rewrites the body and builds the headers. What a
refusal leaves registered in the tracker does not matter: the process ends. A
name is the list of its parts between slashes and the class of its characters;
a raw JSON value is a literal or an object of labels.

**Memory order.** Every module takes the atomics for sequentially consistent,
while the code uses `Relaxed`: a thread may see the second store of
`record_success` (the success rate) before the first (the latency).
`SelectCandidate` does not rely on their order: its tracker moves every atomic
independently, between any two loads, and `LoadedLatencyIsReal` is about two
loads of one atomic, whose coherence `Relaxed` keeps. `NextTick` is one atomic
read-modify-write. In `RequestLifecycle` `FeedbackMatchesAnswers` speaks of what
was written, in program order, and not of what another thread sees. In
`SlotReaders` what a report says is compared with the latencies and with the rate
apart, never one with the other, so the order of the two stores does not matter
to it; "before" and "meanwhile" in `StatusTellsSlot` are as the reporting thread
sees the stores.

`MC*` modules give the constants for TLC. `*Proofs` modules hold the theorems.

**Slips.** Operators whose comment starts "A slip:" are wrong variants of the
definition below them. They are used by nothing here; swapping one in makes the
property named in `PROJECT.json` ("mutants") fail.

## Runs

| Run | Instance | Shows |
|---|---|---|
| `lifecycle` (618k states, about 3 min) | 2 requests, 3 permits of 2 bytes, lengths 0, 3, 6 and one over the cap, an API-key and a GCP candidate, an alias without candidates | permits partitioned, body copies covered, accounting consistent, shedding only under load; admitted requests end; `Admission` is implemented, its liveness included |
| `lifecycle_buffered` | the same, lengths 3 and 6 | the total of buffered bytes exceeds the budget (a finding) |
| `lifecycle_errors` | the same | `sturnus_errors_total` counts failures after a response head (a finding) |
| `select_feedback` | 1 selection, 3 candidates in 2 slots, 16-value words | the walk hits its slice, weights within bounds, no sentinel used, while every load may see another tracker |
| `probe_share` (3.9M states) | weights 1000 and 10, the whole cycle of a 13-bit counter, every interleaving of the two modes in which the other takes the tick of the slice up to twice running | a mode waits for the floor candidate no more than 3 times the inverse of its share, once over for each tick of the slice it lost to the other; its picks are not 3 times too close among the alias' requests |
| `slot_readers` (2.1M states) | 3 requests, 2 modes, alpha 3/10, threshold 1/2, rates in steps of 1/100 | a pin costs at most the tolerated errors and what was in flight; `/status` never contradicts the slot |
| `routing_loop` (308k states) | 2 candidates, 2 requests in flight, alpha 3/10, rates in steps of 1/10 | after any history of trouble all averages return to the truth and stay there; a hanging upstream ends at the floor |
| `gcp_auth` (109k states) | 3 callers, timeout 2 | one detection at a time, nobody waits for none, bounded wait, every call ends |
| `listeners` | 3 connections, timeout 2, with and without the observability listener | scrapes survive the drain, only timeouts cut requests, exit within two timeouts, a signal ends the process |
| `response_relay` | bodies to 9 units, chunks to 3, cap 6, event of 3, write buffer of 4, a client that reads or does not | the client gets a prefix and at most one error event; no silent truncation; what is held for it is bounded; every response ends unless the client stops reading |
| `startup` (635k states) | all listings of two providers' models under two aliases, all provider sections, all memory limits, all bodies of up to 3 fields | slots follow pairs, what serves is complete, accepted means resolvable, the budget fits the host, the request is sent as intended |
| `startup_pins` | names with slashes | the affinity header does not lead back to its candidate (a finding) |

**Bounds.** The body lengths are the classes that admission tells apart: empty
(one permit all the same), a partial permit, the whole budget, above the cap. Two
requests are enough for one to hold what the other needs; more add nothing to a
property over pairs, and the proofs cover them. A selection never writes the
tracker, so one selection against free feedback is the general case for its
weights. `probe_share` runs through the whole cycle of its counter, wrap
included, and so leaves out no starting point; the theorems cover 2^64 as far as
its step meets their assumptions. `MaxMissed` bounds the ticks of the slice that the
other mode may take in a row, not the requests it may have; the theorems hold
for every bound. In `slot_readers` three requests are one more than the errors that
break a pin, so that one can be in flight when it breaks. `routing_loop` has
words at least as large as any total, so that every weight unit has its tick;
two slots allow an answer to be overtaken. Three callers of `gcp_auth` are one
detecting, one that takes over and one behind it; three connections give each
listener one and let one differ from another. `response_relay` covers bodies
shorter and longer than the cap, event and announced length in every relation, and
clients behind by less and by more than the write buffer. `MaxLen` also stands for
the assumption that an upstream's body is finite: one that sends for ever is
relayed for ever.
`MaxWaited` and `MaxWasted` stop history variables above what is claimed of
them. Symmetry is used for safety only. Deadlock is checked in every run;
`Quiescent`, `Done`, `Gone`, `Over` and `Stopped` mark the states in which
everything is done.

**Fairness.** Always weak, and of what runs by itself.

* `RequestLifecycle`: `Advance` - the handler's code runs and its waits end
  through the timeouts of `main.rs` and `AUTH_TIMEOUT`; `UploadEnds` - the HTTP
  client drops a body it finished, failed to send or was told to give up;
  `ClientSends` - an admitted client sends its body or breaks off. That last one
  is an assumption on the client: the code bounds the wait for a body by no
  timeout, and without it a client could hold its permits for ever.
* `RoutingLoop`: requests keep coming, and each ends, by the read timeout at the
  latest. Without traffic nothing is measured and nothing recovers.
* `GcpAuth`: time passes and due timeouts fire; nothing of the network.
* `Listeners`: time and the scheduling of the runtime; nothing of clients or
  accepts. `select!` polls its branches in random order, so a ready shutdown is
  taken although accepts fail for ever.
* `ResponseRelay`: the read timeout turns silence into an error for a relay that is
  polled (in mid-stream, `Polled` is part of its guard); what is complete is seen
  to be. Nothing of the client: `ResponseEnds` allows for one that from some time
  on leaves the write buffer full. `server.rs` sets no write timeout, so only its
  leaving, or the drain of a shutdown, ends such a response.

In `GcpAuth` and `Listeners` time is discrete and a task that can run does so
before time passes: the bounds are multiples of timeouts, not of scheduling
delays.

## Findings

* `config.rs:207` calls the budget a cap on the total bytes of buffered request
  bodies. One reservation, of the declared length, pays for both the raw body and
  the outbound copy, which are alive together between `prepare_outbound` and
  `drop(body_bytes)`. The rewrite may also lengthen the copy (`Growths`) for as
  long as the upload lasts.
* `README.md:178` says `sturnus_errors_total` counts failures that never produced
  a response. A first chunk that breaks, a body that breaks, and a body over the
  cap are counted too, after the upstream's status was received.
* `server.rs:207` splits `x-session-affinity` at its first slash, while
  `model_map.rs:77` builds it from a provider name that may hold slashes. The
  header then names no candidate, or another one, and the request is routed by
  weight, where `README.md:191` promises the same provider. A name outside ASCII
  fares alike, because `to_str` refuses it.

Further disagreements, outside the runs; each can be seen by checking the named
definition, which no configuration here lists:

* `ProbeSchedule.RedetectedAsDocumented`. `README.md:218` says a recovered
  provider is re-detected within at most about 100 requests (`router.rs:55-56`:
  within about 1/PROBE_FLOOR). The floor's share is relative to the sum of the
  weights, so with five candidates (`MCFive`, `Probed = 5`,
  `WordSize = 524288`, `WeylStep = 324027`) the longest gap is 610 requests with
  the other mode quiet. `ProbedInProportion` is what does hold.
* `ProbeSchedule.EvenWhenSubsampled`. `router.rs:135` says of the sample "Stays
  equidistributed even when modes subsample the shared counter". When the other
  mode's requests happen to take the ticks of the slice, this mode misses its
  probe, and nothing bounds how often in a row (the instance of `probe_share`
  violates it). It is right about modes that take regular turns
  (`RegularTurnsReach`, `RegularTurnsApart`).
* `ResponseRelay.EventIsWhole`. `proxy.rs:297-298` says a failing stream gets an
  error event instead of being silently truncated. A response whose length was
  announced has the event cut to that length; it may then look complete with
  only part of the event in it.
* `ResponseRelay.CountedAreComplete`. `README.md:175` says
  `sturnus_requests_total` counts completed responses; a stream is counted at its
  first chunk.
* `Listeners.DroppedAtTimeout`. The message at `server.rs:563` says remaining
  connections are dropped at the timeout; their tasks run on until the process
  exits, which with an observability listener is a second drain later.
* `README.md:52` speaks of a byte-for-byte relay of the request; duplicate
  top-level keys collapse to the last one, whitespace between fields goes, and
  labels are rewritten (`SentAsIntended` states what does hold).
* `ewma_alpha = 0.0` passes `Config::validate`. The averages then never move and
  no error is ever noticed; `Recovers` is about alpha > 0.

## Proofs

All theorems hold for every value of the constants that satisfies the named
assumptions (`BudgetAssumption`, `LifecycleAssumption`, `SelectAssumption`,
`ShareAssumption`, `WeylAssumption`, `EwmaAssumption`, `ReadersAssumption`,
`AuthAssumption`, `ListenersAssumption`, `TolerationAssumption`,
`RelayAssumption`, `StartupAssumption`, `ProbeAssumption`, `ReturnAssumption`,
`LeaveAssumption`), which TLC evaluates on the instances.

* *Arithmetic* (`RequestLifecycleProofs`): rounding up covers the length by less than
  one permit, hence `AdmissibleFits`: what passes the 413 check fits the budget.
  `ReservationCovers` needs the budget to have no more permits than `u32::MAX`.
  `CopiesCovered` counts the permits against the bytes without the code's own
  arithmetic, and takes both facts (`WantIsTight`).
* *Request path* (`RequestLifecycleProofs`): neither partition nor coverage is
  inductive alone. The invariant adds `Shape`: the place in the handler determines
  which buffers are alive. Then an early return knows it owns the permit, and
  `UploadEnds` after the answer finds it still held. `IInv` gives type
  correctness, `PermitsPartitioned`, `CopiesCovered`, and with `AdmissibleFits`
  the action property `ShedOnlyUnderLoad`.
* *Accounting* (`RequestLifecycleProofs`): counters are compared with the number of
  requests that answered in some way, so the invariant is about cardinalities.
  `Told` says what the place in the handler tells of the answer, `Tally` that each
  candidate's counters are the cardinalities of what was answered, metered and
  folded in. A step that meters moves one request into one of those sets; the
  lemmas say that this adds one there and leaves every other candidate alone.
  `FeedbackMatchesAnswers`, warmth included, follows.
* *The budget's contract* (`RequestLifecycleProofs`): under the mapping of the
  `INSTANCE`, the initial states of `RequestLifecycle` are initial in `Admission`
  and every step is one of its steps or a stutter, given the invariants above
  (`LifecycleImplementsAdmission`, the safety half of `ImplementsAdmission`).
* *Selection* (`SelectCandidateProofs`): the invariant says the prefix sums follow
  the weights and that the walk's accumulator is the prefix sum of the
  candidates passed. With sample * total / word < total, the last slice at the
  latest contains the sample (`WalkPicksItsSlice`). The same invariant bounds the
  weights whatever the tracker did between the two passes.
* *One look* (`SelectCandidateProofs`): with a tracker that stands still, what a
  selection has loaded so far is what it would load now (`UpToDate`), from any
  reachable state in which it starts and whatever other selections do meanwhile.
  What it returns is then what one look at the tracker makes of its sample
  (`ChosenAtOnce`, the selection of `RoutingLoop`). With feedback in between only
  the bounds above hold.
* *Probes* (`ProbeScheduleProofs`): a candidate's slice is an arc of the circle of
  samples. `SliceReached` is the three-gap argument: from whatever tick on, take
  of the first p + q samples the one with the shortest way ahead to the arc; p
  requests later or q earlier comes another, a short move further on, and since
  that is no closer the move has led into the arc. So a tick of the slice is
  always ahead within the bound, and the invariant `Due` says that it is as near
  as the requests so far demand, whichever mode they were of; the wrap of the
  counter changes no sample (`SpreadWraps`). When it comes, either this mode has it,
  or the other has, which `missed` counts. `Since` remembers the tick of the
  last pick, so that a next one too soon would be a move that `LeaveAssumption`
  excludes. That the slices tile the weights
  (`UpToMonotone`, `OneHolds`) goes by induction over the list of weights: the
  induction theorems that take a predicate cannot be used, but a least
  counterexample is a set, and `WFMin` yields it (`LeastNatural`).
  TLC meets the two assumptions at a small word. `CodeStepReturns` and
  `CodeStepLeaves` prove them for the numbers of `router.rs` (`CodeNumbers`: 2^64,
  `WEYL_STEP`, a floor of 10) and every list of weights that adds up to no more
  than 20000, aliases of up to twenty candidates at the full weight: with `Slack` 3
  both hold of every tick. They prove as much of every second and third tick,
  and of every fourth with 4 (apart: with 5, 7 and 9). `RegularTurnsReach` and
  `RegularTurnsApart` say what that means: a mode that has every s-th request is
  served evenly, however the rest went.
* *Averages* (`SlotReadersProofs`): rounding to the nearest of a blend of two numbers
  stays between them (`BlendBetween`); so a warm latency stays warm and a rate
  stays a rate for every alpha (`AveragesStayInRange`). With alpha above zero each
  sample brings an average strictly closer, unless rounding has stopped it
  (`SampleBringsCloser`), so that by induction it settles on what it is fed after
  no more samples than it was away, whatever its value (`AveragesRecover`, the
  arithmetic that `Recovers` rests on), and errors alone bring every rate below the
  threshold (`ErrorsAreNoticed`), if the threshold is not one and the grid of rates
  is fine enough for alpha.
* *Status* (`SlotReadersProofs`): the invariant `Witnessed` says what a report in
  progress knows: the present side of the threshold is among those seen, and a
  slot warm from the start still has a latency to be found among the modes shown
  or unread. Labels then follow from loads that were true when made.
* *Pins* (`SlotReadersProofs`): `PinBreaksInTime` is not true of every alpha and
  threshold with the same number of tolerated errors; `TolerationAssumption` says
  which number goes with them: a ladder of rates, each what one error makes of the
  one before, from the perfect rate to one below the threshold. `OnLadder` says
  that after so many errors of a pin since the last success the rate is at that
  rung or below, whatever other requests add; `NextRate` is monotone, so a rung is
  never regained but by a success. With alpha = 0 there is no such ladder, and the
  theorem says nothing.
* *Relay* (`ResponseRelayProofs`): what the client has is, at every step, `arrived`
  units in order and then a part of the event, the event only when the flag is set,
  and the flag only for an upstream that broke short of what it announced
  (`Shown`, `Sound`, `Relaying`). A clean end without the event is then the
  whole body. `Held` adds what a buffer or a write buffer has in it at each place
  (`HeldBounded`).
* *Start* (`StartupProofs`): `Tables` types what `from_config` has built so far,
  `Slotted` says that the slots are the pairs of the candidates resolved so far,
  each once, the candidates of the alias it is at included, and `Progress` what
  each stage of `main` has left behind. A candidate of a validated configuration
  can only be refused over its name. The claims about the map, the slots, the
  series and the budget follow, for every configuration and every order.
* *The body* (`StartupProofs`): `Parsed` says of the fields read so far that the
  body has each of their keys once, in the order in which the keys first came,
  with the value that came last. `ReadField` keeps it by what `RawBody::set`
  yields (`SetFieldYields`); with all read it is what `IsRewrite` asks for, and
  the two further `set`s of `prepare_body` rewrite what they should
  (`PreparedIsRewrite`). That no header is there twice rests on validation having
  refused the reserved ones (`HeadersOnce`).
* *Listeners* (`ListenersProofs`): the exit's bound needs `Clock`, the time used
  plus what the running drain may still use; that only timeouts cut requests
  needs `LeftBehind`, an open connection of a stopped listener had its timeout.
* *Credentials* (`GcpAuthProofs`): the wait's bound needs a `Clock` too: what a
  queued caller has waited, what is left of the running detection, and one timeout
  for each caller before it never exceed what its place allowed. A caller that
  leaves the queue moves the others up, which can only help. `Once`, a caller is
  queued once, is what makes positions meaningful.

Only model-checked: everything about liveness (`AdmittedAnswered`, `Recovers`,
`HungAvoided`, `CallsEnd`, `SignalEnds`, `ResponseEnds`) and the liveness half of
`ImplementsAdmission`, because the prover reaches neither fairness nor ENABLED;
and the type invariant of `RoutingLoop`, which adds nothing to the theorems about
the operators it is made of.

`HungAvoided` is checked for clients that wait for the read timeout. For clients
that give up earlier it does not hold: nothing is recorded when the handler is
dropped, and a hanging upstream keeps its traffic.

## Not modelled

Trace context (`trace.rs`), TOML and environment parsing, the text of URLs,
Prometheus encoding, log lines: input and output handling without state that
another part reads. The bytes inside the HTTP client and server appear only as
far as `src/` relies on them.

## Plan

1. `RequestLifecycle` composed with `GcpAuth` (permits held while waiting for a
   token) and with `Listeners` (drain of requests in flight).
2. Proofs: that `RoutingLoop`'s averages stay between the latencies its upstreams
   really had, with its type invariant.
3. The shares of candidates above the floor: how evenly the sequence serves a
   slice wider than its moves.
