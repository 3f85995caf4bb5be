-------------------------- MODULE RequestLifecycle --------------------------
(***************************************************************************)
(* One proxied POST from its headers to its answer: src/server.rs          *)
(* `handle_request` together with src/proxy.rs `prepare_outbound`,         *)
(* `OutboundBody`, `forward_request`, `read_capped`, and the feedback      *)
(* src/tracker.rs and src/metrics.rs keep.  Several requests run at once   *)
(* on a multi-threaded runtime, so every access to shared state (the       *)
(* budget semaphore, the tracker's atomics, the counters) and every await  *)
(* is a step of its own.                                                   *)
(*                                                                         *)
(* Abstracted: body contents (only lengths are kept), the choice among an  *)
(* alias' candidates (any one of them; the weighted choice is the module   *)
(* SelectCandidate), EWMA values (warm or cold, and how many outcomes      *)
(* were folded in), header contents.  Each request is served once.         *)
(***************************************************************************)
EXTENDS BufferBudget, FiniteSetsExt

CONSTANTS
  Requests,           \* the requests that may arrive
  Lengths,            \* the Content-Length values a request may declare
  Growths,            \* bytes the rewrite may add to a body (name, labels)
  Aliases,            \* the configured model aliases
  CandidatesOf,       \* [Aliases -> sets of candidates]; a set may be empty
  GcpCandidates,      \* candidates whose provider authenticates with GCP ADC
  NoCandidate         \* not a candidate

Candidates == UNION {CandidatesOf[a] : a \in Aliases}

ASSUME LifecycleAssumption ==
  /\ IsFiniteSet(Requests)
  /\ Lengths \subseteq Nat
  /\ Growths \subseteq Nat
  /\ NoCandidate \notin Candidates

Modes == {"streaming", "nonstreaming"}

VARIABLES
  pc,                 \* where each request's handler is
  len,                \* declared_len
  mode,               \* latency mode, from the body's "stream"
  cand,               \* the chosen candidate
  permit,             \* the permits each request holds
  raw,                \* the raw body buffer (`body_bytes`) is alive
  out,                \* where the OutboundBody is
  outLen,             \* length of the serialized outbound body
  head,               \* the upstream's response status, once seen
  reply,              \* how the request was answered
  free,               \* permits in the semaphore
  warm,               \* has the (candidate, mode) latency EWMA a sample
  outcomes,           \* successes and errors folded into success_rate
  requestsTotal,      \* sturnus_requests_total
  errorsTotal,        \* sturnus_errors_total
  bufferRejections    \* sturnus_buffer_rejections_total

local  == <<pc, len, mode, cand, raw, out, outLen, head, reply>>
budget == <<permit, free>>
stats  == <<warm, outcomes>>
meters == <<requestsTotal, errorsTotal, bufferRejections>>
vars   == <<local, budget, stats, meters>>

PCs == {"arrive", "reading", "collected", "routed", "prepared", "forward",
        "awaitHead", "firstChunk", "readBody", "warming", "succeeded",
        "badStatus", "failed", "meter", "meterError", "done"}

Replies == {"none", "refused", "shed", "noCandidate", "internalError",
            "badGateway", "relayed", "gone"}

TypeOK ==
  /\ pc \in [Requests -> PCs]
  /\ len \in [Requests -> Nat]
  /\ mode \in [Requests -> Modes]
  /\ cand \in [Requests -> Candidates \cup {NoCandidate}]
  /\ permit \in [Requests -> SUBSET Permits]
  /\ raw \in [Requests -> BOOLEAN]
  /\ out \in [Requests -> {"none", "handler", "wire", "gone"}]
  /\ outLen \in [Requests -> Nat]
  /\ head \in [Requests -> {"none", "ok", "bad"}]
  /\ reply \in [Requests -> Replies]
  /\ free \in SUBSET Permits
  /\ warm \in [Candidates -> [Modes -> BOOLEAN]]
  /\ outcomes \in [Candidates -> [{"ok", "error"} -> Nat]]
  /\ requestsTotal \in [Candidates -> Nat]
  /\ errorsTotal \in [Candidates -> Nat]
  /\ bufferRejections \in Nat

Init ==
  /\ pc = [r \in Requests |-> "arrive"]
  /\ len = [r \in Requests |-> 0]
  /\ mode = [r \in Requests |-> "nonstreaming"]
  /\ cand = [r \in Requests |-> NoCandidate]
  /\ permit = [r \in Requests |-> {}]
  /\ raw = [r \in Requests |-> FALSE]
  /\ out = [r \in Requests |-> "none"]
  /\ outLen = [r \in Requests |-> 0]
  /\ head = [r \in Requests |-> "none"]
  /\ reply = [r \in Requests |-> "none"]
  /\ free = Permits
  /\ warm = [c \in Candidates |-> [m \in Modes |-> FALSE]]
  /\ outcomes = [c \in Candidates |-> [o \in {"ok", "error"} |-> 0]]
  /\ requestsTotal = [c \in Candidates |-> 0]
  /\ errorsTotal = [c \in Candidates |-> 0]
  /\ bufferRejections = 0

-----------------------------------------------------------------------------
(* Helpers *)

Goto(r, here, there) ==
  /\ pc[r] = here
  /\ pc' = [pc EXCEPT ![r] = there]

\* A step of the handler that changes nothing but where it is.
Move(r, here, there) ==
  /\ Goto(r, here, there)
  /\ UNCHANGED <<len, mode, cand, raw, out, outLen, head, reply, budget, stats, meters>>

Answer(r, how) == reply' = [reply EXCEPT ![r] = how]

\* A slip: the permit is forgotten instead of dropped.
ForgetPermit(r) ==
  /\ permit' = [permit EXCEPT ![r] = {}]
  /\ UNCHANGED free

\* The OwnedSemaphorePermit of r is dropped.
Release(r) ==
  /\ permit' = [permit EXCEPT ![r] = {}]
  /\ free' = free \cup permit[r]

\* handle_request returns while it still owns the permit and the raw buffer.
ReturnEarly(r, here, how) ==
  /\ Goto(r, here, "done")
  /\ Answer(r, how)
  /\ raw' = [raw EXCEPT ![r] = FALSE]
  /\ Release(r)
  /\ UNCHANGED <<len, mode, cand, out, outLen, head, stats, meters>>

-----------------------------------------------------------------------------
(* Admission: decided on the declared length, before a byte is buffered. *)

\* A slip: a body of unknown length is let through.
DeclaredOrNot == Lengths \cup {-1}

\* `size_hint().exact()`: what a request with a Content-Length declares.
Declared == Lengths

Refuse(r) ==
  /\ Goto(r, "arrive", "done")
  /\ Answer(r, "refused")
  /\ UNCHANGED <<len, mode, cand, raw, out, outLen, head, budget, stats, meters>>

\* No Content-Length: 411.
RefuseUndeclared(r) == Refuse(r)

\* Above the cap: 413.
RefuseTooLarge(r) == (\E n \in Declared : n > MaxBodyBytes) /\ Refuse(r)

\* try_acquire_many_owned fails: 429 with Retry-After.
Shed(r) ==
  \E n \in Declared :
    /\ n <= MaxBodyBytes
    /\ Cardinality(free) < Want(n)
    /\ Goto(r, "arrive", "done")
    /\ Answer(r, "shed")
    /\ len' = [len EXCEPT ![r] = n]
    /\ bufferRejections' = bufferRejections + 1
    /\ UNCHANGED <<mode, cand, raw, out, outLen, head, budget, stats,
                   requestsTotal, errorsTotal>>

Reserve(r) ==
  \E n \in Declared :
    /\ n <= MaxBodyBytes
    /\ Goto(r, "arrive", "reading")
    /\ len' = [len EXCEPT ![r] = n]
    /\ \E P \in kSubset(Want(n), free) :
         /\ permit' = [permit EXCEPT ![r] = P]
         /\ free' = free \ P
    /\ raw' = [raw EXCEPT ![r] = TRUE]
    /\ UNCHANGED <<mode, cand, out, outLen, head, reply, stats, meters>>

-----------------------------------------------------------------------------
(* Buffering, parsing, routing *)

BodyArrives(r) == Move(r, "reading", "collected")

\* The client's body breaks off: 400.
BodyFails(r) == ReturnEarly(r, "reading", "refused")

\* Not a JSON object, no "model", or an unknown alias: 400.
RejectBody(r) == ReturnEarly(r, "collected", "refused")

\* select_candidate returns None only for an alias without candidates: 502.
NoneToSelect(r) ==
  /\ \E a \in Aliases : CandidatesOf[a] = {}
  /\ ReturnEarly(r, "collected", "noCandidate")

\* A pin that holds, or the router's choice, is one of the alias' candidates.
Route(r) ==
  /\ Goto(r, "collected", "routed")
  /\ \E a \in Aliases : \E c \in CandidatesOf[a] : cand' = [cand EXCEPT ![r] = c]
  /\ \E m \in Modes : mode' = [mode EXCEPT ![r] = m]
  /\ UNCHANGED <<len, raw, out, outLen, head, reply, budget, stats, meters>>

\* prepare_outbound returns Err: 500 (the permit it was given is dropped).
PrepareFails(r) == ReturnEarly(r, "routed", "internalError")

\* The outbound copy takes over the permit; the raw buffer is still alive.
Prepare(r) ==
  /\ Goto(r, "routed", "prepared")
  /\ out' = [out EXCEPT ![r] = "handler"]
  /\ \E g \in Growths : outLen' = [outLen EXCEPT ![r] = len[r] + g]
  /\ UNCHANGED <<len, mode, cand, raw, head, reply, budget, stats, meters>>

\* `drop(body_bytes)`
DropRaw(r) ==
  /\ Goto(r, "prepared", "forward")
  /\ raw' = [raw EXCEPT ![r] = FALSE]
  /\ UNCHANGED <<len, mode, cand, out, outLen, head, reply, budget, stats, meters>>

-----------------------------------------------------------------------------
(* forward_request *)

\* get_token fails or times out: the OutboundBody is dropped unsent.
AuthFails(r) ==
  /\ cand[r] \in GcpCandidates
  /\ Goto(r, "forward", "failed")
  /\ out' = [out EXCEPT ![r] = "gone"]
  /\ Release(r)
  /\ UNCHANGED <<len, mode, cand, raw, outLen, head, reply, stats, meters>>

\* `.send()`: the body now belongs to the HTTP client.
Send(r) ==
  /\ Goto(r, "forward", "awaitHead")
  /\ out' = [out EXCEPT ![r] = "wire"]
  /\ UNCHANGED <<len, mode, cand, raw, outLen, head, reply, budget, stats, meters>>

\* The HTTP client drops the body: upload complete, connection failed, or
\* request cancelled.  May come before or long after the handler moved on.
UploadEnds(r) ==
  /\ out[r] = "wire"
  /\ out' = [out EXCEPT ![r] = "gone"]
  /\ Release(r)
  /\ UNCHANGED <<pc, len, mode, cand, raw, outLen, head, reply, stats, meters>>

\* Connect error, connect or read timeout, broken connection.
SendFails(r) == Move(r, "awaitHead", "failed")

Head(r) ==
  /\ Goto(r, "awaitHead",
          IF mode[r] = "streaming" THEN "firstChunk" ELSE "readBody")
  /\ \E s \in {"ok", "bad"} : head' = [head EXCEPT ![r] = s]
  /\ UNCHANGED <<len, mode, cand, raw, out, outLen, reply, budget, stats, meters>>

\* A slip: the status of the response is not looked at.
AnyResponseSucceeds(r) == "warming"

AfterResponse(r) == IF head[r] = "ok" THEN "warming" ELSE "badStatus"

\* First chunk of a stream, or its end (an empty first chunk).
FirstChunk(r) == Move(r, "firstChunk", AfterResponse(r))

\* The whole body was read within the cap.
BodyRead(r) == Move(r, "readBody", AfterResponse(r))

\* Broken first chunk; broken, stalled or over-cap response body.
ResponseFails(r) == \E here \in {"firstChunk", "readBody"} : Move(r, here, "failed")

-----------------------------------------------------------------------------
(* Feedback and answer; no await from here on. *)

\* record_success, first half: the latency EWMA.
RecordLatency(r) ==
  /\ Goto(r, "warming", "succeeded")
  /\ warm' = [warm EXCEPT ![cand[r]][mode[r]] = TRUE]
  /\ UNCHANGED <<len, mode, cand, raw, out, outLen, head, reply, budget, outcomes, meters>>

Outcome(r, here, o, there) ==
  /\ Goto(r, here, there)
  /\ outcomes' = [outcomes EXCEPT ![cand[r]][o] = @ + 1]
  /\ UNCHANGED <<len, mode, cand, raw, out, outLen, head, reply, budget, warm, meters>>

\* record_success, second half: the success rate.
RecordSuccess(r) == Outcome(r, "succeeded", "ok", "meter")

\* record_error on a non-2xx response.
RecordBadStatus(r) == Outcome(r, "badStatus", "error", "meter")

\* record_error when forward_request returned Err.
RecordFailure(r) == Outcome(r, "failed", "error", "meterError")

\* requests_total and the latency histogram; the response is relayed.
MeterResponse(r) ==
  /\ Goto(r, "meter", "done")
  /\ Answer(r, "relayed")
  /\ requestsTotal' = [requestsTotal EXCEPT ![cand[r]] = @ + 1]
  /\ UNCHANGED <<len, mode, cand, raw, out, outLen, head, budget, stats,
                 errorsTotal, bufferRejections>>

\* errors_total; the client gets a 502.
MeterError(r) ==
  /\ Goto(r, "meterError", "done")
  /\ Answer(r, "badGateway")
  /\ errorsTotal' = [errorsTotal EXCEPT ![cand[r]] = @ + 1]
  /\ UNCHANGED <<len, mode, cand, raw, out, outLen, head, budget, stats,
                 requestsTotal, bufferRejections>>

-----------------------------------------------------------------------------
\* The awaits of the handler, where hyper may drop its future.  Before the
\* send only a GCP candidate has one.
AtAwait(r) ==
  \/ pc[r] \in {"reading", "awaitHead", "firstChunk", "readBody"}
  \/ pc[r] = "forward" /\ cand[r] \in GcpCandidates

\* A slip: on disconnect the permit goes even if the body is on the wire.
DisconnectFreesAll(r) ==
  /\ AtAwait(r)
  /\ pc' = [pc EXCEPT ![r] = "done"]
  /\ Answer(r, "gone")
  /\ raw' = [raw EXCEPT ![r] = FALSE]
  /\ Release(r)
  /\ UNCHANGED <<len, mode, cand, out, outLen, head, stats, meters>>

\* The client disconnects: the handler's future and all it owns are dropped,
\* nothing is recorded.  A body on the wire is not the handler's any more.
Disconnect(r) ==
  /\ AtAwait(r)
  /\ pc' = [pc EXCEPT ![r] = "done"]
  /\ Answer(r, "gone")
  /\ raw' = [raw EXCEPT ![r] = FALSE]
  /\ IF out[r] = "wire"
     THEN UNCHANGED <<out, budget>>
     ELSE /\ out' = [out EXCEPT ![r] = IF @ = "handler" THEN "gone" ELSE @]
          /\ Release(r)
  /\ UNCHANGED <<len, mode, cand, outLen, head, stats, meters>>

\* Every request is answered and nothing is left on the wire.
Quiescent ==
  /\ \A r \in Requests : pc[r] = "done" /\ out[r] # "wire"
  /\ UNCHANGED vars

Arrive(r) == RefuseUndeclared(r) \/ RefuseTooLarge(r) \/ Shed(r) \/ Reserve(r)

\* What the client owes once it was admitted.
ClientSends(r) == BodyArrives(r) \/ BodyFails(r)

\* A slip: nothing bounds the wait for the upstream's first byte.
NoReadTimeout(r) ==
  \/ RejectBody(r) \/ NoneToSelect(r) \/ Route(r)
  \/ PrepareFails(r) \/ Prepare(r) \/ DropRaw(r) \/ AuthFails(r) \/ Send(r)

\* What the handler does on its own; the waits among these steps end because
\* of the client's connect and read timeouts and the auth timeout.
Advance(r) ==
  \/ RejectBody(r) \/ NoneToSelect(r) \/ Route(r)
  \/ PrepareFails(r) \/ Prepare(r) \/ DropRaw(r)
  \/ AuthFails(r) \/ Send(r) \/ SendFails(r) \/ Head(r)
  \/ FirstChunk(r) \/ BodyRead(r) \/ ResponseFails(r)
  \/ RecordLatency(r) \/ RecordSuccess(r) \/ RecordBadStatus(r)
  \/ RecordFailure(r) \/ MeterResponse(r) \/ MeterError(r)

Next ==
  \/ \E r \in Requests :
       Arrive(r) \/ ClientSends(r) \/ Advance(r) \/ UploadEnds(r) \/ Disconnect(r)
  \/ Quiescent

Fairness ==
  \A r \in Requests :
    /\ WF_vars(ClientSends(r))
    /\ WF_vars(Advance(r))
    /\ WF_vars(UploadEnds(r))

Spec == Init /\ [][Next]_vars /\ Fairness

-----------------------------------------------------------------------------
(* Safety *)

Alive(r) == raw[r] \/ out[r] \in {"handler", "wire"}

\* No interleaving of admissions, early returns, disconnects and uploads loses
\* a permit of the budget or gives it to two requests (server.rs BufferBudget,
\* proxy.rs OutboundBody: the permit moves with the body it pays for).
PermitsPartitioned ==
  /\ free \cup UNION {permit[r] : r \in Requests} = Permits
  /\ \A r \in Requests :
       /\ permit[r] \cap free = {}
       /\ \A s \in Requests \ {r} : permit[r] \cap permit[s] = {}

\* What a number of permits pays for: n bytes, and not a whole permit more
\* (an empty body still takes one).  One acquire cannot name more than WantCap.
Pays(count, n) ==
  /\ n <= count * PermitBytes \/ WantCap < PermitCount
  /\ count = 1 \/ (count - 1) * PermitBytes < n

\* A request holds permits exactly as long as one of its buffers lives, the
\* outbound copy on the wire of a request already answered or abandoned
\* included, and they pay for every byte it declared.
CopiesCovered ==
  \A r \in Requests :
    IF Alive(r) THEN permit[r] # {} /\ Pays(Cardinality(permit[r]), len[r])
                ELSE permit[r] = {}

\* Those of the requests R that were routed to candidate c, and their number.
Picked(c, R) == {r \in R : cand[r] = c}
Picks(c, R) == Cardinality(Picked(c, R))

\* Answered in the name of an upstream; counted as an outcome but not metered
\* yet; told to the tracker as a success; past the latency half of a success
\* in latency mode m.
Answered == {r \in Requests : reply[r] \in {"relayed", "badGateway"}}
Unmetered == {r \in Requests : pc[r] \in {"meter", "meterError"}}
Succeeded ==
  {r \in Requests : head[r] = "ok" /\ (pc[r] = "meter" \/ reply[r] = "relayed")}
Earned(m) ==
  {r \in Requests : /\ mode[r] = m
                    /\ head[r] = "ok"
                    /\ pc[r] \in {"succeeded", "meter"} \/ reply[r] = "relayed"}

\* The tracker and the counters tell one story: per candidate, outcomes folded
\* in are the requests metered or about to be; each answer that named an
\* upstream is metered once; a disconnected client leaves no trace; only a 2xx
\* response that was read to its end (or to its first chunk) is a success; and
\* a candidate is warm in exactly the modes of a 2xx.  This is what the
\* handlers have done, each in its own order: the atomics are Relaxed, and what
\* another thread reads of two of them is not the subject here.
FeedbackMatchesAnswers ==
  \A c \in Candidates :
    LET metered == requestsTotal[c] + errorsTotal[c]
    IN  /\ metered = Picks(c, Answered)
        /\ outcomes[c].ok + outcomes[c].error = metered + Picks(c, Unmetered)
        /\ outcomes[c].ok = Picks(c, Succeeded)
        /\ \A m \in Modes : warm[c][m] <=> Picks(c, Earned(m)) > 0

\* 429 is only ever momentary (main.rs "fits the cap" means "can ever fit"):
\* a body under the cap is shed only while other requests hold permits.
ShedOnlyUnderLoad ==
  [][\A r \in Requests : reply[r] # "shed" /\ reply'[r] = "shed" => free # Permits]_vars

-----------------------------------------------------------------------------
(* Liveness *)

\* A request that was given budget is eventually answered or abandoned.
AdmittedAnswered ==
  \A r \in Requests : permit[r] # {} ~> pc[r] = "done"

-----------------------------------------------------------------------------
(* What the documentation says *)

\* config.rs: max_buffered_bytes caps the total bytes of request bodies
\* buffered across all in-flight requests.
BufferedWithinBudget ==
  LET Buffered(r) == (IF raw[r] THEN len[r] ELSE 0)
                       + (IF out[r] \in {"handler", "wire"} THEN outLen[r] ELSE 0)
  IN  MapThenSumSet(Buffered, Requests) <= PermitCount * PermitBytes

\* README: sturnus_errors_total counts failures that never produced a response.
ErrorsHadNoResponse ==
  \A c \in Candidates :
    LET NoResponse == {r \in Requests : head[r] = "none" /\ reply[r] = "badGateway"}
    IN  errorsTotal[c] <= Picks(c, NoResponse)

-----------------------------------------------------------------------------
(* The budget alone, as the module Admission states it *)

Stage(r) ==
  CASE pc[r] = "arrive" -> "new"
    [] reply[r] = "shed" -> "shed"
    [] permit[r] # {} -> "admitted"
    [] OTHER -> "over"

Budget == INSTANCE Admission
            WITH stage <- [r \in Requests |-> Stage(r)], held <- permit

\* The whole request path implements the budget's contract.
ImplementsAdmission == Budget!Spec
=============================================================================
