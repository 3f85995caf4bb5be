---------------------------- MODULE ResponseRelay ----------------------------
(***************************************************************************)
(* One response on its way from the upstream to the client, after its head *)
(* arrived (src/proxy.rs forward_request, read_capped, build_relay_stream, *)
(* src/server.rs handle_request): relayed chunk by chunk when the request  *)
(* asked for a stream, read whole and capped when not.                     *)
(*                                                                         *)
(* The body is the units 1, 2, 3 ... and a chunk is a run of them.  Two    *)
(* libraries frame it, and are external: the HTTP client fails a body that *)
(* ends short of its Content-Length, the server cuts a body to the length  *)
(* it announced, breaks the connection of one that falls short, and asks   *)
(* the relay for more only while its write buffer has room.                *)
(***************************************************************************)
EXTENDS Integers, Sequences

CONSTANTS
  MaxLen,             \* bound on the units of a body
  MaxChunk,           \* bound on the units of a chunk
  Cap,                \* budget.max_body_bytes
  EventLen,           \* units of the error event
  SendBuffer          \* units the server buffers for a client that is slow

ASSUME RelayAssumption ==
  /\ {MaxLen, Cap} \subseteq Nat
  /\ {MaxChunk, EventLen, SendBuffer} \subseteq Nat \ {0}

Chunked == -1         \* no Content-Length
Event   == 0          \* a unit of the error event

VARIABLES
  streaming,          \* the request said "stream": true
  declared,           \* the upstream's Content-Length, or Chunked
  arrived,            \* units the HTTP client has yielded
  upstream,           \* "open", "ended" or "broken"
  pc,                 \* "head", "buffering", "relaying", "failed", "over"
  errored,            \* the flag of the scan
  counted,            \* requests_total was incremented for it
  received,           \* what was written for the client,
  unread,             \* how many units of that it has not taken, and
  transfer            \* how its transfer stands: "open", "complete", "broken"

vars == <<streaming, declared, arrived, upstream, pc, errored, counted,
          received, unread, transfer>>

Init ==
  /\ streaming \in BOOLEAN
  /\ declared \in {Chunked} \cup 0 .. MaxLen
  /\ arrived = 0
  /\ upstream = "open"
  /\ pc = "head"
  /\ errored = FALSE
  /\ counted = FALSE
  /\ received = <<>>
  /\ unread = 0
  /\ transfer = "open"

-----------------------------------------------------------------------------
(* What the HTTP client yields: a chunk of n units, the end, or an error. *)

\* A slip: what has arrived is not counted.
WholeRoom == IF declared = Chunked THEN MaxLen ELSE declared

Room == (IF declared = Chunked THEN MaxLen ELSE declared) - arrived

Yields(n) ==
  /\ upstream = "open" /\ n <= Room
  /\ arrived' = arrived + n
  /\ UNCHANGED upstream

Ends ==
  /\ upstream = "open" /\ declared \in {Chunked, arrived}
  /\ upstream' = "ended"
  /\ UNCHANGED arrived

\* A broken connection, or the read timeout; again at every later poll.
Breaks ==
  /\ upstream # "ended" /\ arrived # declared
  /\ upstream' = "broken"
  /\ UNCHANGED arrived

Units(n) == [k \in 1 .. n |-> arrived + k]

\* A slip: the stream just ends, as it would without the scan.
NoEvent == <<>>

ErrorEvent == [k \in 1 .. EventLen |-> Event]

-----------------------------------------------------------------------------
(* What the server writes.  Content-Length is not among the headers that   *)
(* sanitize_response_headers drops.                                        *)

Announced == declared

\* The units that fit the announced length.
Fitting(us) ==
  IF Announced = Chunked \/ Len(received) + Len(us) <= Announced THEN us
  ELSE SubSeq(us, 1, Announced - Len(received))

\* The server polls the relay while less than that waits for the client; the
\* last chunk may overshoot.
Polled == unread < SendBuffer

\* A body of the announced length is complete without being polled again.
Write(us) ==
  /\ received' = received \o Fitting(us)
  /\ unread' = unread + Len(Fitting(us))
  /\ IF Announced = Len(received')
     THEN transfer' = "complete" /\ pc' = "over"
     ELSE pc' = "relaying" /\ UNCHANGED transfer

\* The body ended before that.
EndWrite ==
  /\ transfer' = IF Announced = Chunked THEN "complete" ELSE "broken"
  /\ pc' = "over"
  /\ UNCHANGED <<received, unread>>

-----------------------------------------------------------------------------
(* Streaming *)

\* The first chunk, or an empty one for a body that has none, decides what
\* the tracker and the counters are told.
FirstChunk ==
  /\ pc = "head" /\ streaming
  /\ \/ \E n \in 1 .. MaxChunk : Yields(n) /\ Write(Units(n))
     \/ Ends /\ Write(<<>>)
  /\ counted' = TRUE
  /\ UNCHANGED <<streaming, declared, errored>>

FirstChunkFails ==
  /\ pc = "head" /\ streaming /\ Breaks
  /\ pc' = "failed"
  /\ UNCHANGED <<streaming, declared, errored, counted, received, unread, transfer>>

RelayChunk ==
  /\ pc = "relaying" /\ Polled /\ ~errored
  /\ \E n \in 1 .. MaxChunk : Yields(n) /\ Write(Units(n))
  /\ UNCHANGED <<streaming, declared, errored, counted>>

\* A slip: the flag is not set.
UnnoticedError == FALSE

\* `*errored = true`
MarkError == TRUE

RelayError ==
  /\ pc = "relaying" /\ Polled /\ ~errored /\ Breaks
  /\ Write(ErrorEvent)
  /\ errored' = MarkError
  /\ UNCHANGED <<streaming, declared, counted>>

\* The upstream's end, or its next yield after an error: `scan` returns None.
RelayEnds ==
  /\ pc = "relaying" /\ Polled
  /\ \/ errored /\ Breaks
     \/ Ends
     \/ upstream = "ended" /\ UNCHANGED <<upstream, arrived>>
  /\ EndWrite
  /\ UNCHANGED <<streaming, declared, errored, counted>>

-----------------------------------------------------------------------------
(* The client, which may also just stop reading: nothing bounds that.      *)

ClientReads ==
  /\ \E n \in 1 .. unread : unread' = unread - n
  /\ UNCHANGED <<streaming, declared, arrived, upstream, pc, errored, counted, received, transfer>>

\* The client disconnects: the relay is dropped.
ClientLeaves ==
  /\ pc = "relaying"
  /\ pc' = "over" /\ transfer' = "broken" /\ unread' = 0
  /\ UNCHANGED <<streaming, declared, arrived, upstream, errored, counted, received>>

-----------------------------------------------------------------------------
(* Not streaming: read_capped *)

\* A slip: the chunk is not counted before it is appended.
WithinCapSoFar(len, n) == len <= Cap

WithinCap(len, n) == len + n <= Cap

Reading ==
  \/ pc = "head" /\ ~streaming /\ declared <= Cap
  \/ pc = "buffering"

Refused ==
  /\ pc' = "failed"
  /\ UNCHANGED <<streaming, declared, errored, counted, received, unread, transfer>>

DeclaresTooMuch ==
  /\ pc = "head" /\ ~streaming /\ declared > Cap
  /\ Refused /\ UNCHANGED <<arrived, upstream>>

Buffer ==
  /\ Reading
  /\ \E n \in 1 .. MaxChunk :
       /\ Yields(n)
       /\ \/ /\ WithinCap(arrived, n)
             /\ pc' = "buffering"
             /\ UNCHANGED <<streaming, declared, errored, counted, received, unread, transfer>>
          \/ ~WithinCap(arrived, n) /\ Refused

BufferFails ==
  /\ Reading
  /\ Breaks /\ Refused

\* The whole body goes out under its own length.
BufferEnds ==
  /\ Reading
  /\ Ends
  /\ counted' = TRUE
  /\ received' = [k \in 1 .. arrived |-> k]
  /\ unread' = arrived
  /\ transfer' = "complete"
  /\ pc' = "over"
  /\ UNCHANGED <<streaming, declared, errored>>

-----------------------------------------------------------------------------
\* forward_request returned Err, or the response is out.
Over == pc \in {"failed", "over"} /\ UNCHANGED vars

Fails == FirstChunkFails \/ RelayError \/ BufferFails

\* A slip: nothing bounds the silence of an upstream in mid-stream.
HeadFails == FirstChunkFails

\* What the read timeout does to an upstream that says nothing.  It is armed
\* when a poll finds nothing there, so in mid-stream only under Polled.
ReadTimeout == Fails

Next ==
  \/ FirstChunk \/ RelayChunk \/ RelayEnds \/ ClientReads \/ ClientLeaves
  \/ DeclaresTooMuch \/ Buffer \/ BufferEnds
  \/ Fails \/ Over

\* The read timeout turns silence into an error, which the next poll of the
\* relay follows; a body that is complete by its length is seen to be; the
\* end of a body that has none is the upstream's own business, and reading is
\* the client's.
Fairness ==
  /\ WF_vars(ReadTimeout)
  /\ WF_vars(DeclaresTooMuch)
  /\ WF_vars(arrived = declared /\ (FirstChunk \/ BufferEnds))
  /\ WF_vars((errored \/ upstream = "ended") /\ RelayEnds)

Spec == Init /\ [][Next]_vars /\ Fairness

-----------------------------------------------------------------------------
TypeOK ==
  /\ {streaming, errored, counted} \subseteq BOOLEAN
  /\ declared \in {Chunked} \cup 0 .. MaxLen
  /\ arrived \in 0 .. MaxLen
  /\ upstream \in {"open", "ended", "broken"}
  /\ pc \in {"head", "buffering", "relaying", "failed", "over"}
  /\ received \in Seq(0 .. MaxLen)
  /\ unread \in Nat
  /\ transfer \in {"open", "complete", "broken"}

\* The first n units of the body, then e units of the error event.
Shows(n, e) == [k \in 1 .. n + e |-> IF k <= n THEN k ELSE Event]

EventSeen == \E k \in DOMAIN received : received[k] = Event

\* What one response makes the process hold: read whole, no more than the cap,
\* however it was framed and chunked; relayed, no more than one chunk or event
\* over the server's write buffer, however slow or stalled its client.
HeldBounded ==
  /\ ~streaming /\ pc \in {"buffering", "over"} => arrived <= Cap
  /\ streaming => \E n \in {MaxChunk, EventLen} : unread < SendBuffer + n

\* The client sees a prefix of what the upstream sent, every unit once and in
\* order, and after that at most one error event, with nothing behind it.
PrefixThenEvent ==
  \E n \in 0 .. arrived, e \in 0 .. EventLen : received = Shows(n, e)

\* No response is silently truncated: one that the client takes for complete,
\* without a trace of the error event, is all that the upstream had to say.
CompleteIsWhole ==
  transfer = "complete" /\ ~EventSeen =>
    /\ received = Shows(arrived, 0)
    /\ upstream = "ended" \/ declared = arrived

\* The relay is not polled, and the read timeout with it is not armed.
Stalled == pc = "relaying" /\ ~Polled

\* A response of bounded length ends, though the upstream may fall silent at
\* any point of it, unless the client stops reading for good without leaving:
\* then nothing in the code ends it (server.rs sets no write timeout).
ResponseEnds == <>(pc \in {"failed", "over"}) \/ <>[]Stalled

\* proxy.rs: "On error, emits an SSE error event and terminates the stream
\* (instead of silently truncating)".  A transfer that looks complete then
\* holds the event.
EventIsWhole ==
  errored /\ transfer = "complete" => \E n \in 0 .. arrived : received = Shows(n, EventLen)

\* README: sturnus_requests_total counts completed responses.
CountedAreComplete == counted /\ pc = "over" => upstream # "broken"
=============================================================================
