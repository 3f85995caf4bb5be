------------------------ MODULE ResponseRelayProofs ------------------------
(***************************************************************************)
(* What the client of one relayed or buffered response sees, for every     *)
(* length, chunking, cap and size of the error event.                      *)
(***************************************************************************)
EXTENDS ResponseRelay, SequenceTheorems, TLAPS

Unit == 0 .. MaxLen

(* The inductive invariant: what was relayed is all that arrived, and then *)
(* a part of the event if the upstream broke; the flag is set only for an  *)
(* upstream that is broken and of which at least one announced unit is     *)
(* missing; what is held for the client stays within its bounds.           *)

Unsent ==
  pc \in {"head", "buffering", "failed"} =>
    received = <<>> /\ transfer = "open" /\ ~errored

Sound ==
  /\ pc \in {"head", "buffering"} => upstream = "open"
  /\ pc = "head" => arrived = 0
  /\ declared # Chunked => arrived <= declared
  /\ errored => upstream = "broken"

Relaying ==
  pc = "relaying" =>
    /\ transfer = "open" /\ arrived # declared
    /\ ~errored => upstream # "broken"
    /\ upstream = "ended" => declared = Chunked

Shown ==
  pc \in {"relaying", "over"} =>
    \E e \in 0 .. EventLen : received = Shows(arrived, e) /\ (errored <=> e > 0)

Whole ==
  pc = "over" /\ transfer = "complete" /\ ~errored =>
    upstream = "ended" \/ declared = arrived

\* Only a stream has units unread while it is relayed, and it begins with none.
Held ==
  /\ pc = "head" => unread = 0
  /\ pc = "relaying" => streaming
  /\ pc = "buffering" => ~streaming
  /\ HeldBounded

IInv == TypeOK /\ Unsent /\ Sound /\ Relaying /\ Shown /\ Whole /\ Held

-----------------------------------------------------------------------------
(* What is shown, as a sequence *)

LEMMA Constants ==
  /\ MaxLen \in Nat /\ Cap \in Nat
  /\ MaxChunk \in Nat \ {0} /\ EventLen \in Nat \ {0} /\ Event \in Unit
  /\ SendBuffer \in Nat \ {0}
BY RelayAssumption DEF Event, Unit

\* Units of the body and of the event, in a row.
LEMMA ShowsType ==
  ASSUME NEW n \in Unit, NEW e \in Nat
  PROVE  /\ Shows(n, e) \in Seq(Unit) /\ Len(Shows(n, e)) = n + e
         /\ \A k \in 1 .. n + e : Shows(n, e)[k] = IF k <= n THEN k ELSE Event
<1>1. n \in Nat /\ n + e \in Nat /\ n <= MaxLen
  BY Constants DEF Unit
<1>2. Shows(n, e) \in [1 .. n + e -> Unit]
  BY <1>1, Constants DEF Shows, Unit
<1> QED
  BY <1>1, <1>2 DEF Shows

LEMMA BodyShown ==
  ASSUME NEW n \in Unit
  PROVE  /\ Shows(n, 0) \in Seq(Unit) /\ Len(Shows(n, 0)) = n
         /\ \A k \in 1 .. n : Shows(n, 0)[k] = k
<1>1. n \in Nat /\ 0 \in Nat /\ n + 0 = n
  BY Constants DEF Unit
<1>2. /\ Shows(n, 0) \in Seq(Unit) /\ Len(Shows(n, 0)) = n + 0
      /\ \A k \in 1 .. n + 0 : Shows(n, 0)[k] = IF k <= n THEN k ELSE Event
  BY <1>1, ShowsType
<1>3. \A k \in 1 .. n : k <= n
  BY <1>1
<1> QED
  BY <1>1, <1>2, <1>3

LEMMA ShowsNone == Shows(0, 0) = <<>>
BY DEF Shows

\* Room in the write buffer leaves no more than a chunk or an event over it.
LEMMA HeldStep ==
  ASSUME streaming, streaming', unread \in Nat, unread < SendBuffer,
         NEW n \in {MaxChunk, EventLen}, NEW k \in 0 .. n, unread' = unread + k
  PROVE  HeldBounded' /\ unread' \in Nat
<1>1. n \in Nat /\ k \in Nat /\ k <= n /\ SendBuffer \in Nat
  BY Constants
<1>2. unread' < SendBuffer + n /\ unread' \in Nat
  BY <1>1
<1> QED
  BY <1>2 DEF HeldBounded

\* A chunk behind what is shown is shown.
LEMMA ShowsChunk ==
  ASSUME NEW n \in Unit, NEW m \in Nat, n + m \in Unit
  PROVE  Shows(n, 0) \o [k \in 1 .. m |-> n + k] = Shows(n + m, 0)
<1> DEFINE c == [k \in 1 .. m |-> n + k]
           s == Shows(n, 0)
           t == Shows(n + m, 0)
<1>1. n \in Nat /\ n + m \in Nat /\ n + m <= MaxLen /\ MaxLen \in Nat
  BY Constants DEF Unit
<1>a. s \in Seq(Unit) /\ Len(s) = n /\ \A k \in 1 .. n : s[k] = k
  BY <1>1, BodyShown
<1>b. t \in Seq(Unit) /\ Len(t) = n + m /\ \A k \in 1 .. n + m : t[k] = k
  BY <1>1, BodyShown
<1>2. /\ s \in Seq(Unit) /\ Len(s) = n /\ \A k \in 1 .. n : s[k] = k
      /\ t \in Seq(Unit) /\ Len(t) = n + m /\ \A k \in 1 .. n + m : t[k] = k
  BY <1>a, <1>b
<1>3. c \in Seq(Unit) /\ Len(c) = m /\ \A k \in 1 .. m : c[k] = n + k
  <2>1. c \in [1 .. m -> Unit]
    BY <1>1 DEF Unit
  <2> QED
    BY <2>1
<1> HIDE DEF c, s, t
<1>4. /\ s \o c \in Seq(Unit) /\ Len(s \o c) = n + m
      /\ \A k \in 1 .. n + m : (s \o c)[k] = IF k <= n THEN s[k] ELSE c[k - n]
  BY <1>2, <1>3, ConcatProperties
<1>5. ASSUME NEW k \in 1 .. n + m PROVE (s \o c)[k] = t[k]
  <2>1. CASE k <= n
    BY <2>1, <1>1, <1>2, <1>4
  <2>2. CASE ~(k <= n)
    <3>1. k - n \in 1 .. m /\ n + (k - n) = k
      BY <2>2, <1>1
    <3> QED
      BY <2>2, <3>1, <1>2, <1>3, <1>4
  <2> QED
    BY <2>1, <2>2
<1>6. s \o c = t
  BY <1>2, <1>4, <1>5, SeqEqual
<1> QED
  BY <1>6 DEF c, s, t

\* So is a part of the event.
LEMMA ShowsEvent ==
  ASSUME NEW n \in Unit, NEW e \in Nat
  PROVE  Shows(n, 0) \o [k \in 1 .. e |-> Event] = Shows(n, e)
<1> DEFINE c == [k \in 1 .. e |-> Event]
           s == Shows(n, 0)
           t == Shows(n, e)
<1>1. n \in Nat /\ n + e \in Nat /\ MaxLen \in Nat /\ Event \in Unit
  BY Constants DEF Unit
<1>2. /\ s \in Seq(Unit) /\ Len(s) = n /\ \A k \in 1 .. n : s[k] = k
      /\ t \in Seq(Unit) /\ Len(t) = n + e
      /\ \A k \in 1 .. n + e : t[k] = IF k <= n THEN k ELSE Event
  BY BodyShown, ShowsType
<1>3. c \in Seq(Unit) /\ Len(c) = e /\ \A k \in 1 .. e : c[k] = Event
  <2>1. c \in [1 .. e -> Unit]
    BY <1>1
  <2> QED
    BY <2>1
<1> HIDE DEF c, s, t
<1>4. /\ s \o c \in Seq(Unit) /\ Len(s \o c) = n + e
      /\ \A k \in 1 .. n + e : (s \o c)[k] = IF k <= n THEN s[k] ELSE c[k - n]
  BY <1>2, <1>3, ConcatProperties
<1>5. ASSUME NEW k \in 1 .. n + e PROVE (s \o c)[k] = t[k]
  <2>1. CASE k <= n
    BY <2>1, <1>1, <1>2, <1>4
  <2>2. CASE ~(k <= n)
    <3>1. k - n \in 1 .. e
      BY <2>2, <1>1
    <3> QED
      BY <2>2, <3>1, <1>2, <1>3, <1>4
  <2> QED
    BY <2>1, <2>2
<1>6. s \o c = t
  BY <1>2, <1>4, <1>5, SeqEqual
<1> QED
  BY <1>6 DEF c, s, t

-----------------------------------------------------------------------------
(* The steps *)

\* Before the relay all that was to be shown is shown: nothing.
LEMMA ShownSoFar ==
  ASSUME IInv, pc \in {"head", "relaying"}, ~errored
  PROVE  received = Shows(arrived, 0) /\ arrived \in Unit
<1>1. CASE pc = "head"
  <2>1. received = <<>> /\ arrived = 0
    BY <1>1 DEF IInv, Unsent, Sound
  <2> QED
    BY <2>1, ShowsNone DEF IInv, TypeOK, Unit
<1>2. CASE pc = "relaying"
  <2>1. PICK e \in 0 .. EventLen : received = Shows(arrived, e) /\ (errored <=> e > 0)
    BY <1>2 DEF IInv, Shown
  <2>2. e = 0
    BY <2>1, Constants
  <2> QED
    BY <2>1, <2>2 DEF IInv, TypeOK, Unit
<1> QED
  BY <1>1, <1>2

LEMMA RelayInit == Init => IInv
<1> SUFFICES ASSUME Init PROVE IInv
  OBVIOUS
<1>1. TypeOK
  <2>1. received \in Seq(0 .. MaxLen) /\ arrived \in 0 .. MaxLen
    BY Constants DEF Init
  <2> QED
    BY <2>1 DEF Init, TypeOK
<1>2. Unsent /\ Relaying /\ Shown /\ Whole
  BY DEF Init, Unsent, Relaying, Shown, Whole
<1>4. Held
  <2>1. unread < SendBuffer + MaxChunk
    BY Constants DEF Init
  <2> QED
    BY <2>1 DEF Init, Held, HeldBounded
<1>3. Sound
  BY Constants DEF Init, Sound, Chunked
<1> QED
  BY <1>1, <1>2, <1>3, <1>4 DEF IInv

\* A chunk is relayed whole: the HTTP client yields no more than was announced.
LEMMA ChunkStep ==
  ASSUME IInv, pc \in {"head", "relaying"}, ~errored, NEW n \in 1 .. MaxChunk,
         streaming, unread < SendBuffer, Yields(n), Write(Units(n)), UNCHANGED <<streaming, declared, errored>>,
         counted' \in BOOLEAN
  PROVE  IInv'
<1>0. /\ TypeOK /\ Sound /\ arrived \in Nat /\ n \in Nat \ {0} /\ arrived \in Unit
      /\ received = Shows(arrived, 0)
  BY ShownSoFar, Constants DEF IInv, TypeOK, Unit
<1>1. arrived' = arrived + n /\ upstream = "open" /\ upstream' = "open" /\ n <= Room
  BY DEF Yields
<1>2. arrived + n \in Unit /\ (declared # Chunked => arrived + n <= declared)
  <2>1. declared \in Int /\ declared <= MaxLen
    BY <1>0, Constants DEF TypeOK, Chunked
  <2>2. CASE declared = Chunked
    BY <2>2, <1>0, <1>1, Constants DEF Room, Unit
  <2>3. CASE declared # Chunked
    BY <2>1, <2>3, <1>0, <1>1, Constants DEF Room, Unit
  <2> QED
    BY <2>2, <2>3
<1>3. Fitting(Units(n)) = Units(n)
  <2>1. Len(received) = arrived /\ Len(Units(n)) = n
    BY <1>0, BodyShown DEF Units
  <2> QED
    BY <2>1, <1>2 DEF Fitting, Announced
<1>4. received' = Shows(arrived', 0)
  BY <1>0, <1>1, <1>2, <1>3, ShowsChunk DEF Write, Units
<1>5. received' \in Seq(Unit) /\ Len(received') = arrived' /\ arrived' \in Unit
  BY <1>1, <1>2, <1>4, BodyShown
<1>6. \/ declared = arrived' /\ transfer' = "complete" /\ pc' = "over"
      \/ declared # arrived' /\ transfer' = transfer /\ pc' = "relaying"
  BY <1>5 DEF Write, Announced
<1>7. transfer = "open"
  BY DEF IInv, Unsent, Relaying
<1>12. Held' /\ unread' \in Nat
  <2>1. Len(Units(n)) = n /\ n \in 0 .. MaxChunk
    BY <1>0, Constants DEF Units
  <2>2. unread' = unread + n /\ unread \in Nat /\ streaming'
    BY <1>0, <1>3, <2>1 DEF Write, TypeOK
  <2> QED
    BY <1>6, <2>1, <2>2, HeldStep DEF Held
<1>8. TypeOK'
  BY <1>0, <1>1, <1>5, <1>6, <1>12 DEF TypeOK, Unit
<1>9. Unsent' /\ Relaying' /\ Whole'
  BY <1>1, <1>6, <1>7 DEF Unsent, Relaying, Whole
<1>10. Sound'
  BY <1>0, <1>1, <1>2, <1>6 DEF Sound
<1>11. Shown'
  <2>1. 0 \in 0 .. EventLen /\ ~(0 > 0)
    BY Constants
  <2> QED
    BY <1>4, <2>1 DEF Shown
<1> QED
  BY <1>8, <1>9, <1>10, <1>11, <1>12 DEF IInv

\* A streamed body without a byte.
LEMMA EmptyStep ==
  ASSUME IInv, pc = "head", streaming, Ends, Write(<<>>), UNCHANGED <<streaming, declared, errored>>,
         counted' \in BOOLEAN
  PROVE  IInv'
<1>0. /\ TypeOK /\ Sound /\ received = <<>> /\ arrived = 0 /\ transfer = "open" /\ ~errored
  BY DEF IInv, Unsent, Sound
<1>1. upstream' = "ended" /\ arrived' = 0 /\ declared \in {Chunked, 0}
  BY <1>0 DEF Ends
<1>2. Fitting(<<>>) = <<>> /\ received' = <<>>
  BY <1>0, <1>1 DEF Fitting, Announced, Write
<1>3. \/ declared = 0 /\ transfer' = "complete" /\ pc' = "over"
      \/ declared # 0 /\ transfer' = "open" /\ pc' = "relaying"
  BY <1>0, <1>2 DEF Write, Announced
<1>7. Held' /\ unread' \in Nat
  <2>1. unread' = unread + 0 /\ unread = 0 /\ streaming' /\ unread < SendBuffer
    BY <1>2, Constants DEF Write, IInv, Held
  <2>2. 0 \in 0 .. MaxChunk
    BY Constants
  <2> QED
    BY <1>3, <2>1, <2>2, HeldStep DEF Held
<1>4. TypeOK'
  BY <1>0, <1>1, <1>2, <1>3, <1>7 DEF TypeOK
<1>5. Unsent' /\ Relaying' /\ Whole' /\ Sound'
  BY <1>0, <1>1, <1>3 DEF Unsent, Relaying, Whole, Sound
<1>6. Shown'
  <2>1. 0 \in 0 .. EventLen /\ ~(0 > 0)
    BY Constants
  <2> QED
    BY <1>0, <1>1, <1>2, <2>1, ShowsNone DEF Shown
<1> QED
  BY <1>4, <1>5, <1>6, <1>7 DEF IInv

\* The event, or as much of it as the announced length leaves room for, and
\* that is at least one unit: an upstream that broke owed one.
LEMMA EventFits ==
  ASSUME IInv, pc = "relaying", ~errored
  PROVE  \E e \in 1 .. EventLen : Fitting(ErrorEvent) = [k \in 1 .. e |-> Event]
<1>0. Len(received) = arrived /\ arrived \in Nat /\ declared \in Int /\ arrived # declared
        /\ (declared # Chunked => arrived <= declared)
  BY ShownSoFar, BodyShown, Constants DEF IInv, TypeOK, Relaying, Sound, Unit, Chunked
<1>1. /\ EventLen \in Nat \ {0}
      /\ ErrorEvent \in Seq(Unit) /\ Len(ErrorEvent) = EventLen
      /\ \A k \in 1 .. EventLen : ErrorEvent[k] = Event
  <2>1. ErrorEvent \in [1 .. EventLen -> Unit] /\ EventLen \in Nat \ {0}
    BY Constants DEF ErrorEvent
  <2> QED
    BY <2>1 DEF ErrorEvent
<1>2. CASE Announced = Chunked \/ Len(received) + Len(ErrorEvent) <= Announced
  <2>1. Fitting(ErrorEvent) = ErrorEvent
    BY <1>2 DEF Fitting
  <2>2. EventLen \in 1 .. EventLen
    BY <1>1
  <2> QED
    BY <2>1, <2>2 DEF ErrorEvent
<1>3. CASE ~(Announced = Chunked \/ Len(received) + Len(ErrorEvent) <= Announced)
  <2> DEFINE e == declared - arrived
             f == SubSeq(ErrorEvent, 1, e)
             g == [k \in 1 .. e |-> Event]
  <2>1. e \in 1 .. EventLen
    BY <1>0, <1>1, <1>3 DEF Announced
  <2>2. Fitting(ErrorEvent) = f
    BY <1>0, <1>3 DEF Fitting, Announced
  <2> HIDE DEF e
  <2>3. e \in Nat /\ e \in Int /\ 1 <= e /\ \A i \in 1 .. e : ErrorEvent[i] \in Unit /\ ErrorEvent[i] = Event
    BY <2>1, <1>1, Constants
  <2>4. /\ f \in Seq(Unit) /\ Len(f) = e
        /\ \A i \in 1 .. e : f[i] = Event
    <3>1. /\ f \in Seq(Unit) /\ Len(f) = e - 1 + 1
          /\ \A i \in 1 .. e - 1 + 1 : f[i] = ErrorEvent[1 + i - 1]
      BY <2>3, SubSeqProperties
    <3>2. e - 1 + 1 = e /\ \A i \in 1 .. e : 1 + i - 1 = i
      BY <2>3
    <3> QED
      BY <3>1, <3>2, <2>3
  <2>5. g \in Seq(Unit) /\ Len(g) = e /\ \A i \in 1 .. e : g[i] = Event
    <3>1. g \in [1 .. e -> Unit]
      BY Constants
    <3> QED
      BY <3>1, <2>3
  <2>6. f = g
    <3> HIDE DEF f, g
    <3> QED
      BY <2>4, <2>5, SeqEqual
  <2> QED
    BY <2>1, <2>2, <2>6
<1> QED
  BY <1>2, <1>3

LEMMA ErrorStep ==
  ASSUME IInv, RelayError
  PROVE  IInv'
<1>0. /\ pc = "relaying" /\ ~errored /\ errored' = TRUE /\ upstream' = "broken"
      /\ arrived' = arrived /\ UNCHANGED <<streaming, declared, counted>>
      /\ Write(ErrorEvent)
  BY DEF RelayError, Breaks, MarkError
<1>1. PICK e \in 1 .. EventLen : Fitting(ErrorEvent) = [k \in 1 .. e |-> Event]
  BY <1>0, EventFits
<1>2. received = Shows(arrived, 0) /\ arrived \in Unit /\ e \in Nat /\ e > 0 /\ e \in 0 .. EventLen
  BY <1>0, <1>1, ShownSoFar, Constants
<1>3. received' = Shows(arrived, e)
  BY <1>0, <1>1, <1>2, ShowsEvent DEF Write
<1>4. received' \in Seq(Unit)
  BY <1>2, <1>3, ShowsType
<1>5. transfer = "open" /\ arrived # declared /\ upstream # "ended"
  BY <1>0 DEF IInv, Relaying, RelayError, Breaks
<1>6. \/ transfer' = "complete" /\ pc' = "over"
      \/ transfer' = "open" /\ pc' = "relaying"
  BY <1>0, <1>5 DEF Write
<1>10. Held' /\ unread' \in Nat
  <2>1. Len(Fitting(ErrorEvent)) = e /\ e \in 0 .. EventLen
    BY <1>1, <1>2
  <2>2. unread' = unread + e /\ unread \in Nat /\ streaming /\ streaming' /\ unread < SendBuffer
    BY <1>0, <2>1 DEF Write, RelayError, Polled, IInv, TypeOK, Held
  <2> QED
    BY <1>6, <2>1, <2>2, HeldStep DEF Held
<1>7. TypeOK'
  BY <1>0, <1>4, <1>6, <1>10 DEF IInv, TypeOK, Unit
<1>8. Unsent' /\ Relaying' /\ Whole' /\ Sound'
  BY <1>0, <1>5, <1>6 DEF IInv, Unsent, Relaying, Whole, Sound
<1>9. Shown'
  BY <1>0, <1>2, <1>3 DEF Shown
<1> QED
  BY <1>7, <1>8, <1>9, <1>10 DEF IInv

\* The end of the relay adds nothing.
LEMMA EndStep ==
  ASSUME IInv, RelayEnds
  PROVE  IInv'
<1>0. /\ pc = "relaying" /\ pc' = "over"
      /\ UNCHANGED <<streaming, declared, arrived, errored, counted, received, unread>>
      /\ transfer' = IF declared = Chunked THEN "complete" ELSE "broken"
  BY DEF RelayEnds, EndWrite, Ends, Breaks, Announced
<1>1. \/ errored /\ upstream' = "broken"
      \/ ~errored /\ upstream' = "ended"
  BY DEF RelayEnds, Ends, Breaks, IInv, Sound
<1>2. TypeOK'
  BY <1>0, <1>1 DEF IInv, TypeOK
<1>3. Unsent' /\ Relaying' /\ Whole' /\ Sound'
  BY <1>0, <1>1 DEF IInv, Unsent, Relaying, Whole, Sound
<1>4. Shown'
  BY <1>0 DEF IInv, Shown
<1>5. Held'
  BY <1>0 DEF IInv, Held, HeldBounded
<1> QED
  BY <1>2, <1>3, <1>4, <1>5 DEF IInv

\* Nothing was shown of a response that fails.
LEMMA RefusedStep ==
  ASSUME IInv, pc \in {"head", "buffering"}, Refused, arrived' \in 0 .. MaxLen,
         declared # Chunked => arrived' <= declared, upstream' \in {"open", "ended", "broken"}
  PROVE  IInv'
<1>1. received = <<>> /\ transfer = "open" /\ ~errored
  BY DEF IInv, Unsent
<1>2. pc' = "failed" /\ UNCHANGED <<streaming, declared, errored, counted, received, unread, transfer>>
  BY DEF Refused
<1>3. TypeOK'
  BY <1>2 DEF IInv, TypeOK
<1>4. Held'
  BY <1>2 DEF IInv, Held, HeldBounded
<1> QED
  BY <1>1, <1>2, <1>3, <1>4 DEF IInv, Unsent, Sound, Relaying, Shown, Whole

LEMMA BufferStep ==
  ASSUME IInv, Buffer
  PROVE  IInv'
<1>1. pc \in {"head", "buffering"}
  BY DEF Buffer, Reading
<1>2. PICK n \in 1 .. MaxChunk :
        /\ Yields(n)
        /\ \/ /\ pc' = "buffering" /\ WithinCap(arrived, n)
              /\ UNCHANGED <<streaming, declared, errored, counted, received, unread, transfer>>
           \/ Refused
  BY DEF Buffer
<1>3. arrived \in Nat /\ n \in Nat \ {0} /\ declared \in Int /\ declared <= MaxLen
  BY Constants DEF IInv, TypeOK, Chunked
<1>4. arrived' = arrived + n /\ upstream = "open" /\ upstream' = "open" /\ n <= Room
  BY <1>2 DEF Yields
<1>5. arrived' \in 0 .. MaxLen /\ (declared # Chunked => arrived' <= declared)
  BY <1>3, <1>4, Constants DEF Room
<1>6. CASE Refused
  BY <1>1, <1>4, <1>5, <1>6, RefusedStep
<1>7. CASE /\ pc' = "buffering" /\ WithinCap(arrived, n)
           /\ UNCHANGED <<streaming, declared, errored, counted, received, unread, transfer>>
  <2>1. TypeOK'
    BY <1>4, <1>5, <1>7 DEF IInv, TypeOK
  <2>2. received = <<>> /\ transfer = "open" /\ ~errored
    BY <1>1 DEF IInv, Unsent
  <2>3. Held'
    <3>1. ~streaming
      BY <1>1 DEF Buffer, Reading, IInv, Held
    <3>2. arrived' <= Cap
      BY <1>3, <1>4, <1>7, Constants DEF WithinCap
    <3> QED
      BY <1>7, <3>1, <3>2 DEF Held, HeldBounded
  <2> QED
    BY <1>4, <1>5, <1>7, <2>1, <2>2, <2>3 DEF IInv, Unsent, Sound, Relaying, Shown, Whole
<1> QED
  BY <1>2, <1>6, <1>7

\* A whole body goes out as it arrived.
LEMMA BufferEndsStep ==
  ASSUME IInv, BufferEnds
  PROVE  IInv'
<1>0. /\ pc \in {"head", "buffering"} /\ pc' = "over" /\ transfer' = "complete" /\ counted' = TRUE
      /\ received' = [k \in 1 .. arrived |-> k] /\ upstream' = "ended" /\ arrived' = arrived
      /\ UNCHANGED <<streaming, declared, errored>>
  BY DEF BufferEnds, Reading, Ends
<1>1. ~errored /\ arrived \in Unit /\ arrived \in Nat
  BY <1>0, Constants DEF IInv, Unsent, TypeOK, Unit
<1>2. received' = Shows(arrived, 0)
  <2>1. arrived + 0 = arrived /\ \A k \in 1 .. arrived : k <= arrived
    BY <1>1
  <2> QED
    BY <1>0, <2>1 DEF Shows
<1>3. received' \in Seq(Unit)
  BY <1>1, <1>2, BodyShown
<1>7. unread' \in Nat /\ Held'
  <2>1. unread' = arrived /\ ~streaming /\ arrived <= Cap
    <3>1. pc = "head" => arrived = 0 /\ 0 <= Cap
      BY Constants DEF IInv, Sound
    <3> QED
      BY <1>0, <3>1 DEF BufferEnds, Reading, IInv, Held, HeldBounded
  <2> QED
    BY <1>0, <1>1, <2>1 DEF Held, HeldBounded
<1>4. TypeOK'
  BY <1>0, <1>3, <1>7 DEF IInv, TypeOK, Unit
<1>5. 0 \in 0 .. EventLen /\ ~(0 > 0)
  BY Constants
<1>6. Shown'
  BY <1>0, <1>1, <1>2, <1>5 DEF Shown
<1> QED
  BY <1>0, <1>1, <1>4, <1>6, <1>7 DEF IInv, Unsent, Sound, Relaying, Whole

\* Reading only makes room.
LEMMA ReadsStep ==
  ASSUME IInv, ClientReads
  PROVE  IInv'
<1>0. UNCHANGED <<streaming, declared, arrived, upstream, pc, errored, counted, received, transfer>>
  BY DEF ClientReads
<1>1. unread \in Nat /\ \E n \in 1 .. unread : unread' = unread - n
  BY DEF ClientReads, IInv, TypeOK
<1>2. unread' \in Nat /\ unread' < unread
  BY <1>1
<1>3. TypeOK'
  BY <1>0, <1>2 DEF IInv, TypeOK
<1>4. Held'
  <2>1. pc # "head"
    BY <1>1 DEF IInv, Held
  <2>2. HeldBounded'
    <3>1. \A n \in {MaxChunk, EventLen} : unread < SendBuffer + n => unread' < SendBuffer + n
      BY <1>1, <1>2, Constants
    <3> QED
      BY <1>0, <3>1 DEF IInv, Held, HeldBounded
  <2> QED
    BY <1>0, <2>1, <2>2 DEF IInv, Held
<1> QED
  BY <1>0, <1>3, <1>4 DEF IInv, Unsent, Sound, Relaying, Shown, Whole

LEMMA RelayNext == IInv /\ [Next]_vars => IInv'
<1> SUFFICES ASSUME IInv, [Next]_vars PROVE IInv'
  OBVIOUS
<1>1. CASE FirstChunk
  <2>1. CASE \E n \in 1 .. MaxChunk : Yields(n) /\ Write(Units(n))
    <3>1. unread < SendBuffer
      BY <1>1, Constants DEF FirstChunk, IInv, Held
    <3> QED
      BY <1>1, <2>1, <3>1, ChunkStep DEF FirstChunk, IInv, Unsent
  <2>2. CASE Ends /\ Write(<<>>)
    BY <1>1, <2>2, EmptyStep DEF FirstChunk
  <2> QED
    BY <1>1, <2>1, <2>2 DEF FirstChunk
<1>2. CASE RelayChunk
  <2>1. counted' \in BOOLEAN
    BY <1>2 DEF RelayChunk, IInv, TypeOK
  <2>2. streaming /\ unread < SendBuffer
    BY <1>2 DEF RelayChunk, Polled, IInv, Held
  <2> QED
    BY <1>2, <2>1, <2>2, ChunkStep DEF RelayChunk
<1>3. CASE RelayEnds
  BY <1>3, EndStep
<1>4. CASE ClientLeaves
  <2>1. TypeOK'
    BY <1>4 DEF ClientLeaves, IInv, TypeOK
  <2>2. Held'
    <3>1. streaming' /\ pc' = "over" /\ unread' = 0 /\ 0 < SendBuffer + MaxChunk
      BY <1>4, Constants DEF ClientLeaves, IInv, Held
    <3> QED
      BY <3>1 DEF Held, HeldBounded
  <2> QED
    BY <1>4, <2>1, <2>2 DEF ClientLeaves, IInv, Unsent, Sound, Relaying, Shown, Whole
<1>5. CASE DeclaresTooMuch
  BY <1>5, RefusedStep DEF DeclaresTooMuch, IInv, TypeOK, Sound
<1>6. CASE Buffer
  BY <1>6, BufferStep
<1>7. CASE BufferEnds
  BY <1>7, BufferEndsStep
<1>8. CASE FirstChunkFails
  BY <1>8, RefusedStep DEF FirstChunkFails, Refused, Breaks, IInv, TypeOK, Sound
<1>9. CASE RelayError
  BY <1>9, ErrorStep
<1>10. CASE BufferFails
  BY <1>10, RefusedStep DEF BufferFails, Reading, Breaks, IInv, TypeOK, Sound
<1>11. CASE UNCHANGED vars
  BY <1>11 DEF vars, IInv, TypeOK, Unsent, Sound, Relaying, Shown, Whole, Held, HeldBounded
<1>12. CASE ClientReads
  BY <1>12, ReadsStep
<1> QED
  BY <1>1, <1>2, <1>3, <1>4, <1>5, <1>6, <1>7, <1>8, <1>9, <1>10, <1>11, <1>12
     DEF Next, Fails, Over

LEMMA RelayInvariant == Spec => []IInv
BY RelayInit, RelayNext, PTL DEF Spec

\* The relay keeps its types (proxy.rs build_relay_stream, read_capped).
THEOREM RelayTypeCorrect == Spec => []TypeOK
<1>1. IInv => TypeOK
  BY DEF IInv
<1> QED
  BY <1>1, RelayInvariant, PTL

\* A response that is read whole never takes more than the cap, and one that is
\* relayed never more than one chunk or event over the server's write buffer,
\* for every cap, framing and client (proxy.rs read_capped, build_relay_stream).
THEOREM RelayHeldBounded == Spec => []HeldBounded
<1>1. IInv => HeldBounded
  BY DEF IInv, Held
<1> QED
  BY <1>1, RelayInvariant, PTL

\* The client sees a prefix of the upstream's body, in order and once, then at
\* most one error event and nothing behind it, for every framing.
THEOREM RelayPrefixThenEvent == Spec => []PrefixThenEvent
<1>1. ASSUME IInv PROVE PrefixThenEvent
  <2>0. arrived \in 0 .. MaxLen /\ arrived \in Nat
    BY <1>1, Constants DEF IInv, TypeOK
  <2>1. CASE pc \in {"relaying", "over"}
    <3>1. PICK e \in 0 .. EventLen : received = Shows(arrived, e)
      BY <1>1, <2>1 DEF IInv, Shown
    <3>2. arrived \in 0 .. arrived
      BY <2>0
    <3> QED
      BY <3>1, <3>2 DEF PrefixThenEvent
  <2>2. CASE pc \in {"head", "buffering", "failed"}
    <3>1. received = Shows(0, 0) /\ 0 \in 0 .. arrived /\ 0 \in 0 .. EventLen
      BY <1>1, <2>0, <2>2, ShowsNone, Constants DEF IInv, Unsent
    <3> QED
      BY <3>1 DEF PrefixThenEvent
  <2> QED
    BY <1>1, <2>1, <2>2 DEF IInv, TypeOK
<1> QED
  BY <1>1, RelayInvariant, PTL

\* No response is silently truncated: what looks complete to the client and
\* shows no error event is all the upstream had to say.
THEOREM RelayCompleteIsWhole == Spec => []CompleteIsWhole
<1>1. ASSUME IInv, transfer = "complete", ~EventSeen
      PROVE  received = Shows(arrived, 0) /\ (upstream = "ended" \/ declared = arrived)
  <2>1. pc = "over"
    BY <1>1 DEF IInv, TypeOK, Unsent, Relaying
  <2>2. PICK e \in 0 .. EventLen : received = Shows(arrived, e) /\ (errored <=> e > 0)
    BY <1>1, <2>1 DEF IInv, Shown
  <2>3. arrived \in Nat /\ arrived \in Unit /\ e \in Nat
    BY <1>1, <2>2, Constants DEF IInv, TypeOK, Unit
  <2>4. e = 0
    <3>1. SUFFICES ASSUME e > 0 PROVE FALSE
      BY <2>3
    <3>2. arrived + 1 \in 1 .. arrived + e /\ ~(arrived + 1 <= arrived)
      BY <2>3, <3>1
    <3>3. received[arrived + 1] = Event /\ arrived + 1 \in DOMAIN received
      BY <2>2, <3>2 DEF Shows
    <3> QED
      BY <1>1, <3>3 DEF EventSeen
  <2>5. ~errored
    BY <2>2, <2>4, <2>3
  <2> QED
    BY <1>1, <2>1, <2>2, <2>4, <2>5 DEF IInv, Whole
<1>2. IInv => CompleteIsWhole
  BY <1>1 DEF CompleteIsWhole
<1> QED
  BY <1>2, RelayInvariant, PTL
=============================================================================
