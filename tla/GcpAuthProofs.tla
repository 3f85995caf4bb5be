--------------------------- MODULE GcpAuthProofs ---------------------------
(***************************************************************************)
(* The queue before the credential detection, for every finite set of      *)
(* callers and every timeout: nobody is stranded in it, and nobody waits   *)
(* longer than its place in it accounts for.                               *)
(***************************************************************************)
EXTENDS GcpAuth, SequenceTheorems, TLAPS

T(n) == n * AuthTimeout

\* A caller is in the queue once.
Once == \A i, j \in 1 .. Len(queue) : queue[i] = queue[j] => i = j

\* Of the time its place allows, a caller has used what is not left: the
\* running detection's timeout, and one for each caller before it.
Clock ==
  /\ \A c \in Callers : pc[c] = "idle" => waited[c] = 0
  /\ \A d \in Callers, i \in 1 .. Len(queue) : pc[d] = "detecting" =>
       waited[queue[i]] + left[d] + T(i - 1) <= T(ahead[queue[i]])
  /\ \A c \in Callers : pc[c] = "detecting" => waited[c] + left[c] <= T(ahead[c] + 1)
  /\ \A c \in Callers : pc[c] = "fetching" => waited[c] + left[c] <= T(ahead[c] + 2)
  /\ WaitBounded

IInv == TypeOK /\ Once /\ NobodyStranded /\ Clock

\* Multiples of the timeout.
LEMMA Timeouts ==
  /\ AuthTimeout \in Nat /\ AuthTimeout >= 1
  /\ \A n \in Nat : T(n) \in Nat /\ T(n + 1) = T(n) + AuthTimeout
                     /\ T(n + 2) = T(n) + AuthTimeout + AuthTimeout
  /\ T(0) = 0
<1>1. AuthTimeout \in Nat /\ AuthTimeout >= 1
  BY AuthAssumption
<1>2. ASSUME NEW n \in Nat
      PROVE  T(n) \in Nat /\ T(n + 1) = T(n) + AuthTimeout
             /\ T(n + 2) = T(n) + AuthTimeout + AuthTimeout
  BY <1>1 DEF T
<1>3. T(0) = 0
  BY <1>1 DEF T
<1> QED
  BY <1>1, <1>2, <1>3

\* What is left when one place of a sequence is taken out.
LEMMA RemoveAtPlace ==
  ASSUME NEW S, NEW s \in Seq(S), NEW n \in 1 .. Len(s)
  PROVE  /\ RemoveAt(s, n) \in Seq(S)
         /\ Len(RemoveAt(s, n)) = Len(s) - 1
         /\ \A i \in 1 .. Len(s) - 1 :
              RemoveAt(s, n)[i] = IF i < n THEN s[i] ELSE s[i + 1]
<1> DEFINE u == SubSeq(s, 1, n - 1)
           v == SubSeq(s, n + 1, Len(s))
<1>1. Len(s) \in Nat /\ n \in Nat /\ 1 <= n /\ n <= Len(s)
  OBVIOUS
<1>2. u \in Seq(S) /\ Len(u) = n - 1 /\ \A i \in 1 .. n - 1 : u[i] = s[i]
  <2>1. \A k \in 1 .. n - 1 : s[k] \in S
    BY <1>1
  <2> QED
    BY <1>1, <2>1, SubSeqProperties
<1>3. v \in Seq(S) /\ Len(v) = Len(s) - n /\ \A i \in 1 .. Len(s) - n : v[i] = s[i + n]
  <2>1. \A k \in n + 1 .. Len(s) : s[k] \in S
    BY <1>1
  <2> QED
    BY <1>1, <2>1, SubSeqProperties
<1> HIDE DEF u, v
<1>4. /\ u \o v \in Seq(S) /\ Len(u \o v) = Len(u) + Len(v)
      /\ \A i \in 1 .. Len(u) + Len(v) :
           (u \o v)[i] = IF i <= Len(u) THEN u[i] ELSE v[i - Len(u)]
  BY <1>2, <1>3, ConcatProperties
<1>5. RemoveAt(s, n) = u \o v
  BY DEF RemoveAt, u, v
<1>6. ASSUME NEW i \in 1 .. Len(s) - 1
      PROVE  (u \o v)[i] = IF i < n THEN s[i] ELSE s[i + 1]
  <2>1. CASE i < n
    BY <1>1, <1>2, <1>3, <1>4, <2>1
  <2>2. CASE ~(i < n)
    <3>1. (u \o v)[i] = v[i - (n - 1)] /\ i - (n - 1) \in 1 .. Len(s) - n
      BY <1>1, <1>2, <1>3, <1>4, <2>2
    <3>2. v[i - (n - 1)] = s[(i - (n - 1)) + n]
      BY <1>3, <3>1
    <3>3. (i - (n - 1)) + n = i + 1
      BY <1>1
    <3> QED
      BY <2>2, <3>1, <3>2, <3>3, <1>1
  <2> QED
    BY <2>1, <2>2
<1> QED
  BY <1>1, <1>2, <1>3, <1>4, <1>5, <1>6

\* No call is there yet: nobody queues and nothing has been waited for.
LEMMA GcpInit == Init => IInv
<1> SUFFICES ASSUME Init PROVE IInv
  OBVIOUS
<1> USE AuthAssumption DEF Init
<1>1. TypeOK
  <2>1. queue \in Seq(Callers)
    OBVIOUS
  <2>2. pc \in [Callers -> {"idle", "queued"} \cup Timed \cup Over]
    OBVIOUS
  <2>3. 0 \in 0 .. AuthTimeout
    OBVIOUS
  <2>4. left \in [Callers -> 0 .. AuthTimeout]
    BY <2>3
  <2>5. detected \in BOOLEAN /\ ahead \in [Callers -> Nat] /\ waited \in [Callers -> Nat]
    OBVIOUS
  <2> QED
    BY <2>1, <2>2, <2>4, <2>5 DEF TypeOK
<1>2. Once
  BY DEF Once
<1>3. NobodyStranded
  BY DEF NobodyStranded, Detecting, ToSet
<1>4. WaitBounded
  BY DEF WaitBounded
<1>5. Clock
  BY <1>4 DEF Clock
<1> QED
  BY <1>1, <1>2, <1>3, <1>5 DEF IInv

\* One call moves.
LEMMA OneMoves ==
  ASSUME TypeOK, NEW c \in Callers, NEW where \in Timed \cup Over \cup {"queued"},
         Go(Alone(c, where))
  PROVE  /\ pc' \in [Callers -> {"idle", "queued"} \cup Timed \cup Over]
         /\ left' \in [Callers -> 0 .. AuthTimeout]
         /\ pc'[c] = where
         /\ left'[c] = IF where \in Timed THEN AuthTimeout ELSE 0
         /\ \A x \in Callers : x # c => pc'[x] = pc[x] /\ left'[x] = left[x]
  BY AuthAssumption DEF TypeOK, Go, Alone, Timed, Over

\* Two calls move, the second one to its detection.
LEMMA TwoMove ==
  ASSUME TypeOK, NEW c \in Callers, NEW d \in Callers, c # d, NEW where \in Over,
         Go([x \in {c, d} |-> IF x = c THEN where ELSE "detecting"])
  PROVE  /\ pc' \in [Callers -> {"idle", "queued"} \cup Timed \cup Over]
         /\ left' \in [Callers -> 0 .. AuthTimeout]
         /\ pc'[c] = where /\ left'[c] = 0
         /\ pc'[d] = "detecting" /\ left'[d] = AuthTimeout
         /\ \A x \in Callers : x # c /\ x # d => pc'[x] = pc[x] /\ left'[x] = left[x]
<1>1. where \notin Timed /\ "detecting" \in Timed
  BY DEF Timed, Over
<1> QED
  BY <1>1, AuthAssumption DEF TypeOK, Go, Over

\* The queue as positions.
LEMMA QueueFacts ==
  ASSUME IInv
  PROVE  /\ Len(queue) \in Nat
         /\ \A i \in 1 .. Len(queue) : queue[i] \in Callers /\ pc[queue[i]] = "queued"
         /\ \A c \in Callers : pc[c] = "queued" => \E i \in 1 .. Len(queue) : queue[i] = c
         /\ queue # <<>> => \E d \in Callers : pc[d] = "detecting"
         /\ queue # <<>> => Len(queue) >= 1
         /\ queue = <<>> => Len(queue) = 0
         /\ \A c, d \in Callers : pc[c] = "detecting" /\ pc[d] = "detecting" => c = d
         /\ detected => \A c \in Callers : pc[c] # "detecting"
<1>1. queue \in Seq(Callers)
  BY DEF IInv, TypeOK
<1>2. Len(queue) \in Nat /\ DOMAIN queue = 1 .. Len(queue)
      /\ \A i \in 1 .. Len(queue) : queue[i] \in Callers
  BY <1>1, LenProperties, ElementOfSeq
<1>3. (queue = <<>>) <=> Len(queue) = 0
  BY <1>1, EmptySeq
<1>4. \A c \in Callers : pc[c] = "queued" <=> \E i \in 1 .. Len(queue) : queue[i] = c
  BY <1>2 DEF IInv, NobodyStranded, ToSet
<1> QED
  BY <1>2, <1>3, <1>4 DEF IInv, NobodyStranded, Detecting

\* NobodyStranded from those facts.
LEMMA Unstranded ==
  ASSUME queue' \in Seq(Callers),
         \A c, d \in Callers : pc'[c] = "detecting" /\ pc'[d] = "detecting" => c = d,
         detected' => \A c \in Callers : pc'[c] # "detecting",
         Len(queue') > 0 => \E d \in Callers : pc'[d] = "detecting",
         \A c \in Callers : pc'[c] = "queued" <=> \E i \in 1 .. Len(queue') : queue'[i] = c
  PROVE  NobodyStranded'
<1>1. DOMAIN queue' = 1 .. Len(queue') /\ Len(queue') \in Nat
  BY LenProperties
<1>2. queue' # <<>> => Len(queue') > 0
  BY <1>1, EmptySeq
<1> QED
  BY <1>1, <1>2 DEF NobodyStranded, Detecting, ToSet

\* A call begins: at once with the token, with the detection, or in the queue.
LEMMA CallStep ==
  ASSUME IInv, NEW c \in Callers, Call(c)
  PROVE  IInv'
<1>1. TypeOK /\ Once /\ Clock /\ pc[c] = "idle" /\ waited[c] = 0 /\ ahead[c] \in Nat
  BY DEF IInv, TypeOK, Call, Clock
<1>2. UNCHANGED <<detected, waited>>
  BY DEF Call
<1>3. CASE detected /\ Go(Alone(c, "fetching")) /\ UNCHANGED <<queue, ahead>>
  <2>1. /\ pc' \in [Callers -> {"idle", "queued"} \cup Timed \cup Over]
        /\ left' \in [Callers -> 0 .. AuthTimeout]
        /\ pc'[c] = "fetching" /\ left'[c] = AuthTimeout
        /\ \A x \in Callers : x # c => pc'[x] = pc[x] /\ left'[x] = left[x]
    BY <1>1, <1>3, OneMoves DEF Timed
  <2>2. TypeOK' /\ Once'
    BY <1>1, <1>2, <1>3, <2>1 DEF TypeOK, Once
  <2>3. NobodyStranded'
    <3>1. \A x \in Callers : pc'[x] # "detecting"
      BY <1>1, <1>3, <2>1, QueueFacts
    <3>2. queue = <<>> /\ Len(queue) = 0
      BY <1>3, QueueFacts
    <3>3. \A x \in Callers : pc'[x] # "queued"
      BY <1>1, <2>1, <3>2, QueueFacts
    <3> QED
      BY <1>3, <3>1, <3>2, <3>3, <2>2, Unstranded DEF TypeOK
  <2>4. WaitBounded'
    BY <1>1, <1>2, <1>3 DEF Clock, WaitBounded
  <2>5. \A d \in Callers : pc'[d] # "detecting"
    BY <1>1, <1>3, <2>1, QueueFacts
  <2>6. \A d \in Callers : pc'[d] = "fetching" => waited'[d] + left'[d] <= T(ahead'[d] + 2)
    <3>1. waited'[c] + left'[c] <= T(ahead'[c] + 2)
      <4>1. T(ahead[c]) \in Nat /\ T(ahead[c] + 2) = T(ahead[c]) + AuthTimeout + AuthTimeout
            /\ AuthTimeout \in Nat
        BY <1>1, Timeouts
      <4> QED
        BY <1>1, <1>2, <1>3, <2>1, <4>1
    <3>2. ASSUME NEW d \in Callers, d # c, pc'[d] = "fetching"
          PROVE  waited'[d] + left'[d] <= T(ahead'[d] + 2)
      BY <1>1, <1>2, <1>3, <2>1, <3>2 DEF Clock
    <3> QED
      BY <3>1, <3>2
  <2>7. Clock'
    BY <1>1, <1>2, <2>1, <2>4, <2>5, <2>6 DEF Clock
  <2> QED
    BY <2>2, <2>3, <2>7 DEF IInv
<1>4. CASE ~detected /\ Detecting = {} /\ Go(Alone(c, "detecting")) /\ UNCHANGED <<queue, ahead>>
  <2>1. /\ pc' \in [Callers -> {"idle", "queued"} \cup Timed \cup Over]
        /\ left' \in [Callers -> 0 .. AuthTimeout]
        /\ pc'[c] = "detecting" /\ left'[c] = AuthTimeout
        /\ \A x \in Callers : x # c => pc'[x] = pc[x] /\ left'[x] = left[x]
    BY <1>1, <1>4, OneMoves DEF Timed
  <2>2. TypeOK' /\ Once'
    BY <1>1, <1>2, <1>4, <2>1 DEF TypeOK, Once
  <2>3. \A x \in Callers : pc[x] # "detecting"
    BY <1>4 DEF Detecting
  <2>4. Len(queue) = 0
    BY <2>3, QueueFacts
  <2>5. NobodyStranded'
    <3>1. \A x \in Callers : pc'[x] # "queued"
      BY <1>1, <2>1, <2>4, QueueFacts
    <3>2. \A a, b \in Callers : pc'[a] = "detecting" /\ pc'[b] = "detecting" => a = b
      BY <2>1, <2>3
    <3>3. queue' \in Seq(Callers) /\ Len(queue') = 0 /\ ~detected'
      BY <1>1, <1>2, <1>4, <2>4 DEF TypeOK
    <3>4. \A x \in Callers : pc'[x] = "queued" <=> \E i \in 1 .. Len(queue') : queue'[i] = x
      BY <3>1, <3>3
    <3> QED
      BY <3>2, <3>3, <3>4, Unstranded
  <2>6. WaitBounded'
    BY <1>1, <1>2, <1>4 DEF Clock, WaitBounded
  <2>7. \A d \in Callers : pc'[d] = "detecting" => waited'[d] + left'[d] <= T(ahead'[d] + 1)
    BY <1>1, <1>2, <1>4, <2>1, <2>3, Timeouts
  <2>8. Clock'
    BY <1>1, <1>2, <1>4, <2>1, <2>4, <2>6, <2>7 DEF Clock
  <2> QED
    BY <2>2, <2>5, <2>8 DEF IInv
<1>5. CASE /\ ~detected /\ Detecting # {}
           /\ Go(Alone(c, "queued"))
           /\ queue' = Append(queue, c)
           /\ ahead' = [ahead EXCEPT ![c] = Len(queue) + 1]
  <2>1. /\ pc' \in [Callers -> {"idle", "queued"} \cup Timed \cup Over]
        /\ left' \in [Callers -> 0 .. AuthTimeout]
        /\ pc'[c] = "queued"
        /\ \A x \in Callers : x # c => pc'[x] = pc[x] /\ left'[x] = left[x]
    BY <1>1, <1>5, OneMoves DEF Timed
  <2>2. Len(queue) \in Nat /\ \A i \in 1 .. Len(queue) : queue[i] \in Callers /\ queue[i] # c
    BY <1>1, QueueFacts
  <2>3. /\ queue' \in Seq(Callers)
        /\ Len(queue') = Len(queue) + 1
        /\ \A i \in 1 .. Len(queue) : queue'[i] = queue[i]
        /\ queue'[Len(queue) + 1] = c
    BY <1>1, <1>5, AppendProperties DEF TypeOK
  <2>4. ahead' \in [Callers -> Nat] /\ ahead'[c] = Len(queue) + 1
        /\ \A x \in Callers : x # c => ahead'[x] = ahead[x]
    BY <1>1, <1>5, <2>2 DEF TypeOK
  <2>5. TypeOK'
    BY <1>1, <1>2, <2>1, <2>3, <2>4 DEF TypeOK
  <2>6. Once'
    BY <1>1, <2>2, <2>3 DEF Once
  <2>7. NobodyStranded'
    <3>1. \E d \in Callers : pc'[d] = "detecting"
      BY <1>1, <1>5, <2>1 DEF Detecting
    <3>2. \A a, b \in Callers : pc'[a] = "detecting" /\ pc'[b] = "detecting" => a = b
      BY <2>1, QueueFacts
    <3>3. \A x \in Callers : pc'[x] = "queued" <=> \E i \in 1 .. Len(queue') : queue'[i] = x
      <4>1. ASSUME NEW x \in Callers, pc'[x] = "queued"
            PROVE  \E i \in 1 .. Len(queue') : queue'[i] = x
        BY <2>1, <2>2, <2>3, <4>1, QueueFacts
      <4>2. ASSUME NEW x \in Callers, NEW i \in 1 .. Len(queue'), queue'[i] = x
            PROVE  pc'[x] = "queued"
        BY <2>1, <2>2, <2>3, <4>2, QueueFacts
      <4> QED
        BY <4>1, <4>2
    <3> QED
      BY <1>2, <1>5, <2>3, <3>1, <3>2, <3>3, Unstranded
  <2>8. WaitBounded'
    BY <1>1, <1>2, <2>2, <2>4, Timeouts DEF Clock, WaitBounded, T
  <2>9. ASSUME NEW d \in Callers, NEW i \in 1 .. Len(queue'), pc'[d] = "detecting"
        PROVE  waited'[queue'[i]] + left'[d] + T(i - 1) <= T(ahead'[queue'[i]])
    <3>1. pc[d] = "detecting" /\ left'[d] = left[d] /\ left[d] \in Nat /\ left[d] <= AuthTimeout
      BY <1>1, <2>1, <2>9, AuthAssumption DEF TypeOK
    <3>2. CASE i \in 1 .. Len(queue)
      <4>1. waited[queue[i]] + left[d] + T(i - 1) <= T(ahead[queue[i]])
        BY <1>1, <3>1, <3>2 DEF Clock
      <4>2. queue'[i] = queue[i] /\ ahead'[queue[i]] = ahead[queue[i]]
        BY <2>2, <2>3, <2>4, <3>2
      <4> QED
        BY <1>2, <3>1, <4>1, <4>2
    <3>3. CASE i = Len(queue) + 1
      <4>1. queue'[i] = c /\ waited'[c] = 0 /\ T(i - 1) = T(Len(queue))
            /\ T(ahead'[c]) = T(Len(queue)) + AuthTimeout
        BY <1>1, <1>2, <2>2, <2>3, <2>4, <3>3, Timeouts
      <4>2. T(Len(queue)) \in Nat /\ AuthTimeout \in Nat
        BY <2>2, Timeouts
      <4> QED
        BY <3>1, <4>1, <4>2
    <3> QED
      BY <2>2, <2>3, <3>2, <3>3
  <2>10. \A d \in Callers :
           /\ pc'[d] = "idle" => waited'[d] = 0
           /\ pc'[d] = "detecting" => waited'[d] + left'[d] <= T(ahead'[d] + 1)
           /\ pc'[d] = "fetching" => waited'[d] + left'[d] <= T(ahead'[d] + 2)
    BY <1>1, <1>2, <2>1, <2>4 DEF Clock
  <2>11. Clock'
    BY <2>8, <2>9, <2>10 DEF Clock
  <2> QED
    BY <2>5, <2>6, <2>7, <2>11 DEF IInv
<1> QED
  BY <1>3, <1>4, <1>5 DEF Call

\* The detecting call ends without a value: nobody waits, or the first of the
\* queue takes over with the whole timeout before it.
LEMMA PassStep ==
  ASSUME IInv, NEW c \in Callers, NEW where \in Over,
         pc[c] = "detecting", PassPermit(c, where), UNCHANGED <<detected, ahead, waited>>
  PROVE  IInv'
<1>1. TypeOK /\ Once /\ Clock /\ ~detected /\ left[c] \in Nat
  BY QueueFacts DEF IInv, TypeOK
<1>2. \A x \in Callers : x # c => pc[x] # "detecting"
  BY QueueFacts
<1>3. WaitBounded'
  BY <1>1 DEF Clock, WaitBounded
<1>4. where \notin {"idle", "queued", "detecting", "fetching"}
  BY DEF Over
<1>5. CASE queue = <<>> /\ Go(Alone(c, where)) /\ UNCHANGED queue
  <2>1. /\ pc' \in [Callers -> {"idle", "queued"} \cup Timed \cup Over]
        /\ left' \in [Callers -> 0 .. AuthTimeout]
        /\ pc'[c] = where
        /\ \A x \in Callers : x # c => pc'[x] = pc[x] /\ left'[x] = left[x]
    <3>1. where \in Timed \cup Over \cup {"queued"}
      OBVIOUS
    <3> HIDE DEF Timed, Over, Go, Alone
    <3> QED
      BY <1>1, <1>5, <3>1, OneMoves
  <2>2. TypeOK' /\ Once'
    BY <1>1, <1>5, <2>1 DEF TypeOK, Once
  <2>3. Len(queue') = 0
    BY <1>5
  <2>4. \A x \in Callers : pc'[x] # "detecting" /\ pc'[x] # "queued"
    BY <1>2, <1>4, <1>5, <2>1, QueueFacts
  <2>5. NobodyStranded'
    <3>1. \A x \in Callers : pc'[x] = "queued" <=> \E i \in 1 .. Len(queue') : queue'[i] = x
      BY <2>3, <2>4
    <3> QED
      BY <2>2, <2>3, <2>4, <3>1, Unstranded DEF TypeOK
  <2>6. Clock'
    BY <1>1, <1>3, <1>4, <2>1, <2>4 DEF Clock
  <2> QED
    BY <2>2, <2>5, <2>6 DEF IInv
<1>6. CASE /\ queue # <<>>
           /\ Go([x \in {c, Head(queue)} |-> IF x = c THEN where ELSE "detecting"])
           /\ queue' = Tail(queue)
  <2> DEFINE d == Head(queue)
  <2>1. /\ Len(queue) \in Nat /\ Len(queue) >= 1 /\ queue[1] = d
        /\ d \in Callers /\ pc[d] = "queued" /\ d # c
    <3>1. queue[1] = Head(queue)
      OBVIOUS
    <3> QED
      BY <1>6, <3>1, QueueFacts
  <2>2. /\ queue' \in Seq(Callers)
        /\ Len(queue') = Len(queue) - 1
        /\ \A i \in 1 .. Len(queue') : queue'[i] = queue[i + 1]
    BY <1>1, <1>6, HeadTailProperties DEF TypeOK
  <2> HIDE DEF d
  <2>3. Go([x \in {c, d} |-> IF x = c THEN where ELSE "detecting"])
    BY <1>6 DEF d
  <2>4. /\ pc' \in [Callers -> {"idle", "queued"} \cup Timed \cup Over]
        /\ left' \in [Callers -> 0 .. AuthTimeout]
        /\ pc'[c] = where
        /\ pc'[d] = "detecting" /\ left'[d] = AuthTimeout
        /\ \A x \in Callers : x # c /\ x # d => pc'[x] = pc[x] /\ left'[x] = left[x]
    <3>1. TypeOK /\ d \in Callers /\ c # d
      BY <1>1, <2>1
    <3> QED
      BY Zenon, <2>3, <3>1, TwoMove
  <2>5. TypeOK'
    BY <1>1, <2>2, <2>4 DEF TypeOK
  <2>6. Once'
    BY <1>1, <2>1, <2>2 DEF Once
  <2>7. NobodyStranded'
    <3>1. \A a, b \in Callers : pc'[a] = "detecting" /\ pc'[b] = "detecting" => a = b
      BY <1>2, <1>4, <2>1, <2>4
    <3>2. ASSUME NEW x \in Callers, pc'[x] = "queued"
          PROVE  \E i \in 1 .. Len(queue') : queue'[i] = x
      <4>1. x # c /\ x # d /\ pc[x] = "queued"
        BY <1>4, <2>4, <3>2
      <4>2. PICK j \in 1 .. Len(queue) : queue[j] = x
        BY <4>1, QueueFacts
      <4>3. j # 1
        BY <2>1, <4>1, <4>2
      <4>4. j - 1 \in 1 .. Len(queue') /\ queue'[j - 1] = queue[(j - 1) + 1] /\ (j - 1) + 1 = j
        BY <2>1, <2>2, <4>3
      <4> QED
        BY <4>2, <4>4
    <3>3. ASSUME NEW x \in Callers, NEW i \in 1 .. Len(queue'), queue'[i] = x
          PROVE  pc'[x] = "queued"
      <4>1. i + 1 \in 1 .. Len(queue) /\ queue[i + 1] = x /\ pc[x] = "queued" /\ i + 1 # 1
        BY <2>1, <2>2, <3>3, QueueFacts
      <4>2. x # d
        BY <1>1, <2>1, <4>1 DEF Once
      <4> QED
        BY <2>4, <4>1, <4>2
    <3> QED
      BY <1>1, <2>1, <2>2, <2>4, <3>1, <3>2, <3>3, Unstranded
  <2>8. ASSUME NEW e \in Callers, NEW i \in 1 .. Len(queue'), pc'[e] = "detecting"
        PROVE  waited'[queue'[i]] + left'[e] + T(i - 1) <= T(ahead'[queue'[i]])
    <3>1. e = d
      BY <1>2, <1>4, <2>1, <2>4, <2>8
    <3>2. i + 1 \in 1 .. Len(queue) /\ queue'[i] = queue[i + 1] /\ queue[i + 1] \in Callers
      BY <2>1, <2>2, QueueFacts
    <3>3. waited[queue[i + 1]] + left[c] + T((i + 1) - 1) <= T(ahead[queue[i + 1]])
      BY <1>1, <3>2 DEF Clock
    <3>4. i - 1 \in Nat /\ (i + 1) - 1 = (i - 1) + 1
      BY <3>2
    <3>5. T((i + 1) - 1) = T(i - 1) + AuthTimeout /\ T(i - 1) \in Nat /\ AuthTimeout \in Nat
      BY <3>4, Timeouts
    <3>6. waited[queue[i + 1]] \in Nat /\ ahead[queue[i + 1]] \in Nat
      BY <1>1, <3>2 DEF TypeOK
    <3>7. T(ahead[queue[i + 1]]) \in Nat
      BY <3>6, Timeouts
    <3>8. /\ left'[e] = AuthTimeout
          /\ waited'[queue'[i]] = waited[queue[i + 1]]
          /\ ahead'[queue'[i]] = ahead[queue[i + 1]]
      BY <2>4, <3>1, <3>2
    <3>9. waited[queue[i + 1]] + AuthTimeout + T(i - 1) <= T(ahead[queue[i + 1]])
      <4> DEFINE w == waited[queue[i + 1]]
                 l == left[c]
                 t == T(i - 1)
                 b == T(ahead[queue[i + 1]])
      <4>1. w \in Nat /\ l \in Nat /\ t \in Nat /\ b \in Nat /\ AuthTimeout \in Nat
        BY <1>1, <3>5, <3>6, <3>7 DEF TypeOK
      <4>2. w + l + (t + AuthTimeout) <= b
        BY <3>3, <3>5, Zenon
      <4> HIDE DEF w, l, t, b
      <4>3. w + AuthTimeout + t <= b
        BY <4>1, <4>2
      <4> QED
        BY <4>3 DEF w, t, b
    <3>10. /\ T(ahead'[queue'[i]]) = T(ahead[queue[i + 1]])
           /\ waited'[queue'[i]] + left'[e] + T(i - 1)
                = waited[queue[i + 1]] + AuthTimeout + T(i - 1)
      BY <3>8, Zenon
    <3> QED
      BY <3>9, <3>10, Zenon
  <2>9. waited'[d] + left'[d] <= T(ahead'[d] + 1)
    <3>1. waited[queue[1]] + left[c] + T(1 - 1) <= T(ahead[queue[1]])
      BY <1>1, <2>1 DEF Clock
    <3>2. T(1 - 1) = 0
      BY Timeouts
    <3>3. waited[d] \in Nat /\ ahead[d] \in Nat
      BY <1>1, <2>1 DEF TypeOK
    <3>4. T(ahead[d]) \in Nat /\ T(ahead[d] + 1) = T(ahead[d]) + AuthTimeout /\ AuthTimeout \in Nat
      BY <3>3, Timeouts
    <3> QED
      BY <1>1, <2>1, <2>4, <3>1, <3>2, <3>3, <3>4
  <2>10. \A x \in Callers :
           /\ pc'[x] = "idle" => waited'[x] = 0
           /\ pc'[x] = "detecting" => waited'[x] + left'[x] <= T(ahead'[x] + 1)
           /\ pc'[x] = "fetching" => waited'[x] + left'[x] <= T(ahead'[x] + 2)
    BY <1>1, <1>2, <1>4, <2>1, <2>4, <2>9 DEF Clock
  <2>11. Clock'
    BY <1>3, <2>8, <2>10 DEF Clock
  <2> QED
    BY <2>5, <2>6, <2>7, <2>11 DEF IInv
<1> QED
  BY <1>5, <1>6 DEF PassPermit

\* A call that neither detects nor queues ends.
LEMMA LeaveStep ==
  ASSUME IInv, NEW c \in Callers, NEW where \in Over,
         pc[c] = "fetching", Go(Alone(c, where)), UNCHANGED <<detected, queue, ahead, waited>>
  PROVE  IInv'
<1>1. TypeOK /\ Once /\ Clock
  BY DEF IInv
<1>2. where \notin {"idle", "queued", "detecting", "fetching"}
  BY DEF Over
<1>3. /\ pc' \in [Callers -> {"idle", "queued"} \cup Timed \cup Over]
      /\ left' \in [Callers -> 0 .. AuthTimeout]
      /\ pc'[c] = where
      /\ \A x \in Callers : x # c => pc'[x] = pc[x] /\ left'[x] = left[x]
  BY <1>1, OneMoves
<1>4. TypeOK' /\ Once'
  BY <1>1, <1>3 DEF TypeOK, Once
<1>5. \A x \in Callers : /\ pc'[x] = "detecting" <=> pc[x] = "detecting"
                         /\ pc'[x] = "queued" <=> pc[x] = "queued"
                         /\ pc'[x] \in {"idle", "detecting", "fetching"} =>
                              pc'[x] = pc[x] /\ left'[x] = left[x]
  BY <1>2, <1>3
<1>6. NobodyStranded'
  BY <1>5 DEF IInv, NobodyStranded, Detecting
<1>7. Clock'
  BY <1>1, <1>5 DEF Clock, WaitBounded
<1> QED
  BY <1>4, <1>6, <1>7 DEF IInv
\* The value is set: the queue is over, and everybody in it fetches a token.
LEMMA SucceedStep ==
  ASSUME IInv, NEW c \in Callers, DetectionSucceeds(c)
  PROVE  IInv'
<1>1. /\ TypeOK /\ Once /\ Clock /\ pc[c] = "detecting"
      /\ detected' = TRUE /\ queue' = <<>> /\ UNCHANGED <<ahead, waited>>
  BY DEF IInv, DetectionSucceeds
<1> DEFINE On == {c} \cup ToSet(queue)
<1>2. /\ pc' = [x \in Callers |-> IF x \in On THEN "fetching" ELSE pc[x]]
      /\ left' = [x \in Callers |-> IF x \in On THEN AuthTimeout ELSE left[x]]
  BY DEF DetectionSucceeds, Go, Timed
<1>3. \A x \in Callers : x \in On <=> x = c \/ pc[x] = "queued"
  BY DEF IInv, NobodyStranded
<1> HIDE DEF On
<1>4. \A x \in Callers :
        /\ pc[x] = "queued" \/ x = c => pc'[x] = "fetching" /\ left'[x] = AuthTimeout
        /\ ~(pc[x] = "queued" \/ x = c) => pc'[x] = pc[x] /\ left'[x] = left[x]
  BY <1>2, <1>3
<1>5. TypeOK'
  <2>1. pc' \in [Callers -> {"idle", "queued"} \cup Timed \cup Over]
    BY <1>1, <1>2 DEF TypeOK, Timed
  <2>2. left' \in [Callers -> 0 .. AuthTimeout]
    BY <1>1, <1>2, AuthAssumption DEF TypeOK
  <2>3. queue' \in Seq(Callers)
    BY <1>1
  <2> QED
    BY <1>1, <2>1, <2>2, <2>3 DEF TypeOK
<1>6. Len(queue') = 0 /\ Once'
  BY <1>1 DEF Once
<1>7. \A x \in Callers : pc'[x] # "detecting" /\ pc'[x] # "queued"
  BY <1>1, <1>4, QueueFacts
<1>8. NobodyStranded'
  <2>1. \A x \in Callers : pc'[x] = "queued" <=> \E i \in 1 .. Len(queue') : queue'[i] = x
    BY <1>6, <1>7
  <2>2. queue' \in Seq(Callers)
    BY <1>1
  <2> QED
    BY <1>6, <1>7, <2>1, <2>2, Unstranded
<1>9. ASSUME NEW x \in Callers, pc'[x] = "fetching"
      PROVE  waited'[x] + left'[x] <= T(ahead'[x] + 2)
  <2>1. waited[x] \in Nat /\ ahead[x] \in Nat /\ left[c] \in Nat
    BY <1>1 DEF TypeOK
  <2>2. /\ T(ahead[x]) \in Nat /\ AuthTimeout \in Nat
        /\ T(ahead[x] + 1) = T(ahead[x]) + AuthTimeout
        /\ T(ahead[x] + 2) = T(ahead[x]) + AuthTimeout + AuthTimeout
    BY <2>1, Timeouts
  <2>3. CASE x = c
    <3>1. waited[x] + left[c] <= T(ahead[x] + 1) /\ left'[x] = AuthTimeout
      BY <1>1, <1>4, <2>3 DEF Clock
    <3> QED
      BY <1>1, <2>1, <2>2, <3>1
  <2>4. CASE pc[x] = "queued"
    <3>1. PICK i \in 1 .. Len(queue) : queue[i] = x
      BY <2>4, QueueFacts
    <3>2. waited[x] + left[c] + T(i - 1) <= T(ahead[x]) /\ left'[x] = AuthTimeout
      BY <1>1, <1>4, <2>4, <3>1 DEF Clock
    <3>3. i - 1 \in Nat
      BY <3>1
    <3>4. T(i - 1) \in Nat
      BY <3>3, Timeouts
    <3> QED
      BY <1>1, <2>1, <2>2, <3>2, <3>4
  <2>5. CASE ~(pc[x] = "queued" \/ x = c)
    BY <1>1, <1>4, <1>9, <2>5 DEF Clock
  <2> QED
    BY <2>3, <2>4, <2>5
<1>10. WaitBounded'
  BY <1>1 DEF Clock, WaitBounded
<1>11. \A x \in Callers : pc'[x] = "idle" => waited'[x] = 0
  BY <1>1, <1>4 DEF Clock
<1>12. Clock'
  BY <1>6, <1>7, <1>9, <1>10, <1>11 DEF Clock
<1> QED
  BY <1>5, <1>6, <1>8, <1>12 DEF IInv

\* A caller leaves the queue: those behind it move up.
LEMMA UnqueueStep ==
  ASSUME IInv, NEW c \in Callers, pc[c] = "queued", Go(Alone(c, "gone")),
         NEW n \in DOMAIN queue, queue[n] = c, queue' = RemoveAt(queue, n),
         UNCHANGED <<detected, ahead, waited>>
  PROVE  IInv'
<1>1. TypeOK /\ Once /\ Clock /\ queue \in Seq(Callers)
  BY DEF IInv, TypeOK
<1>2. Len(queue) \in Nat /\ n \in 1 .. Len(queue)
  BY <1>1, LenProperties
<1>3. /\ queue' \in Seq(Callers)
      /\ Len(queue') = Len(queue) - 1
      /\ \A i \in 1 .. Len(queue') : queue'[i] = IF i < n THEN queue[i] ELSE queue[i + 1]
  BY <1>1, <1>2, RemoveAtPlace
<1>4. /\ pc' \in [Callers -> {"idle", "queued"} \cup Timed \cup Over]
      /\ left' \in [Callers -> 0 .. AuthTimeout]
      /\ pc'[c] = "gone"
      /\ \A x \in Callers : x # c => pc'[x] = pc[x] /\ left'[x] = left[x]
  BY <1>1, OneMoves DEF Over
<1>5. TypeOK'
  BY <1>1, <1>3, <1>4 DEF TypeOK
<1>6. ASSUME NEW i \in 1 .. Len(queue')
      PROVE  \E j \in 1 .. Len(queue) : /\ queue'[i] = queue[j] /\ j # n
                                         /\ j = (IF i < n THEN i ELSE i + 1)
  <2>1. CASE i < n
    BY <1>2, <1>3, <2>1
  <2>2. CASE ~(i < n)
    BY <1>2, <1>3, <2>2
  <2> QED
    BY <2>1, <2>2
<1>7. Once'
  <2>1. ASSUME NEW i \in 1 .. Len(queue'), NEW k \in 1 .. Len(queue'), queue'[i] = queue'[k]
        PROVE  i = k
    <3>1. PICK j \in 1 .. Len(queue) :
            queue'[i] = queue[j] /\ j # n /\ j = (IF i < n THEN i ELSE i + 1)
      BY <1>6
    <3>2. PICK l \in 1 .. Len(queue) :
            queue'[k] = queue[l] /\ l # n /\ l = (IF k < n THEN k ELSE k + 1)
      BY <1>6
    <3>3. j = l
      BY <1>1, <2>1, <3>1, <3>2 DEF Once
    <3>4. i \in Nat /\ k \in Nat /\ n \in Nat
      BY <1>2, <1>3
    <3> QED
      BY <3>1, <3>2, <3>3, <3>4
  <2> QED
    BY <2>1 DEF Once
<1>8. \A x \in Callers : /\ pc'[x] = "detecting" <=> pc[x] = "detecting"
                         /\ pc'[x] \in {"idle", "detecting", "fetching"} =>
                              pc'[x] = pc[x] /\ left'[x] = left[x]
  BY <1>4
<1>9. NobodyStranded'
  <2>1. ASSUME NEW x \in Callers, pc'[x] = "queued"
        PROVE  \E i \in 1 .. Len(queue') : queue'[i] = x
    <3>1. x # c /\ pc[x] = "queued"
      BY <1>4, <2>1
    <3>2. PICK j \in 1 .. Len(queue) : queue[j] = x
      BY <3>1, QueueFacts
    <3>3. j # n
      BY <3>1, <3>2
    <3>4. CASE j < n
      <4>1. j \in 1 .. Len(queue')
        BY <1>2, <1>3, <3>4
      <4> QED
        BY <1>3, <3>2, <3>4, <4>1
    <3>5. CASE ~(j < n)
      <4>1. j - 1 \in 1 .. Len(queue') /\ ~(j - 1 < n) /\ (j - 1) + 1 = j
        BY <1>2, <1>3, <3>3, <3>5
      <4> QED
        BY <1>3, <3>2, <4>1
    <3> QED
      BY <3>4, <3>5
  <2>2. ASSUME NEW x \in Callers, NEW i \in 1 .. Len(queue'), queue'[i] = x
        PROVE  pc'[x] = "queued"
    <3>1. PICK j \in 1 .. Len(queue) : queue'[i] = queue[j] /\ j # n
      BY <1>6
    <3>2. pc[x] = "queued" /\ x # c
      BY <1>1, <1>2, <2>2, <3>1, QueueFacts DEF Once
    <3> QED
      BY <1>4, <3>2
  <2>3. Len(queue') > 0 => \E d \in Callers : pc'[d] = "detecting"
    <3>1. queue # <<>>
      BY <1>2
    <3> QED
      BY <1>8, <3>1, QueueFacts
  <2>4. /\ \A a, b \in Callers : pc'[a] = "detecting" /\ pc'[b] = "detecting" => a = b
        /\ detected' => \A x \in Callers : pc'[x] # "detecting"
    BY <1>8, QueueFacts
  <2> QED
    BY <1>3, <2>1, <2>2, <2>3, <2>4, Unstranded
<1>10. ASSUME NEW d \in Callers, NEW i \in 1 .. Len(queue'), pc'[d] = "detecting"
       PROVE  waited'[queue'[i]] + left'[d] + T(i - 1) <= T(ahead'[queue'[i]])
  <2>1. PICK j \in 1 .. Len(queue) :
          queue'[i] = queue[j] /\ j # n /\ j = (IF i < n THEN i ELSE i + 1)
    BY <1>6
  <2>2. pc[d] = "detecting" /\ left'[d] = left[d] /\ left[d] \in Nat
    BY <1>1, <1>8, <1>10 DEF TypeOK
  <2>3. waited[queue[j]] + left[d] + T(j - 1) <= T(ahead[queue[j]])
    BY <1>1, <2>1, <2>2 DEF Clock
  <2>4. queue[j] \in Callers
    BY <2>1, QueueFacts
  <2>5. waited[queue[j]] \in Nat /\ ahead[queue[j]] \in Nat
    BY <1>1, <2>4 DEF TypeOK
  <2>6. i - 1 \in Nat /\ (j - 1 = i - 1 \/ j - 1 = (i - 1) + 1)
    BY <1>3, <2>1
  <2>7. T(i - 1) \in Nat /\ T((i - 1) + 1) = T(i - 1) + AuthTimeout /\ AuthTimeout \in Nat
    BY <2>6, Timeouts
  <2>8. T(j - 1) \in Nat /\ T(j - 1) >= T(i - 1)
    BY <2>6, <2>7
  <2>9. T(ahead[queue[j]]) \in Nat
    BY <2>5, Timeouts
  <2>10. waited[queue[j]] + left[d] + T(i - 1) <= T(ahead[queue[j]])
    <3> DEFINE w == waited[queue[j]]
               l == left[d]
               t == T(i - 1)
               u == T(j - 1)
               b == T(ahead[queue[j]])
    <3>1. /\ w \in Nat /\ l \in Nat /\ t \in Nat /\ u \in Nat /\ b \in Nat
          /\ u >= t
      BY <2>2, <2>5, <2>7, <2>8, <2>9
    <3>2. w + l + u <= b
      BY <2>3
    <3> HIDE DEF w, l, t, u, b
    <3>3. w + l + t <= b
      BY <3>1, <3>2
    <3> QED
      BY <3>3 DEF w, l, t, b
  <2>11. /\ T(ahead'[queue'[i]]) = T(ahead[queue[j]])
         /\ waited'[queue'[i]] + left'[d] + T(i - 1) = waited[queue[j]] + left[d] + T(i - 1)
    BY <2>1, <2>2, Zenon
  <2> QED
    BY <2>10, <2>11, Zenon
<1>11. WaitBounded'
  BY <1>1 DEF Clock, WaitBounded
<1>12. \A x \in Callers :
         /\ pc'[x] = "idle" => waited'[x] = 0
         /\ pc'[x] = "detecting" => waited'[x] + left'[x] <= T(ahead'[x] + 1)
         /\ pc'[x] = "fetching" => waited'[x] + left'[x] <= T(ahead'[x] + 2)
  BY <1>1, <1>8 DEF Clock
<1>13. Clock'
  BY <1>10, <1>11, <1>12 DEF Clock
<1> QED
  BY <1>5, <1>7, <1>9, <1>13 DEF IInv

\* Time passes: what a call waits longer, its timeout is shorter.
LEMMA TickStep ==
  ASSUME IInv, Tick
  PROVE  IInv'
<1>1. TypeOK /\ Once /\ Clock /\ NobodyStranded /\ UNCHANGED <<detected, queue, pc, ahead>>
  BY DEF IInv, Tick
<1>2. \A c \in Callers : pc[c] \in Timed => left[c] \in Nat /\ left[c] > 0 /\ left'[c] = left[c] - 1
  BY <1>1 DEF Tick, NoneDue, Bounded, TypeOK
<1>3. left' \in [Callers -> 0 .. AuthTimeout]
  <2>1. left' = [c \in Callers |-> IF pc[c] \in Timed THEN left[c] - 1 ELSE left[c]]
    BY DEF Tick, Bounded
  <2>2. ASSUME NEW c \in Callers
        PROVE  (IF pc[c] \in Timed THEN left[c] - 1 ELSE left[c]) \in 0 .. AuthTimeout
    <3>1. left[c] \in 0 .. AuthTimeout
      BY <1>1 DEF TypeOK
    <3> QED
      BY <1>2, <3>1, AuthAssumption
  <2> QED
    BY <2>1, <2>2
<1>4. /\ waited' \in [Callers -> Nat]
      /\ \A c \in Callers : waited'[c] = waited[c] \/ (Pending(c) /\ waited'[c] = waited[c] + 1)
  <2>1. waited' = [c \in Callers |->
                    IF Pending(c) /\ waited[c] < MaxWaited THEN waited[c] + 1 ELSE waited[c]]
    BY DEF Tick
  <2>2. waited \in [Callers -> Nat]
    BY <1>1 DEF TypeOK
  <2> HIDE DEF Pending, MaxWaited
  <2> QED
    BY <2>1, <2>2
<1>5. TypeOK'
  BY <1>1, <1>3, <1>4 DEF TypeOK
<1>6. Once' /\ NobodyStranded'
  BY <1>1 DEF Once, NobodyStranded, Detecting
<1>7. ASSUME NEW c \in Callers
      PROVE  /\ waited[c] \in Nat /\ waited'[c] \in Nat
             /\ waited'[c] <= waited[c] + 1
             /\ ahead[c] \in Nat
  <2>1. waited[c] \in Nat /\ waited'[c] \in Nat /\ ahead[c] \in Nat
    BY <1>1, <1>4 DEF TypeOK
  <2>2. waited'[c] = waited[c] \/ waited'[c] = waited[c] + 1
    BY <1>4
  <2> QED
    BY <2>1, <2>2
<1>8. ASSUME NEW d \in Callers, NEW i \in 1 .. Len(queue), pc[d] = "detecting"
      PROVE  waited'[queue[i]] + left'[d] + T(i - 1) <= T(ahead[queue[i]])
  <2>1. left[d] \in Nat /\ left'[d] = left[d] - 1
    BY <1>2, <1>8 DEF Timed
  <2>2. queue[i] \in Callers
    BY QueueFacts
  <2>3. waited[queue[i]] + left[d] + T(i - 1) <= T(ahead[queue[i]])
    BY <1>1, <1>8 DEF Clock
  <2>4. i - 1 \in Nat
    OBVIOUS
  <2>5. T(i - 1) \in Nat /\ T(ahead[queue[i]]) \in Nat
    BY <1>7, <2>2, <2>4, Timeouts
  <2>6. /\ waited[queue[i]] \in Nat /\ waited'[queue[i]] \in Nat
        /\ waited'[queue[i]] <= waited[queue[i]] + 1
    BY <1>7, <2>2
  <2> QED
    BY <2>1, <2>3, <2>5, <2>6
<1>9. ASSUME NEW c \in Callers, NEW m \in Nat, pc[c] \in Timed,
             waited[c] + left[c] <= T(ahead[c] + m)
      PROVE  waited'[c] + left'[c] <= T(ahead[c] + m)
  <2>1. ahead[c] + m \in Nat
    BY <1>7
  <2>2. T(ahead[c] + m) \in Nat
    BY <2>1, Timeouts
  <2>3. left[c] \in Nat /\ left'[c] = left[c] - 1
    BY <1>2, <1>9
  <2> QED
    BY <1>7, <1>9, <2>2, <2>3
<1>10. \A c \in Callers : pc[c] = "detecting" => waited'[c] + left'[c] <= T(ahead[c] + 1)
  BY <1>1, <1>9 DEF Clock, Timed
<1>11. \A c \in Callers : pc[c] = "fetching" => waited'[c] + left'[c] <= T(ahead[c] + 2)
  BY <1>1, <1>9 DEF Clock, Timed
<1>12. \A c \in Callers : pc[c] = "idle" => waited'[c] = 0
  BY <1>1, <1>4 DEF Clock, Pending, Timed
<1>13. ASSUME NEW c \in Callers
       PROVE  waited'[c] <= T(ahead[c] + 2)
  <2>1. /\ T(ahead[c]) \in Nat /\ AuthTimeout \in Nat
        /\ T(ahead[c] + 1) = T(ahead[c]) + AuthTimeout
        /\ T(ahead[c] + 2) = T(ahead[c]) + AuthTimeout + AuthTimeout
    BY <1>7, Timeouts
  <2>2. left'[c] \in Nat
    BY <1>3, AuthAssumption
  <2>3. CASE pc[c] = "queued"
    <3>1. PICK i \in 1 .. Len(queue) : queue[i] = c
      BY <2>3, QueueFacts
    <3>2. queue # <<>>
      BY <3>1, QueueFacts
    <3>3. PICK d \in Callers : pc[d] = "detecting"
      BY <3>2, QueueFacts
    <3>4. waited'[c] + left'[d] + T(i - 1) <= T(ahead[c])
      BY <1>8, <3>1, <3>3
    <3>5. i - 1 \in Nat /\ left'[d] \in Nat
      BY <1>3, <3>1, AuthAssumption
    <3>6. T(i - 1) \in Nat
      BY <3>5, Timeouts
    <3> QED
      BY <1>7, <2>1, <3>4, <3>5, <3>6
  <2>4. CASE pc[c] = "detecting"
    <3>1. waited'[c] + left'[c] <= T(ahead[c] + 1)
      BY <1>10, <2>4
    <3> QED
      BY <1>7, <2>1, <2>2, <3>1
  <2>5. CASE pc[c] = "fetching"
    <3>1. waited'[c] + left'[c] <= T(ahead[c] + 2)
      BY <1>11, <2>5
    <3> QED
      BY <1>7, <2>1, <2>2, <3>1
  <2>6. CASE pc[c] \notin {"queued", "detecting", "fetching"}
    <3>1. waited'[c] = waited[c]
      BY <1>4, <2>6 DEF Pending, Timed
    <3> QED
      BY <1>1, <3>1 DEF Clock, WaitBounded, T
  <2> QED
    BY <2>3, <2>4, <2>5, <2>6
<1>14. WaitBounded'
  BY <1>1, <1>13 DEF WaitBounded, T
<1>15. Clock'
  BY <1>1, <1>8, <1>10, <1>11, <1>12, <1>14 DEF Clock
<1> QED
  BY <1>5, <1>6, <1>15 DEF IInv

\* Every step keeps the invariant.
LEMMA GcpNext ==
  ASSUME IInv, [Next]_vars
  PROVE  IInv'
<1>1. ASSUME NEW c \in Callers, Call(c)
      PROVE  IInv'
  BY <1>1, CallStep
<1>2. ASSUME NEW c \in Callers, DetectionFails(c)
      PROVE  IInv'
  <2>1. "failed" \in Over
    BY DEF Over
  <2> QED
    BY <1>2, <2>1, PassStep DEF DetectionFails
<1>3. ASSUME NEW c \in Callers, DetectionSucceeds(c)
      PROVE  IInv'
  BY <1>3, SucceedStep
<1>4. ASSUME NEW c \in Callers, FetchEnds(c)
      PROVE  IInv'
  <2>1. PICK end \in {"token", "failed"} : Go(Alone(c, end))
    BY <1>4 DEF FetchEnds
  <2>2. end \in Over
    BY DEF Over
  <2> QED
    BY <1>4, <2>1, <2>2, LeaveStep DEF FetchEnds
<1>5. ASSUME NEW c \in Callers, Disconnect(c)
      PROVE  IInv'
  <2>1. "gone" \in Over
    BY DEF Over
  <2>2. CASE pc[c] = "detecting" /\ PassPermit(c, "gone")
    BY <1>5, <2>1, <2>2, PassStep DEF Disconnect
  <2>3. CASE /\ pc[c] = "queued" /\ Go(Alone(c, "gone"))
             /\ \E n \in DOMAIN queue : queue[n] = c /\ queue' = RemoveAt(queue, n)
    <3>1. UNCHANGED <<detected, ahead, waited>>
      BY <1>5 DEF Disconnect
    <3>2. PICK n \in DOMAIN queue : queue[n] = c /\ queue' = RemoveAt(queue, n)
      BY <2>3
    <3> QED
      BY <2>3, <3>1, <3>2, UnqueueStep
  <2>4. CASE pc[c] = "fetching" /\ Go(Alone(c, "gone")) /\ UNCHANGED queue
    BY <1>5, <2>1, <2>4, LeaveStep DEF Disconnect
  <2> QED
    BY <1>5, <2>2, <2>3, <2>4 DEF Disconnect
<1>6. CASE Tick
  BY <1>6, TickStep
<1>7. CASE Done \/ UNCHANGED vars
  <2>1. UNCHANGED vars
    BY <1>7 DEF Done
  <2> QED
    BY <2>1 DEF vars, IInv, TypeOK, Once, NobodyStranded, Detecting, Clock, WaitBounded
<1> QED
  BY <1>1, <1>2, <1>3, <1>4, <1>5, <1>6, <1>7 DEF Next

\* The invariant holds in every reachable state.
LEMMA GcpInvariant == Spec => []IInv
<1>1. Init => IInv
  BY GcpInit
<1>2. IInv /\ [Next]_vars => IInv'
  BY GcpNext
<1> QED
  BY <1>1, <1>2, PTL DEF Spec

\* The variables of the queue have their types.
THEOREM GcpTypeCorrect == Spec => []TypeOK
<1>1. IInv => TypeOK
  BY DEF IInv
<1> QED
  BY <1>1, GcpInvariant, PTL

\* One detection at a time, and nobody waits for none: whatever the calls do,
\* a queued one has a running detection before it.
THEOREM GcpNobodyStranded == Spec => []NobodyStranded
<1>1. IInv => NobodyStranded
  BY DEF IInv
<1> QED
  BY <1>1, GcpInvariant, PTL

\* A call waits one timeout for each that came before it and two of its own,
\* for every number of callers and every timeout.
THEOREM GcpWaitBounded == Spec => []WaitBounded
<1>1. IInv => WaitBounded
  BY DEF IInv, Clock
<1> QED
  BY <1>1, GcpInvariant, PTL
=============================================================================
