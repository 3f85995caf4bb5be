----------------------- MODULE RequestLifecycleProofs -----------------------
(***************************************************************************)
(* Proofs about RequestLifecycle, for every set of requests, lengths and   *)
(* candidates and every budget.                                            *)
(***************************************************************************)
EXTENDS RequestLifecycle, FiniteSetTheorems, TLAPS

-----------------------------------------------------------------------------
(* The arithmetic of src/server.rs `BufferBudget`, for every budget,       *)
(* per-request cap and permit size.                                        *)

\* A quotient rounded up covers the dividend, by less than one divisor.
LEMMA DivCeilBounds ==
  ASSUME NEW n \in Nat
  PROVE  /\ DivCeil(n) \in Nat
         /\ n <= DivCeil(n) * PermitBytes
         /\ DivCeil(n) * PermitBytes < n + PermitBytes
<1> DEFINE a == n + PermitBytes - 1
<1>1. a \in Nat /\ PermitBytes \in Nat \ {0}
  BY BudgetAssumption
<1>2. /\ (a \div PermitBytes) \in Nat
      /\ (a \div PermitBytes) * PermitBytes <= a
      /\ a < ((a \div PermitBytes) + 1) * PermitBytes
  BY <1>1
<1>3. ((a \div PermitBytes) + 1) * PermitBytes = (a \div PermitBytes) * PermitBytes + PermitBytes
  BY <1>1, <1>2
<1> QED
  BY <1>1, <1>2, <1>3 DEF DivCeil

LEMMA PermitCountType == PermitCount \in Nat \ {0}
<1>1. (BudgetBytes \div PermitBytes) \in Nat
  BY BudgetAssumption
<1> QED
  BY <1>1, BudgetAssumption DEF PermitCount

LEMMA MaxBodyBytesType ==
  MaxBodyBytes \in Nat /\ MaxBodyBytes <= PermitCount * PermitBytes
<1>1. PermitCount * PermitBytes \in Nat
  BY PermitCountType, BudgetAssumption
<1> QED
  BY <1>1, BudgetAssumption DEF MaxBodyBytes

\* Every reservation holds at least one permit, an empty body's included.
LEMMA WantPositive ==
  ASSUME NEW n \in Nat
  PROVE  Want(n) \in Nat \ {0}
BY DivCeilBounds, BudgetAssumption DEF Want

\* And no more than one permit, or none that is not needed for a byte.
LEMMA WantIsTight ==
  ASSUME NEW n \in Nat
  PROVE  Want(n) = 1 \/ (Want(n) - 1) * PermitBytes < n
<1>1. /\ DivCeil(n) \in Nat /\ PermitBytes \in Nat \ {0}
      /\ DivCeil(n) * PermitBytes < n + PermitBytes
  BY DivCeilBounds, BudgetAssumption
<1>2. SUFFICES ASSUME Want(n) # 1 PROVE (Want(n) - 1) * PermitBytes < n
  OBVIOUS
<1>3. Want(n) \in Nat /\ Want(n) <= DivCeil(n)
  <2>1. Want(n) \in Nat \ {0}
    BY WantPositive
  <2> QED
    BY <1>1, <1>2, <2>1, BudgetAssumption DEF Want
<1>4. Want(n) * PermitBytes <= DivCeil(n) * PermitBytes
  BY <1>1, <1>3
<1>5. (Want(n) - 1) * PermitBytes = Want(n) * PermitBytes - PermitBytes
  BY <1>1, <1>3
<1>6. Want(n) * PermitBytes \in Nat /\ DivCeil(n) * PermitBytes \in Nat
  BY <1>1, <1>3
<1> QED
  BY <1>1, <1>4, <1>5, <1>6

\* "Fits the cap" means "can ever fit" (src/main.rs, the clamp in
\* BufferBudget::new): a body the 413 check lets through asks for no more
\* permits than the whole budget has.
THEOREM AdmissibleFits ==
  ASSUME NEW n \in Nat, n <= MaxBodyBytes
  PROVE  Want(n) <= Cardinality(Permits)
<1>1. DivCeil(n) \in Nat /\ DivCeil(n) * PermitBytes < n + PermitBytes
  BY DivCeilBounds
<1>2. PermitCount \in Nat \ {0} /\ PermitBytes \in Nat \ {0}
  BY PermitCountType, BudgetAssumption
<1>3. n <= PermitCount * PermitBytes
  BY MaxBodyBytesType, <1>2
<1>4. DivCeil(n) <= PermitCount
  <2>1. SUFFICES ASSUME DivCeil(n) >= PermitCount + 1 PROVE FALSE
    BY <1>1, <1>2
  <2>2. DivCeil(n) * PermitBytes >= (PermitCount + 1) * PermitBytes
    BY <2>1, <1>1, <1>2
  <2>3. (PermitCount + 1) * PermitBytes = PermitCount * PermitBytes + PermitBytes
    BY <1>2
  <2> QED
    BY <2>2, <2>3, <1>1, <1>2, <1>3
<1> QED
  BY <1>1, <1>2, <1>4, BudgetAssumption DEF Want

\* The permits of a reservation pay for every declared byte, as long as the
\* budget is small enough for one acquire to name all of it (u32::MAX).
THEOREM ReservationCovers ==
  ASSUME NEW n \in Nat, n <= MaxBodyBytes, PermitCount <= WantCap
  PROVE  n <= Want(n) * PermitBytes
<1>1. DivCeil(n) \in Nat /\ n <= DivCeil(n) * PermitBytes
  BY DivCeilBounds
<1>2. Want(n) \in Nat /\ Want(n) >= DivCeil(n)
  <2> DEFINE w == IF DivCeil(n) < 1 THEN 1 ELSE DivCeil(n)
  <2>1. CASE w > WantCap
    <3>1. WantCap \in Nat \ {0} /\ PermitCount \in Nat
      BY BudgetAssumption, PermitCountType
    <3>2. DivCeil(n) > WantCap
      BY <2>1, <1>1, <3>1
    <3>3. Want(n) = WantCap
      BY <2>1 DEF Want
    <3>4. Want(n) <= Cardinality(Permits)
      BY AdmissibleFits
    <3>5. DivCeil(n) * PermitBytes < n + PermitBytes /\ n <= PermitCount * PermitBytes
      BY DivCeilBounds, MaxBodyBytesType, <3>1, BudgetAssumption
    <3>6. DivCeil(n) >= PermitCount + 1
      BY <3>1, <3>2, <1>1
    <3>7. DivCeil(n) * PermitBytes >= (PermitCount + 1) * PermitBytes
      BY <3>1, <3>6, <1>1, BudgetAssumption
    <3>8. (PermitCount + 1) * PermitBytes = PermitCount * PermitBytes + PermitBytes
      BY <3>1, BudgetAssumption
    <3> QED
      BY <3>1, <3>5, <3>7, <3>8, <1>1, BudgetAssumption
  <2>2. CASE ~(w > WantCap)
    BY <2>2, <1>1, BudgetAssumption DEF Want
  <2> QED
    BY <2>1, <2>2
<1>3. DivCeil(n) * PermitBytes <= Want(n) * PermitBytes
  BY <1>1, <1>2, BudgetAssumption
<1> QED
  BY <1>1, <1>2, <1>3, BudgetAssumption

-----------------------------------------------------------------------------
(* The inductive invariant: where the handler is decides which buffers are *)
(* alive, live buffers decide the permits held, and every permit is either *)
(* in the semaphore or held by exactly one request.                        *)

Buffering == {"reading", "collected", "routed"}
Sent == {"awaitHead", "firstChunk", "readBody", "warming", "succeeded",
         "badStatus", "failed", "meter", "meterError"}

Shape(r) ==
  /\ pc[r] = "arrive" => ~raw[r] /\ out[r] = "none"
  /\ pc[r] \in Buffering => raw[r] /\ out[r] = "none"
  /\ pc[r] = "prepared" => raw[r] /\ out[r] = "handler"
  /\ pc[r] = "forward" => ~raw[r] /\ out[r] = "handler"
  /\ pc[r] \in Sent => ~raw[r] /\ out[r] \in {"wire", "gone"}
  /\ pc[r] = "done" => ~raw[r] /\ out[r] # "handler"

Covered(r) ==
  /\ Alive(r) => Cardinality(permit[r]) = Want(len[r]) /\ len[r] <= MaxBodyBytes
  /\ ~Alive(r) => permit[r] = {}

Owned ==
  /\ \A p \in Permits : p \in free \/ \E r \in Requests : p \in permit[r]
  /\ \A r \in Requests : permit[r] \cap free = {}
  /\ \A r, s \in Requests : r # s => permit[r] \cap permit[s] = {}

IInv == TypeOK /\ Owned /\ \A r \in Requests : Shape(r) /\ Covered(r)

LEMMA InitIInv == Init => IInv
<1> SUFFICES ASSUME Init PROVE IInv
  OBVIOUS
<1>1. TypeOK
  BY DEF Init, TypeOK, PCs, Modes, Replies
<1>2. Owned
  BY DEF Init, Owned
<1>3. ASSUME NEW r \in Requests PROVE Shape(r) /\ Covered(r)
  BY <1>3 DEF Init, Shape, Covered, Alive, Buffering, Sent
<1> QED
  BY <1>1, <1>2, <1>3 DEF IInv

-----------------------------------------------------------------------------
(* What a step of one request leaves of the others, and of the budget *)

Others(r) ==
  \A s \in Requests \ {r} :
    /\ pc'[s] = pc[s] /\ raw'[s] = raw[s] /\ out'[s] = out[s]
    /\ len'[s] = len[s] /\ permit'[s] = permit[s]

LEMMA OneRequest ==
  ASSUME IInv, NEW r \in Requests, TypeOK', Owned', Others(r), Shape(r)', Covered(r)'
  PROVE  IInv'
<1>1. ASSUME NEW s \in Requests \ {r} PROVE Shape(s)' /\ Covered(s)'
  BY <1>1 DEF IInv, Others, Shape, Covered, Alive
<1> QED
  BY <1>1 DEF IInv

\* A step that leaves the budget and r's buffers alone, and takes r's handler
\* to a place with the same buffers.
LEMMA SameBuffers ==
  ASSUME IInv, NEW r \in Requests, TypeOK', Others(r), UNCHANGED budget,
         raw'[r] = raw[r], out'[r] = out[r], len'[r] = len[r] \/ ~Alive(r), Shape(r)'
  PROVE  IInv'
<1>1. Owned'
  BY DEF IInv, Owned, budget
<1>2. Covered(r)'
  BY DEF IInv, Covered, Alive, budget
<1> QED
  BY <1>1, <1>2, OneRequest

\* Dropping a permit loses none and shares none.
LEMMA ReleaseOwned ==
  ASSUME TypeOK, Owned, NEW r \in Requests, Release(r)
  PROVE  /\ Owned'
         /\ permit' \in [Requests -> SUBSET Permits] /\ free' \in SUBSET Permits
         /\ permit'[r] = {}
         /\ \A s \in Requests \ {r} : permit'[s] = permit[s]
<1>1. permit \in [Requests -> SUBSET Permits] /\ free \in SUBSET Permits
  BY DEF TypeOK
<1>2. /\ permit' \in [Requests -> SUBSET Permits]
      /\ permit'[r] = {}
      /\ \A s \in Requests \ {r} : permit'[s] = permit[s]
      /\ free' = free \cup permit[r]
  BY <1>1 DEF Release
<1>3. Owned'
  BY <1>1, <1>2 DEF Owned
<1> QED
  BY <1>1, <1>2, <1>3

\* An early return drops the permit with the raw buffer.
LEMMA ReturnEarlyKeeps ==
  ASSUME IInv, NEW r \in Requests, NEW here \in Buffering, NEW how \in Replies,
         ReturnEarly(r, here, how)
  PROVE  IInv'
<1>1. /\ Owned' /\ permit' \in [Requests -> SUBSET Permits] /\ free' \in SUBSET Permits
      /\ permit'[r] = {} /\ \A s \in Requests \ {r} : permit'[s] = permit[s]
  BY ReleaseOwned DEF ReturnEarly, IInv
<1>2. TypeOK'
  BY <1>1 DEF ReturnEarly, Goto, Answer, IInv, TypeOK, PCs, stats, meters
<1>3. Others(r)
  BY <1>1 DEF ReturnEarly, Goto, IInv, TypeOK, Others
<1>4. pc'[r] = "done" /\ ~raw'[r] /\ out'[r] = "none"
  BY DEF ReturnEarly, Goto, IInv, TypeOK, Shape
<1>5. Shape(r)' /\ Covered(r)'
  BY <1>1, <1>4 DEF Shape, Covered, Alive, Buffering, Sent
<1> QED
  BY <1>1, <1>2, <1>3, <1>5, OneRequest

-----------------------------------------------------------------------------
(* Admission *)

LEMMA RefuseKeeps ==
  ASSUME IInv, NEW r \in Requests, Refuse(r)
  PROVE  IInv'
<1>1. TypeOK'
  BY DEF Refuse, Goto, Answer, IInv, TypeOK, PCs, Replies, budget, stats, meters
<1>2. Others(r) /\ pc'[r] = "done" /\ pc[r] = "arrive"
  BY DEF Refuse, Goto, IInv, TypeOK, Others, budget
<1>3. Shape(r)'
  BY <1>2 DEF Refuse, IInv, Shape, Buffering, Sent
<1> QED
  BY <1>1, <1>2, <1>3, SameBuffers DEF Refuse

LEMMA ShedKeeps ==
  ASSUME IInv, NEW r \in Requests, Shed(r)
  PROVE  IInv'
<1>0. PICK n \in Declared : len' = [len EXCEPT ![r] = n]
  BY DEF Shed
<1>a. n \in Nat
  BY LifecycleAssumption DEF Declared
<1>b. /\ Goto(r, "arrive", "done") /\ Answer(r, "shed")
      /\ bufferRejections' = bufferRejections + 1
      /\ UNCHANGED <<mode, cand, raw, out, outLen, head, budget, stats,
                     requestsTotal, errorsTotal>>
  BY DEF Shed
<1>1. TypeOK'
  BY <1>0, <1>a, <1>b DEF Goto, Answer, IInv, TypeOK, PCs, Replies, budget, stats
<1>2. Others(r) /\ pc'[r] = "done" /\ pc[r] = "arrive"
  BY <1>0, <1>b DEF Goto, IInv, TypeOK, Others, budget
<1>3. Shape(r)' /\ ~Alive(r)
  BY <1>2, <1>b DEF IInv, Shape, Alive, Buffering, Sent
<1> QED
  BY <1>1, <1>2, <1>3, <1>b, SameBuffers

LEMMA ReserveKeeps ==
  ASSUME IInv, NEW r \in Requests, Reserve(r)
  PROVE  IInv'
<1>n. PICK n \in Declared :
        /\ n <= MaxBodyBytes
        /\ len' = [len EXCEPT ![r] = n]
        /\ \E P \in kSubset(Want(n), free) :
             permit' = [permit EXCEPT ![r] = P] /\ free' = free \ P
  BY DEF Reserve
<1>d. n <= MaxBodyBytes
  BY <1>n
<1>0. PICK P \in kSubset(Want(n), free) :
        permit' = [permit EXCEPT ![r] = P] /\ free' = free \ P
  BY <1>n
<1>a. n \in Nat
  BY LifecycleAssumption DEF Declared
<1>b. P \in SUBSET free /\ Cardinality(P) = Want(n)
  BY DEF kSubset
<1>c. /\ Goto(r, "arrive", "reading") /\ raw' = [raw EXCEPT ![r] = TRUE]
      /\ UNCHANGED <<mode, cand, out, outLen, head, reply, stats, meters>>
  BY DEF Reserve
<1>1. TypeOK'
  BY <1>n, <1>0, <1>a, <1>b, <1>c DEF Goto, IInv, TypeOK, PCs, stats, meters
<1>2. Others(r)
  BY <1>n, <1>0, <1>c DEF Goto, IInv, TypeOK, Others
<1>3. /\ pc'[r] = "reading" /\ raw'[r] /\ out'[r] = "none" /\ len'[r] = n
      /\ permit'[r] = P /\ permit[r] = {}
  BY <1>n, <1>0, <1>c DEF Goto, IInv, TypeOK, Shape, Covered, Alive
<1>4. Owned'
  <2>1. permit \in [Requests -> SUBSET Permits] /\ free \in SUBSET Permits /\ Owned
    BY DEF IInv, TypeOK
  <2>2. \A p \in Permits : p \in free' \/ \E s \in Requests : p \in permit'[s]
    BY <2>1, <1>0, <1>b, <1>3 DEF Owned
  <2>3. \A s \in Requests : permit'[s] \cap free' = {}
    BY <2>1, <1>0, <1>b, <1>3 DEF Owned
  <2>4. \A s, t \in Requests : s # t => permit'[s] \cap permit'[t] = {}
    BY <2>1, <1>0, <1>b, <1>3 DEF Owned
  <2> QED
    BY <2>2, <2>3, <2>4 DEF Owned
<1>5. Shape(r)' /\ Covered(r)'
  BY <1>3, <1>b, <1>d DEF Shape, Covered, Alive, Buffering, Sent
<1> QED
  BY <1>1, <1>2, <1>4, <1>5, OneRequest

-----------------------------------------------------------------------------
(* Steps that leave the budget alone *)

\* A move between two places with the same buffers.
LEMMA MoveKeeps ==
  ASSUME IInv, NEW r \in Requests, NEW here \in PCs, NEW there \in PCs,
         \/ here \in Buffering /\ there \in Buffering
         \/ here \in Sent /\ there \in Sent,
         Move(r, here, there)
  PROVE  IInv'
<1>1. TypeOK'
  BY DEF Move, Goto, IInv, TypeOK, budget, stats, meters
<1>2. Others(r) /\ pc[r] = here /\ pc'[r] = there
  BY DEF Move, Goto, IInv, TypeOK, Others, budget
<1>3. Shape(r)'
  BY <1>2 DEF Move, IInv, Shape, Buffering, Sent
<1> QED
  BY <1>1, <1>2, <1>3, SameBuffers DEF Move

LEMMA RouteKeeps ==
  ASSUME IInv, NEW r \in Requests, Route(r)
  PROVE  IInv'
<1>0. PICK c \in Candidates, m \in Modes :
        cand' = [cand EXCEPT ![r] = c] /\ mode' = [mode EXCEPT ![r] = m]
  <2>a. PICK a \in Aliases : \E c \in CandidatesOf[a] : cand' = [cand EXCEPT ![r] = c]
    BY DEF Route
  <2>1. PICK c \in CandidatesOf[a] : cand' = [cand EXCEPT ![r] = c]
    BY <2>a
  <2>2. c \in Candidates
    BY <2>1 DEF Candidates
  <2> QED
    BY <2>1, <2>2 DEF Route
<1>1. TypeOK'
  BY <1>0 DEF Route, Goto, IInv, TypeOK, PCs, budget, stats, meters
<1>2. Others(r) /\ pc[r] = "collected" /\ pc'[r] = "routed"
  BY DEF Route, Goto, IInv, TypeOK, Others, budget
<1>3. Shape(r)'
  BY <1>2 DEF Route, IInv, Shape, Buffering, Sent
<1> QED
  BY <1>1, <1>2, <1>3, SameBuffers DEF Route

LEMMA PrepareKeeps ==
  ASSUME IInv, NEW r \in Requests, Prepare(r)
  PROVE  IInv'
<1>0. PICK g \in Growths : outLen' = [outLen EXCEPT ![r] = len[r] + g]
  BY DEF Prepare
<1>a. len[r] + g \in Nat
  BY LifecycleAssumption DEF IInv, TypeOK
<1>1. TypeOK'
  BY <1>0, <1>a DEF Prepare, Goto, IInv, TypeOK, PCs, budget, stats, meters
<1>2. Others(r) /\ pc[r] = "routed" /\ pc'[r] = "prepared"
  BY DEF Prepare, Goto, IInv, TypeOK, Others, budget
<1>3. /\ raw[r] /\ raw'[r] /\ out'[r] = "handler"
      /\ len'[r] = len[r] /\ permit'[r] = permit[r]
  BY <1>2 DEF Prepare, IInv, TypeOK, Shape, Buffering, budget
<1>4. Shape(r)' /\ Covered(r)'
  BY <1>2, <1>3 DEF IInv, Shape, Covered, Alive, Buffering, Sent
<1>5. Owned'
  BY DEF Prepare, IInv, Owned, budget
<1> QED
  BY <1>1, <1>2, <1>4, <1>5, OneRequest

LEMMA DropRawKeeps ==
  ASSUME IInv, NEW r \in Requests, DropRaw(r)
  PROVE  IInv'
<1>1. TypeOK'
  BY DEF DropRaw, Goto, IInv, TypeOK, PCs, budget, stats, meters
<1>2. Others(r) /\ pc[r] = "prepared" /\ pc'[r] = "forward"
  BY DEF DropRaw, Goto, IInv, TypeOK, Others, budget
<1>3. /\ raw[r] /\ ~raw'[r] /\ out'[r] = "handler"
      /\ len'[r] = len[r] /\ permit'[r] = permit[r]
  BY <1>2 DEF DropRaw, IInv, TypeOK, Shape, budget
<1>4. Shape(r)' /\ Covered(r)'
  BY <1>2, <1>3 DEF IInv, Shape, Covered, Alive, Buffering, Sent
<1>5. Owned'
  BY DEF DropRaw, IInv, Owned, budget
<1> QED
  BY <1>1, <1>2, <1>4, <1>5, OneRequest

LEMMA SendKeeps ==
  ASSUME IInv, NEW r \in Requests, Send(r)
  PROVE  IInv'
<1>1. TypeOK'
  BY DEF Send, Goto, IInv, TypeOK, PCs, budget, stats, meters
<1>2. Others(r) /\ pc[r] = "forward" /\ pc'[r] = "awaitHead"
  BY DEF Send, Goto, IInv, TypeOK, Others, budget
<1>3. /\ out[r] = "handler" /\ out'[r] = "wire" /\ raw'[r] = raw[r] /\ ~raw[r]
      /\ len'[r] = len[r] /\ permit'[r] = permit[r]
  BY <1>2 DEF Send, IInv, TypeOK, Shape, budget
<1>4. Shape(r)' /\ Covered(r)'
  BY <1>2, <1>3 DEF IInv, Shape, Covered, Alive, Buffering, Sent
<1>5. Owned'
  BY DEF Send, IInv, Owned, budget
<1> QED
  BY <1>1, <1>2, <1>4, <1>5, OneRequest

LEMMA HeadKeeps ==
  ASSUME IInv, NEW r \in Requests, Head(r)
  PROVE  IInv'
<1>0. PICK there \in {"firstChunk", "readBody"} : Goto(r, "awaitHead", there)
  BY DEF Head
<1>1. TypeOK'
  BY <1>0 DEF Head, Goto, IInv, TypeOK, PCs, budget, stats, meters
<1>2. Others(r) /\ pc[r] = "awaitHead" /\ pc'[r] \in {"firstChunk", "readBody"}
  BY <1>0 DEF Head, Goto, IInv, TypeOK, Others, budget
<1>3. Shape(r)'
  BY <1>2 DEF Head, IInv, Shape, Buffering, Sent
<1> QED
  BY <1>1, <1>2, <1>3, SameBuffers DEF Head

-----------------------------------------------------------------------------
(* Steps that free the outbound copy *)

LEMMA AuthFailsKeeps ==
  ASSUME IInv, NEW r \in Requests, AuthFails(r)
  PROVE  IInv'
<1>1. /\ Owned' /\ permit' \in [Requests -> SUBSET Permits] /\ free' \in SUBSET Permits
      /\ permit'[r] = {} /\ \A s \in Requests \ {r} : permit'[s] = permit[s]
  BY ReleaseOwned DEF AuthFails, IInv
<1>2. TypeOK'
  BY <1>1 DEF AuthFails, Goto, IInv, TypeOK, PCs, stats, meters
<1>3. Others(r)
  BY <1>1 DEF AuthFails, Goto, IInv, TypeOK, Others
<1>4. pc'[r] = "failed" /\ ~raw'[r] /\ out'[r] = "gone"
  BY DEF AuthFails, Goto, IInv, TypeOK, Shape
<1>5. Shape(r)' /\ Covered(r)'
  BY <1>1, <1>4 DEF Shape, Covered, Alive, Buffering, Sent
<1> QED
  BY <1>1, <1>2, <1>3, <1>5, OneRequest

LEMMA UploadEndsKeeps ==
  ASSUME IInv, NEW r \in Requests, UploadEnds(r)
  PROVE  IInv'
<1>1. /\ Owned' /\ permit' \in [Requests -> SUBSET Permits] /\ free' \in SUBSET Permits
      /\ permit'[r] = {} /\ \A s \in Requests \ {r} : permit'[s] = permit[s]
  BY ReleaseOwned DEF UploadEnds, IInv
<1>2. TypeOK'
  BY <1>1 DEF UploadEnds, IInv, TypeOK, stats, meters
<1>3. Others(r)
  BY <1>1 DEF UploadEnds, IInv, TypeOK, Others
<1>4. pc'[r] = pc[r] /\ pc[r] \in Sent \cup {"done"} /\ ~raw'[r] /\ out'[r] = "gone"
  BY DEF UploadEnds, IInv, TypeOK, PCs, Shape, Buffering, Sent
<1>5. Shape(r)' /\ Covered(r)'
  BY <1>1, <1>4 DEF Shape, Covered, Alive, Buffering, Sent
<1> QED
  BY <1>1, <1>2, <1>3, <1>5, OneRequest

LEMMA DisconnectKeeps ==
  ASSUME IInv, NEW r \in Requests, Disconnect(r)
  PROVE  IInv'
<1>a. /\ pc' = [pc EXCEPT ![r] = "done"] /\ raw' = [raw EXCEPT ![r] = FALSE]
      /\ reply' = [reply EXCEPT ![r] = "gone"]
      /\ UNCHANGED <<len, mode, cand, outLen, head, stats, meters>>
  BY DEF Disconnect, Answer
<1>b. pc[r] \in {"reading", "awaitHead", "firstChunk", "readBody", "forward"}
  BY DEF Disconnect, AtAwait
<1>c. pc'[r] = "done" /\ ~raw'[r] /\ len'[r] = len[r]
  BY <1>a DEF IInv, TypeOK
<1>1. CASE out[r] = "wire"
  <2>1. UNCHANGED <<out, permit, free>>
    BY <1>1 DEF Disconnect, budget
  <2>2. TypeOK'
    BY <1>a, <2>1 DEF IInv, TypeOK, PCs, Replies, stats, meters
  <2>3. Others(r)
    BY <1>a, <2>1 DEF IInv, TypeOK, Others
  <2>4. Shape(r)' /\ Covered(r)'
    BY <1>1, <1>c, <2>1 DEF IInv, Shape, Covered, Alive, Buffering, Sent
  <2>5. Owned'
    BY <2>1 DEF IInv, Owned
  <2> QED
    BY <2>2, <2>3, <2>4, <2>5, OneRequest
<1>2. CASE out[r] # "wire"
  <2>0. /\ out' = [out EXCEPT ![r] = IF @ = "handler" THEN "gone" ELSE @]
        /\ Release(r)
    BY <1>2 DEF Disconnect
  <2>1. /\ Owned' /\ permit' \in [Requests -> SUBSET Permits] /\ free' \in SUBSET Permits
        /\ permit'[r] = {} /\ \A s \in Requests \ {r} : permit'[s] = permit[s]
    BY <2>0, ReleaseOwned DEF IInv
  <2>2. TypeOK'
    BY <1>a, <2>0, <2>1 DEF IInv, TypeOK, PCs, Replies, stats, meters
  <2>3. Others(r)
    BY <1>a, <2>0, <2>1 DEF IInv, TypeOK, Others
  <2>4. out'[r] \in {"none", "gone"}
    BY <1>2, <2>0 DEF IInv, TypeOK
  <2>5. Shape(r)' /\ Covered(r)'
    BY <1>c, <2>1, <2>4 DEF Shape, Covered, Alive, Buffering, Sent
  <2> QED
    BY <2>1, <2>2, <2>3, <2>5, OneRequest
<1> QED
  BY <1>1, <1>2

-----------------------------------------------------------------------------
(* Feedback *)

\* Counting one more keeps a table of counters one.
LEMMA CountUp ==
  ASSUME NEW S, NEW f \in [S -> Nat], NEW x
  PROVE  [f EXCEPT ![x] = @ + 1] \in [S -> Nat]
<1>1. CASE x \in S
  BY <1>1
<1>2. CASE x \notin S
  BY <1>2
<1> QED
  BY <1>1, <1>2

LEMMA RecordLatencyKeeps ==
  ASSUME IInv, NEW r \in Requests, RecordLatency(r)
  PROVE  IInv'
<1>0. warm' \in [Candidates -> [Modes -> BOOLEAN]]
  BY DEF RecordLatency, IInv, TypeOK
<1>1. TypeOK'
  BY <1>0 DEF RecordLatency, Goto, IInv, TypeOK, PCs, budget, meters
<1>2. Others(r) /\ pc[r] = "warming" /\ pc'[r] = "succeeded"
  BY DEF RecordLatency, Goto, IInv, TypeOK, Others, budget
<1>3. Shape(r)'
  BY <1>2 DEF RecordLatency, IInv, Shape, Buffering, Sent
<1> QED
  BY <1>1, <1>2, <1>3, SameBuffers DEF RecordLatency

LEMMA OutcomeKeeps ==
  ASSUME IInv, NEW r \in Requests, NEW here \in Sent, NEW there \in Sent,
         NEW o \in {"ok", "error"}, Outcome(r, here, o, there)
  PROVE  IInv'
<1>0. outcomes' \in [Candidates -> [{"ok", "error"} -> Nat]]
  <2> DEFINE c == cand[r]
  <2>1. outcomes \in [Candidates -> [{"ok", "error"} -> Nat]]
    BY DEF IInv, TypeOK
  <2>2. outcomes' = [outcomes EXCEPT ![c] = [outcomes[c] EXCEPT ![o] = @ + 1]]
    BY DEF Outcome
  <2>3. CASE c \in Candidates
    <3>1. [outcomes[c] EXCEPT ![o] = @ + 1] \in [{"ok", "error"} -> Nat]
      BY <2>1, <2>3, CountUp
    <3> QED
      BY <2>1, <2>2, <2>3, <3>1
  <2>4. CASE c \notin Candidates
    BY <2>1, <2>2, <2>4
  <2> QED
    BY <2>3, <2>4
<1>1. TypeOK'
  BY <1>0 DEF Outcome, Goto, IInv, TypeOK, PCs, Sent, budget, meters
<1>2. Others(r) /\ pc[r] = here /\ pc'[r] = there
  BY DEF Outcome, Goto, IInv, TypeOK, Others, budget
<1>3. Shape(r)'
  BY <1>2 DEF Outcome, IInv, Shape, Buffering, Sent
<1> QED
  BY <1>1, <1>2, <1>3, SameBuffers DEF Outcome

LEMMA MeterResponseKeeps ==
  ASSUME IInv, NEW r \in Requests, MeterResponse(r)
  PROVE  IInv'
<1>0. requestsTotal' \in [Candidates -> Nat]
  BY CountUp DEF MeterResponse, IInv, TypeOK
<1>1. TypeOK'
  BY <1>0 DEF MeterResponse, Goto, Answer, IInv, TypeOK, PCs, Replies, budget, stats
<1>2. Others(r) /\ pc[r] = "meter" /\ pc'[r] = "done"
  BY DEF MeterResponse, Goto, IInv, TypeOK, Others, budget
<1>3. Shape(r)'
  BY <1>2 DEF MeterResponse, IInv, Shape, Buffering, Sent
<1> QED
  BY <1>1, <1>2, <1>3, SameBuffers DEF MeterResponse

LEMMA MeterErrorKeeps ==
  ASSUME IInv, NEW r \in Requests, MeterError(r)
  PROVE  IInv'
<1>0. errorsTotal' \in [Candidates -> Nat]
  BY CountUp DEF MeterError, IInv, TypeOK
<1>1. TypeOK'
  BY <1>0 DEF MeterError, Goto, Answer, IInv, TypeOK, PCs, Replies, budget, stats
<1>2. Others(r) /\ pc[r] = "meterError" /\ pc'[r] = "done"
  BY DEF MeterError, Goto, IInv, TypeOK, Others, budget
<1>3. Shape(r)'
  BY <1>2 DEF MeterError, IInv, Shape, Buffering, Sent
<1> QED
  BY <1>1, <1>2, <1>3, SameBuffers DEF MeterError

-----------------------------------------------------------------------------
(* The theorems *)

LEMMA StutterKeeps == IInv /\ UNCHANGED vars => IInv'
<1> SUFFICES ASSUME IInv, UNCHANGED vars PROVE IInv'
  OBVIOUS
<1>1. TypeOK'
  BY DEF IInv, TypeOK, vars, local, budget, stats, meters
<1>2. Owned'
  BY DEF IInv, Owned, vars, budget
<1>3. ASSUME NEW r \in Requests PROVE Shape(r)' /\ Covered(r)'
  BY <1>3 DEF IInv, Shape, Covered, Alive, vars, local, budget
<1> QED
  BY <1>1, <1>2, <1>3 DEF IInv

LEMMA ArriveKeeps ==
  ASSUME IInv, NEW r \in Requests, Arrive(r)
  PROVE  IInv'
BY RefuseKeeps, ShedKeeps, ReserveKeeps DEF Arrive, RefuseUndeclared, RefuseTooLarge

LEMMA ClientSendsKeeps ==
  ASSUME IInv, NEW r \in Requests, ClientSends(r)
  PROVE  IInv'
<1>1. CASE BodyArrives(r)
  BY <1>1, MoveKeeps DEF BodyArrives, PCs, Buffering
<1>2. CASE BodyFails(r)
  BY <1>2, ReturnEarlyKeeps DEF BodyFails, Buffering, Replies
<1> QED
  BY <1>1, <1>2 DEF ClientSends

LEMMA AdvanceKeeps ==
  ASSUME IInv, NEW r \in Requests, Advance(r)
  PROVE  IInv'
<1>1. CASE RejectBody(r) \/ NoneToSelect(r) \/ PrepareFails(r)
  BY <1>1, ReturnEarlyKeeps
     DEF RejectBody, NoneToSelect, PrepareFails, Buffering, Replies
<1>2. CASE SendFails(r)
  BY <1>2, MoveKeeps DEF SendFails, PCs, Sent
<1>3. CASE FirstChunk(r) \/ BodyRead(r)
  <2>1. AfterResponse(r) \in PCs \cap Sent
    BY DEF AfterResponse, PCs, Sent
  <2>2. {"firstChunk", "readBody"} \subseteq PCs \cap Sent
    BY DEF PCs, Sent
  <2> QED
    BY <1>3, <2>1, <2>2, MoveKeeps DEF FirstChunk, BodyRead
<1>4. CASE ResponseFails(r)
  <2>1. PICK here \in {"firstChunk", "readBody"} : Move(r, here, "failed")
    BY <1>4 DEF ResponseFails
  <2>2. {here, "failed"} \subseteq PCs \cap Sent
    BY DEF PCs, Sent
  <2> QED
    BY <2>1, <2>2, MoveKeeps
<1>5. CASE RecordSuccess(r) \/ RecordBadStatus(r) \/ RecordFailure(r)
  BY <1>5, OutcomeKeeps DEF RecordSuccess, RecordBadStatus, RecordFailure, Sent
<1>6. CASE Route(r) \/ Prepare(r) \/ DropRaw(r) \/ AuthFails(r) \/ Send(r) \/ Head(r)
  BY <1>6, RouteKeeps, PrepareKeeps, DropRawKeeps, AuthFailsKeeps, SendKeeps, HeadKeeps
<1>7. CASE RecordLatency(r) \/ MeterResponse(r) \/ MeterError(r)
  BY <1>7, RecordLatencyKeeps, MeterResponseKeeps, MeterErrorKeeps
<1> QED
  BY <1>1, <1>2, <1>3, <1>4, <1>5, <1>6, <1>7 DEF Advance

LEMMA NextIInv == IInv /\ [Next]_vars => IInv'
<1> SUFFICES ASSUME IInv, [Next]_vars PROVE IInv'
  OBVIOUS
<1>1. ASSUME NEW r \in Requests,
             Arrive(r) \/ ClientSends(r) \/ Advance(r) \/ UploadEnds(r) \/ Disconnect(r)
      PROVE  IInv'
  BY <1>1, ArriveKeeps, ClientSendsKeeps, AdvanceKeeps, UploadEndsKeeps, DisconnectKeeps
<1>2. CASE Quiescent \/ UNCHANGED vars
  BY <1>2, StutterKeeps DEF Quiescent
<1> QED
  BY <1>1, <1>2 DEF Next

LEMMA SpecIInv == Spec => []IInv
BY InitIInv, NextIInv, PTL DEF Spec

\* Type correctness of the request path (server.rs handle_request).
THEOREM LifecycleTypeCorrect == Spec => []TypeOK
<1>1. IInv => TypeOK
  BY DEF IInv
<1> QED
  BY <1>1, SpecIInv, PTL

\* No permit of the budget is lost or owned twice, for any number of requests
\* and any interleaving (server.rs BufferBudget, proxy.rs OutboundBody).
THEOREM LifecyclePermitsPartitioned == Spec => []PermitsPartitioned
<1>1. IInv => PermitsPartitioned
  <2> SUFFICES ASSUME IInv PROVE PermitsPartitioned
    OBVIOUS
  <2>1. permit \in [Requests -> SUBSET Permits] /\ free \in SUBSET Permits /\ Owned
    BY DEF IInv, TypeOK
  <2>2. free \cup UNION {permit[r] : r \in Requests} = Permits
    BY <2>1 DEF Owned
  <2> QED
    BY <2>1, <2>2 DEF Owned, PermitsPartitioned
<1> QED
  BY <1>1, SpecIInv, PTL

\* A request holds permits exactly while a copy of its body lives, and they pay
\* for every byte it declared (server.rs handle_request, BufferBudget; proxy.rs
\* OutboundBody).
THEOREM LifecycleCopiesCovered == Spec => []CopiesCovered
<1>1. IInv => CopiesCovered
  <2> SUFFICES ASSUME IInv, NEW r \in Requests
               PROVE  IF Alive(r)
                      THEN permit[r] # {} /\ Pays(Cardinality(permit[r]), len[r])
                      ELSE permit[r] = {}
    BY DEF CopiesCovered
  <2>1. Covered(r) /\ len[r] \in Nat
    BY DEF IInv, TypeOK
  <2>2. CASE ~Alive(r)
    BY <2>1, <2>2 DEF Covered
  <2>3. CASE Alive(r)
    <3>1. Cardinality(permit[r]) = Want(len[r]) /\ len[r] <= MaxBodyBytes
      BY <2>1, <2>3 DEF Covered
    <3>2. permit[r] # {}
      BY <2>1, <3>1, WantPositive, FS_EmptySet
    <3>3. len[r] <= Want(len[r]) * PermitBytes \/ WantCap < PermitCount
      <4>1. PermitCount \in Nat /\ WantCap \in Nat
        BY PermitCountType, BudgetAssumption
      <4> QED
        BY <2>1, <3>1, <4>1, ReservationCovers
    <3>4. Want(len[r]) = 1 \/ (Want(len[r]) - 1) * PermitBytes < len[r]
      BY <2>1, WantIsTight
    <3> QED
      BY <2>3, <3>1, <3>2, <3>3, <3>4 DEF Pays
  <2> QED
    BY <2>2, <2>3
<1> QED
  BY <1>1, SpecIInv, PTL

\* A body under the cap is shed only while others hold permits: no request is
\* told to retry that could never be admitted (main.rs, BufferBudget::new).
THEOREM LifecycleShedOnlyUnderLoad == Spec => ShedOnlyUnderLoad
<1> DEFINE ShedStep ==
      \A r \in Requests : reply[r] # "shed" /\ reply'[r] = "shed" => free # Permits
<1>1. ASSUME IInv, NEW r \in Requests, Shed(r) PROVE free # Permits
  <2>1. PICK n \in Declared : n <= MaxBodyBytes /\ Cardinality(free) < Want(n)
    BY <1>1 DEF Shed
  <2>2. n \in Nat
    BY LifecycleAssumption DEF Declared
  <2>3. Want(n) <= Cardinality(Permits) /\ Want(n) \in Nat /\ Cardinality(Permits) \in Nat
    BY <2>1, <2>2, AdmissibleFits, WantPositive, PermitCountType, BudgetAssumption
  <2> QED
    BY <2>1, <2>3
<1>2. ASSUME IInv, [Next]_vars PROVE [ShedStep]_vars
  <2>1. SUFFICES ASSUME Next, NEW s \in Requests, reply[s] # "shed", reply'[s] = "shed"
                 PROVE  Shed(s)
    BY <1>1, <1>2
  <2>2. PICK r \in Requests :
          Arrive(r) \/ ClientSends(r) \/ Advance(r) \/ UploadEnds(r) \/ Disconnect(r)
    BY <2>1 DEF Next, Quiescent, vars, local
  <2>3. reply \in [Requests -> Replies]
    BY <1>2 DEF IInv, TypeOK
  <2>4. ~(ClientSends(r) \/ Advance(r) \/ UploadEnds(r) \/ Disconnect(r))
    BY <2>1, <2>3
       DEF ClientSends, Advance, UploadEnds, Disconnect, BodyArrives, BodyFails, RejectBody,
           NoneToSelect, Route, PrepareFails, Prepare, DropRaw, AuthFails, Send, SendFails,
           Head, FirstChunk, BodyRead, ResponseFails, RecordLatency, RecordSuccess,
           RecordBadStatus, RecordFailure, MeterResponse, MeterError, Move, ReturnEarly,
           Outcome, Answer
  <2>5. Shed(r) /\ r = s
    BY <2>1, <2>2, <2>3, <2>4
       DEF Arrive, RefuseUndeclared, RefuseTooLarge, Refuse, Shed, Reserve, Answer
  <2> QED
    BY <2>5
<1> QED
  BY <1>2, SpecIInv, PTL DEF Spec, ShedOnlyUnderLoad

-----------------------------------------------------------------------------
(* On top of that invariant: what the tracker and the counters have been   *)
(* told is what happened, and every step of the request path is a step the *)
(* contract Admission allows.                                              *)

(* What the handler's place says of the answer, the candidate and the      *)
(* response; and, per candidate, what the tracker and the counters have    *)
(* been told.                                                              *)

Chosen == Sent \cup {"routed", "prepared", "forward"}

Told(r) ==
  /\ reply[r] = "none" <=> pc[r] # "done"
  /\ pc[r] \in Chosen => cand[r] \in Candidates
  /\ pc[r] \in {"warming", "succeeded"} => head[r] = "ok"
  /\ pc[r] = "badStatus" => head[r] # "ok"
  /\ reply[r] = "shed" => out[r] = "none"

Tally(c) ==
  /\ requestsTotal[c] + errorsTotal[c] = Picks(c, Answered)
  /\ outcomes[c].ok + outcomes[c].error
       = requestsTotal[c] + errorsTotal[c] + Picks(c, Unmetered)
  /\ outcomes[c].ok = Picks(c, Succeeded)
  /\ \A m \in Modes : warm[c][m] <=> Picked(c, Earned(m)) # {}

FInv == IInv /\ (\A r \in Requests : Told(r)) /\ \A c \in Candidates : Tally(c)

\* The sets a tally counts are finite.
LEMMA PickedFinite ==
  ASSUME NEW c, NEW R \in SUBSET Requests
  PROVE  IsFiniteSet(Picked(c, R)) /\ Picks(c, R) \in Nat
<1>1. Picked(c, R) \subseteq Requests
  BY DEF Picked
<1>2. IsFiniteSet(Picked(c, R))
  BY <1>1, FS_Subset, LifecycleAssumption
<1> QED
  BY <1>2, FS_CardinalityType DEF Picks

LEMMA TalliesFinite ==
  /\ Answered \in SUBSET Requests /\ Unmetered \in SUBSET Requests
  /\ Succeeded \in SUBSET Requests /\ \A m : Earned(m) \in SUBSET Requests
BY DEF Answered, Unmetered, Succeeded, Earned

LEMMA InitFInv == Init => FInv
<1> SUFFICES ASSUME Init PROVE FInv
  OBVIOUS
<1>1. \A r \in Requests : Told(r)
  BY DEF Init, Told, Chosen, Sent
<1>2. Answered = {} /\ Unmetered = {} /\ Succeeded = {} /\ \A m : Earned(m) = {}
  BY DEF Init, Answered, Unmetered, Succeeded, Earned
<1>3. ASSUME NEW c \in Candidates PROVE Tally(c)
  <2>1. \A R : R = {} => Picked(c, R) = {} /\ Picks(c, R) = 0
    BY FS_EmptySet DEF Picked, Picks
  <2>2. requestsTotal[c] = 0 /\ errorsTotal[c] = 0 /\ outcomes[c].ok = 0 /\ outcomes[c].error = 0
    BY DEF Init
  <2>3. \A m \in Modes : ~warm[c][m]
    BY DEF Init
  <2> QED
    BY <1>2, <2>1, <2>2, <2>3 DEF Tally
<1> QED
  BY <1>1, <1>3, InitIInv DEF FInv

\* What FInv says is what the property says.
LEMMA FInvTells ==
  ASSUME FInv
  PROVE  FeedbackMatchesAnswers
<1>1. ASSUME NEW c \in Candidates, NEW m \in Modes
      PROVE  warm[c][m] <=> Picks(c, Earned(m)) > 0
  <2>1. IsFiniteSet(Picked(c, Earned(m))) /\ Picks(c, Earned(m)) \in Nat
    BY PickedFinite, TalliesFinite
  <2>2. Picks(c, Earned(m)) = 0 <=> Picked(c, Earned(m)) = {}
    BY <2>1, FS_EmptySet DEF Picks
  <2> QED
    BY <2>1, <2>2 DEF FInv, Tally
<1> QED
  BY <1>1 DEF FInv, Tally, FeedbackMatchesAnswers

-----------------------------------------------------------------------------
(* Counting *)

LEMMA OneMore ==
  ASSUME NEW S, IsFiniteSet(S), NEW T, NEW r, r \notin S, r \in T,
         \A s : s # r => (s \in S <=> s \in T)
  PROVE  Cardinality(T) = Cardinality(S) + 1
<1>1. T = S \cup {r}
  OBVIOUS
<1> QED
  BY <1>1, FS_AddElement

LEMMA OneLess ==
  ASSUME NEW S, IsFiniteSet(S), NEW T, NEW r, r \in S, r \notin T,
         \A s : s # r => (s \in S <=> s \in T)
  PROVE  Cardinality(T) = Cardinality(S) - 1
<1>1. T = S \ {r}
  OBVIOUS
<1> QED
  BY <1>1, FS_RemoveElement

\* A step of r's handler that leaves the other requests' feedback alone.
OthersTold(r) ==
  \A s \in Requests \ {r} :
    /\ pc'[s] = pc[s] /\ reply'[s] = reply[s] /\ cand'[s] = cand[s]
    /\ head'[s] = head[s] /\ mode'[s] = mode[s] /\ out'[s] = out[s]

LEMMA OthersStillTold ==
  ASSUME FInv, NEW r \in Requests, OthersTold(r), Told(r)'
  PROVE  \A s \in Requests : Told(s)'
BY DEF FInv, OthersTold, Told

\* Nothing about r has been told to the tracker or the counters.
Silent(r) ==
  /\ pc[r] \notin {"succeeded", "meter", "meterError"}
  /\ reply[r] \notin {"relayed", "badGateway"}

LEMMA SilentKeeps ==
  ASSUME FInv, IInv', NEW r \in Requests, OthersTold(r), Told(r)', Silent(r), Silent(r)',
         UNCHANGED <<warm, outcomes, requestsTotal, errorsTotal>>
  PROVE  FInv'
<1>1. ASSUME NEW c \in Candidates PROVE Tally(c)'
  <2>1. Picked(c, Answered)' = Picked(c, Answered)
    BY DEF Picked, Answered, OthersTold, Silent
  <2>2. Picked(c, Unmetered)' = Picked(c, Unmetered)
    BY DEF Picked, Unmetered, OthersTold, Silent
  <2>3. Picked(c, Succeeded)' = Picked(c, Succeeded)
    BY DEF Picked, Succeeded, OthersTold, Silent
  <2>4. \A m \in Modes : Picked(c, Earned(m))' = Picked(c, Earned(m))
    BY DEF Picked, Earned, OthersTold, Silent
  <2> QED
    BY <2>1, <2>2, <2>3, <2>4 DEF FInv, Tally, Picks
<1> QED
  BY <1>1, OthersStillTold DEF FInv

-----------------------------------------------------------------------------
(* Steps that tell nothing *)

\* An early return answers before any upstream is named.
LEMMA ReturnEarlySilent ==
  ASSUME FInv, IInv', NEW r \in Requests, NEW here \in Buffering,
         NEW how \in {"refused", "noCandidate", "internalError"}, ReturnEarly(r, here, how)
  PROVE  FInv'
<1>0. TypeOK /\ Told(r)
  BY DEF FInv, IInv
<1>1. pc[r] = here /\ pc'[r] = "done" /\ reply'[r] = how /\ UNCHANGED <<cand, head, mode, out>>
  BY <1>0 DEF ReturnEarly, Goto, Answer, TypeOK
<1>2. OthersTold(r)
  BY <1>0 DEF ReturnEarly, Goto, Answer, TypeOK, OthersTold
<1>3. Told(r)' /\ Silent(r) /\ Silent(r)'
  BY <1>0, <1>1 DEF Told, Silent, Buffering, Sent, Chosen
<1> QED
  BY <1>2, <1>3, SilentKeeps DEF ReturnEarly, stats, meters

LEMMA RefuseSilent ==
  ASSUME FInv, IInv', NEW r \in Requests, Refuse(r)
  PROVE  FInv'
<1>0. TypeOK /\ Told(r)
  BY DEF FInv, IInv
<1>1. pc[r] = "arrive" /\ pc'[r] = "done" /\ reply'[r] = "refused"
  BY <1>0 DEF Refuse, Goto, Answer, TypeOK
<1>2. OthersTold(r)
  BY <1>0 DEF Refuse, Goto, Answer, TypeOK, OthersTold
<1>3. Told(r)' /\ Silent(r) /\ Silent(r)'
  BY <1>0, <1>1 DEF Refuse, Told, Silent, Sent, Chosen
<1> QED
  BY <1>2, <1>3, SilentKeeps DEF Refuse, stats, meters

LEMMA ShedSilent ==
  ASSUME FInv, IInv', NEW r \in Requests, Shed(r)
  PROVE  FInv'
<1>0. TypeOK /\ Told(r) /\ Shape(r)
  BY DEF FInv, IInv
<1>a. /\ Goto(r, "arrive", "done") /\ Answer(r, "shed")
      /\ UNCHANGED <<mode, cand, out, head, stats, requestsTotal, errorsTotal>>
  BY DEF Shed
<1>1. pc[r] = "arrive" /\ pc'[r] = "done" /\ reply'[r] = "shed" /\ out'[r] = "none"
  BY <1>0, <1>a DEF Goto, Answer, TypeOK, Shape
<1>2. OthersTold(r)
  BY <1>0, <1>a DEF Goto, Answer, TypeOK, OthersTold
<1>3. Told(r)' /\ Silent(r) /\ Silent(r)'
  BY <1>0, <1>1, <1>a DEF Told, Silent, Sent, Chosen
<1> QED
  BY <1>a, <1>2, <1>3, SilentKeeps DEF stats

LEMMA ReserveSilent ==
  ASSUME FInv, IInv', NEW r \in Requests, Reserve(r)
  PROVE  FInv'
<1>0. TypeOK /\ Told(r)
  BY DEF FInv, IInv
<1>a. /\ Goto(r, "arrive", "reading")
      /\ UNCHANGED <<mode, cand, out, head, reply, stats, meters>>
  BY DEF Reserve
<1>1. pc[r] = "arrive" /\ pc'[r] = "reading"
  BY <1>0, <1>a DEF Goto, TypeOK
<1>2. OthersTold(r)
  BY <1>0, <1>a DEF Goto, TypeOK, OthersTold
<1>3. Told(r)' /\ Silent(r) /\ Silent(r)'
  BY <1>0, <1>1, <1>a DEF Told, Silent, Sent, Chosen
<1> QED
  BY <1>a, <1>2, <1>3, SilentKeeps DEF stats, meters

LEMMA RouteSilent ==
  ASSUME FInv, IInv', NEW r \in Requests, Route(r)
  PROVE  FInv'
<1>0. TypeOK /\ Told(r)
  BY DEF FInv, IInv
<1>b. PICK c \in Candidates, m \in Modes :
        cand' = [cand EXCEPT ![r] = c] /\ mode' = [mode EXCEPT ![r] = m]
  <2>a. PICK a \in Aliases : \E c \in CandidatesOf[a] : cand' = [cand EXCEPT ![r] = c]
    BY DEF Route
  <2>1. PICK c \in CandidatesOf[a] : cand' = [cand EXCEPT ![r] = c]
    BY <2>a
  <2>2. c \in Candidates
    BY <2>1 DEF Candidates
  <2> QED
    BY <2>1, <2>2 DEF Route
<1>a. Goto(r, "collected", "routed") /\ UNCHANGED <<out, head, reply, stats, meters>>
  BY DEF Route
<1>1. pc[r] = "collected" /\ pc'[r] = "routed" /\ cand'[r] \in Candidates
  BY <1>0, <1>a, <1>b DEF Goto, TypeOK
<1>2. OthersTold(r)
  BY <1>0, <1>a, <1>b DEF Goto, TypeOK, OthersTold
<1>3. Told(r)' /\ Silent(r) /\ Silent(r)'
  BY <1>0, <1>1, <1>a DEF Told, Silent, Sent, Chosen
<1> QED
  BY <1>a, <1>2, <1>3, SilentKeeps DEF stats, meters

\* The places of a handler that has told nothing yet.
Untold == {"reading", "collected", "routed", "prepared", "forward", "awaitHead",
           "firstChunk", "readBody", "warming", "badStatus", "failed"}

\* A step between two such places, the candidate, the answer and the mode kept.
LEMMA UntoldStep ==
  ASSUME FInv, IInv', NEW r \in Requests, NEW here \in Untold, NEW there \in Untold,
         Goto(r, here, there), there \in Chosen => here \in Chosen,
         there = "warming" => head'[r] = "ok", there = "badStatus" => head'[r] # "ok",
         \A s \in Requests \ {r} : head'[s] = head[s] /\ out'[s] = out[s],
         UNCHANGED <<mode, cand, reply, stats, meters>>
  PROVE  FInv'
<1>0. TypeOK /\ Told(r)
  BY DEF FInv, IInv
<1>1. pc[r] = here /\ pc'[r] = there
  BY <1>0 DEF Goto, TypeOK
<1>2. OthersTold(r)
  BY <1>0 DEF Goto, TypeOK, OthersTold
<1>3. Told(r)' /\ Silent(r) /\ Silent(r)'
  BY <1>0, <1>1 DEF Told, Silent, Untold
<1> QED
  BY <1>2, <1>3, SilentKeeps DEF stats, meters

LEMMA DisconnectSilent ==
  ASSUME FInv, IInv', NEW r \in Requests, Disconnect(r)
  PROVE  FInv'
<1>0. TypeOK /\ Told(r)
  BY DEF FInv, IInv
<1>a. /\ pc' = [pc EXCEPT ![r] = "done"] /\ reply' = [reply EXCEPT ![r] = "gone"]
      /\ UNCHANGED <<mode, cand, head, stats, meters>>
      /\ pc[r] \in {"reading", "awaitHead", "firstChunk", "readBody", "forward"}
  BY DEF Disconnect, Answer, AtAwait
<1>1. pc'[r] = "done" /\ reply'[r] = "gone"
  BY <1>0, <1>a DEF TypeOK
<1>b. \A s \in Requests \ {r} : out'[s] = out[s]
  BY <1>0 DEF Disconnect, TypeOK
<1>2. OthersTold(r)
  BY <1>0, <1>a, <1>b DEF TypeOK, OthersTold
<1>3. Told(r)' /\ Silent(r) /\ Silent(r)'
  BY <1>0, <1>1, <1>a DEF Told, Silent, Sent, Chosen
<1> QED
  BY <1>a, <1>2, <1>3, SilentKeeps DEF stats, meters

\* Whatever is on the wire was not shed, and its end tells nothing.
LEMMA SameTold ==
  ASSUME FInv, IInv', UNCHANGED <<pc, reply, cand, head, mode, stats, meters>>,
         \A r \in Requests : out'[r] = out[r] \/ out[r] = "wire"
  PROVE  FInv'
<1>1. \A r \in Requests : Told(r)'
  BY DEF FInv, Told
<1>2. /\ Answered' = Answered /\ Unmetered' = Unmetered /\ Succeeded' = Succeeded
      /\ \A m : Earned(m)' = Earned(m)
  BY DEF Answered, Unmetered, Succeeded, Earned
<1>3. \A c : /\ Picked(c, Answered)' = Picked(c, Answered)
             /\ Picked(c, Unmetered)' = Picked(c, Unmetered)
             /\ Picked(c, Succeeded)' = Picked(c, Succeeded)
             /\ \A m : Picked(c, Earned(m))' = Picked(c, Earned(m))
  BY <1>2 DEF Picked
<1>4. \A c \in Candidates : Tally(c)'
  BY <1>3 DEF FInv, Tally, Picks, stats, meters
<1> QED
  BY <1>1, <1>4 DEF FInv

-----------------------------------------------------------------------------
(* Steps that tell the tracker or the counters something *)

\* Candidates other than r's hear nothing.
LEMMA NotPicked ==
  ASSUME NEW r \in Requests, OthersTold(r), NEW c, c # cand[r], cand'[r] = cand[r]
  PROVE  /\ Picked(c, Answered)' = Picked(c, Answered)
         /\ Picked(c, Unmetered)' = Picked(c, Unmetered)
         /\ Picked(c, Succeeded)' = Picked(c, Succeeded)
         /\ \A m : Picked(c, Earned(m))' = Picked(c, Earned(m))
<1>1. Picked(c, Answered)' = Picked(c, Answered)
  BY DEF Picked, Answered, OthersTold
<1>2. Picked(c, Unmetered)' = Picked(c, Unmetered)
  BY DEF Picked, Unmetered, OthersTold
<1>3. Picked(c, Succeeded)' = Picked(c, Succeeded)
  BY DEF Picked, Succeeded, OthersTold
<1>4. \A m : Picked(c, Earned(m))' = Picked(c, Earned(m))
  BY DEF Picked, Earned, OthersTold
<1> QED
  BY <1>1, <1>2, <1>3, <1>4

\* The latency half of a success warms that mode of the candidate.
LEMMA RecordLatencyTold ==
  ASSUME FInv, IInv', NEW r \in Requests, RecordLatency(r)
  PROVE  FInv'
<1>0. TypeOK /\ Told(r) /\ pc[r] = "warming"
  BY DEF FInv, IInv, RecordLatency, Goto
<1>b. PICK c0 \in Candidates, m0 \in Modes : c0 = cand[r] /\ m0 = mode[r]
  BY <1>0 DEF TypeOK, Told, Chosen, Sent
<1>1. /\ pc[r] = "warming" /\ pc'[r] = "succeeded" /\ head[r] = "ok"
      /\ reply[r] = "none" /\ c0 = cand[r] /\ m0 = mode[r]
      /\ UNCHANGED <<cand, head, mode, reply, out, outcomes, requestsTotal, errorsTotal>>
  BY <1>0, <1>b DEF RecordLatency, Goto, TypeOK, Told, meters
<1>2. OthersTold(r)
  BY <1>0, <1>1 DEF RecordLatency, Goto, TypeOK, OthersTold
<1>3. Told(r)'
  BY <1>0, <1>1 DEF Told, Sent, Chosen
<1>4. /\ warm'[c0][m0]
      /\ \A c \in Candidates, m \in Modes : c # c0 \/ m # m0 => warm'[c][m] = warm[c][m]
  BY <1>0, <1>1 DEF RecordLatency, TypeOK
<1>5. ASSUME NEW c PROVE /\ Picked(c, Answered)' = Picked(c, Answered)
                         /\ Picked(c, Unmetered)' = Picked(c, Unmetered)
                         /\ Picked(c, Succeeded)' = Picked(c, Succeeded)
  <2>1. Picked(c, Answered)' = Picked(c, Answered)
    BY <1>1, <1>2 DEF Picked, Answered, OthersTold
  <2>2. Picked(c, Unmetered)' = Picked(c, Unmetered)
    BY <1>1, <1>2 DEF Picked, Unmetered, OthersTold
  <2>3. Picked(c, Succeeded)' = Picked(c, Succeeded)
    BY <1>1, <1>2 DEF Picked, Succeeded, OthersTold
  <2> QED
    BY <2>1, <2>2, <2>3
<1>6. r \in Picked(c0, Earned(m0))'
  BY <1>1 DEF Picked, Earned
<1>7. \A c, m : c # c0 \/ m # m0 => Picked(c, Earned(m))' = Picked(c, Earned(m))
  BY <1>1, <1>2 DEF Picked, Earned, OthersTold
<1>8. ASSUME NEW c \in Candidates PROVE Tally(c)'
  <2>1. ASSUME NEW m \in Modes PROVE warm'[c][m] <=> Picked(c, Earned(m))' # {}
    <3>1. CASE c = c0 /\ m = m0
      BY <1>4, <1>6, <3>1
    <3>2. CASE c # c0 \/ m # m0
      <4>1. warm'[c][m] = warm[c][m] /\ Picked(c, Earned(m))' = Picked(c, Earned(m))
        BY <1>4, <1>7, <3>2
      <4>2. warm[c][m] <=> Picked(c, Earned(m)) # {}
        BY DEF FInv, Tally
      <4> QED
        BY <4>1, <4>2
    <3> QED
      BY <3>1, <3>2
  <2> QED
    BY <1>1, <1>5, <2>1 DEF FInv, Tally, Picks
<1> QED
  BY <1>2, <1>3, <1>8, OthersStillTold DEF FInv

\* One outcome folded in makes one request unmetered, and one succeeded when
\* it is a success.
LEMMA OutcomeTold ==
  ASSUME FInv, IInv', NEW r \in Requests, NEW here, NEW o, NEW there,
         \/ here = "succeeded" /\ o = "ok" /\ there = "meter"
         \/ here = "badStatus" /\ o = "error" /\ there = "meter"
         \/ here = "failed" /\ o = "error" /\ there = "meterError",
         Outcome(r, here, o, there)
  PROVE  FInv'
<1>0. TypeOK /\ Told(r) /\ pc[r] = here
  BY DEF FInv, IInv, Outcome, Goto
<1>b. PICK c0 \in Candidates : c0 = cand[r]
  BY <1>0 DEF Told, Chosen, Sent
<1>1. /\ pc[r] = here /\ pc'[r] = there /\ reply[r] = "none" /\ c0 = cand[r]
      /\ UNCHANGED <<cand, head, mode, reply, out, warm, requestsTotal, errorsTotal>>
  BY <1>0, <1>b DEF Outcome, Goto, TypeOK, Told, meters
<1>a. o = "ok" <=> there = "meter" /\ head[r] = "ok"
  BY <1>0, <1>1 DEF Told
<1>2. OthersTold(r)
  BY <1>0, <1>1 DEF Outcome, Goto, TypeOK, OthersTold
<1>3. Told(r)'
  BY <1>0, <1>1 DEF Told, Sent, Chosen
<1>4. /\ outcomes'[c0].ok = outcomes[c0].ok + (IF o = "ok" THEN 1 ELSE 0)
      /\ outcomes'[c0].error = outcomes[c0].error + (IF o = "ok" THEN 0 ELSE 1)
      /\ \A c \in Candidates : c # c0 => outcomes'[c] = outcomes[c]
  <2>1. outcomes \in [Candidates -> [{"ok", "error"} -> Nat]]
    BY <1>0 DEF TypeOK
  <2>2. outcomes' = [outcomes EXCEPT ![c0] = [outcomes[c0] EXCEPT ![o] = @ + 1]]
    BY <1>1 DEF Outcome
  <2>3. /\ outcomes'[c0] = [outcomes[c0] EXCEPT ![o] = @ + 1]
        /\ \A c \in Candidates : c # c0 => outcomes'[c] = outcomes[c]
    BY <2>1, <2>2, <1>1
  <2>4. outcomes[c0] \in [{"ok", "error"} -> Nat]
    BY <2>1, <1>1
  <2> QED
    BY <2>3, <2>4
<1>5. ASSUME NEW c PROVE /\ Picked(c, Answered)' = Picked(c, Answered)
                         /\ \A m : Picked(c, Earned(m))' = Picked(c, Earned(m))
  <2>1. Picked(c, Answered)' = Picked(c, Answered)
    BY <1>1, <1>2 DEF Picked, Answered, OthersTold
  <2>2. \A m : Picked(c, Earned(m))' = Picked(c, Earned(m))
    BY <1>1, <1>2, <1>a DEF Picked, Earned, OthersTold
  <2> QED
    BY <2>1, <2>2
<1>6. Picks(c0, Unmetered)' = Picks(c0, Unmetered) + 1
  <2>1. r \notin Picked(c0, Unmetered) /\ r \in Picked(c0, Unmetered)'
    BY <1>1 DEF Picked, Unmetered
  <2>2. \A s : s # r => (s \in Picked(c0, Unmetered) <=> s \in Picked(c0, Unmetered)')
    BY <1>1, <1>2 DEF Picked, Unmetered, OthersTold
  <2>3. IsFiniteSet(Picked(c0, Unmetered))
    BY PickedFinite, TalliesFinite
  <2> QED
    BY <2>1, <2>2, <2>3, OneMore DEF Picks
<1>7. Picks(c0, Succeeded)' = Picks(c0, Succeeded) + (IF o = "ok" THEN 1 ELSE 0)
  <2>1. r \notin Picked(c0, Succeeded) /\ (r \in Picked(c0, Succeeded)' <=> o = "ok")
    BY <1>1, <1>a DEF Picked, Succeeded
  <2>2. \A s : s # r => (s \in Picked(c0, Succeeded) <=> s \in Picked(c0, Succeeded)')
    BY <1>1, <1>2 DEF Picked, Succeeded, OthersTold
  <2>3. IsFiniteSet(Picked(c0, Succeeded)) /\ Picks(c0, Succeeded) \in Nat
    BY PickedFinite, TalliesFinite
  <2>4. CASE o = "ok"
    BY <2>1, <2>2, <2>3, <2>4, OneMore DEF Picks
  <2>5. CASE o # "ok"
    <3>1. Picked(c0, Succeeded)' = Picked(c0, Succeeded)
      BY <2>1, <2>2, <2>5
    <3> QED
      BY <3>1, <2>3, <2>5 DEF Picks
  <2> QED
    BY <2>4, <2>5
<1>8. Tally(c0)'
  <2>1. Tally(c0) /\ outcomes[c0].ok \in Nat /\ outcomes[c0].error \in Nat
                 /\ requestsTotal[c0] \in Nat /\ errorsTotal[c0] \in Nat
    BY <1>0, <1>1 DEF FInv, TypeOK
  <2>2. Picks(c0, Unmetered) \in Nat /\ Picks(c0, Succeeded) \in Nat
    BY PickedFinite, TalliesFinite
  <2>3. requestsTotal'[c0] + errorsTotal'[c0] = Picks(c0, Answered)'
    BY <1>1, <1>5, <2>1 DEF Tally, Picks
  <2>4. outcomes'[c0].ok + outcomes'[c0].error
          = requestsTotal'[c0] + errorsTotal'[c0] + Picks(c0, Unmetered)'
    BY <1>1, <1>4, <1>6, <2>1, <2>2 DEF Tally
  <2>5. outcomes'[c0].ok = Picks(c0, Succeeded)'
    BY <1>4, <1>7, <2>1, <2>2 DEF Tally
  <2>6. \A m \in Modes : warm'[c0][m] <=> Picked(c0, Earned(m))' # {}
    BY <1>1, <1>5, <2>1 DEF Tally
  <2> QED
    BY <1>1, <2>3, <2>4, <2>5, <2>6 DEF Tally
<1>9. ASSUME NEW c \in Candidates, c # c0 PROVE Tally(c)'
  BY <1>1, <1>2, <1>4, <1>9, NotPicked DEF FInv, Tally, Picks
<1>10. \A c \in Candidates : Tally(c)'
  BY <1>8, <1>9
<1> QED
  BY <1>2, <1>3, <1>10, OthersStillTold DEF FInv

\* Metering an answer moves one request from the unmetered to the answered.
LEMMA MeterTold ==
  ASSUME FInv, IInv', NEW r \in Requests, MeterResponse(r) \/ MeterError(r)
  PROVE  FInv'
<1>0. TypeOK /\ Told(r) /\ pc[r] \in {"meter", "meterError"}
  BY DEF FInv, IInv, MeterResponse, MeterError, Goto
<1>b. PICK c0 \in Candidates : c0 = cand[r]
  BY <1>0 DEF Told, Chosen, Sent
<1> DEFINE metered == requestsTotal[c0] + errorsTotal[c0]
<1>1. /\ \/ pc[r] = "meter" /\ reply'[r] = "relayed"
         \/ pc[r] = "meterError" /\ reply'[r] = "badGateway"
      /\ pc'[r] = "done" /\ reply[r] = "none" /\ c0 = cand[r]
      /\ UNCHANGED <<cand, head, mode, out, warm, outcomes>>
  BY <1>0, <1>b DEF MeterResponse, MeterError, Goto, Answer, TypeOK, Told, stats
<1>2. OthersTold(r)
  BY <1>0, <1>1 DEF MeterResponse, MeterError, Goto, Answer, TypeOK, OthersTold
<1>3. Told(r)'
  BY <1>0, <1>1 DEF Told, Sent, Chosen
<1>4. /\ metered' = metered + 1
      /\ \A c \in Candidates :
           c # c0 => requestsTotal'[c] = requestsTotal[c] /\ errorsTotal'[c] = errorsTotal[c]
  <2>0. requestsTotal \in [Candidates -> Nat] /\ errorsTotal \in [Candidates -> Nat]
    BY <1>0 DEF TypeOK
  <2>1. CASE MeterResponse(r)
    <3>1. requestsTotal' = [requestsTotal EXCEPT ![c0] = @ + 1] /\ errorsTotal' = errorsTotal
      BY <1>1, <2>1 DEF MeterResponse
    <3> QED
      BY <3>1, <2>0, <1>1
  <2>2. CASE MeterError(r)
    <3>1. errorsTotal' = [errorsTotal EXCEPT ![c0] = @ + 1] /\ requestsTotal' = requestsTotal
      BY <1>1, <2>2 DEF MeterError
    <3> QED
      BY <3>1, <2>0, <1>1
  <2> QED
    BY <2>1, <2>2
<1>5. /\ Picked(c0, Succeeded)' = Picked(c0, Succeeded)
      /\ \A m : Picked(c0, Earned(m))' = Picked(c0, Earned(m))
  <2>1. Picked(c0, Succeeded)' = Picked(c0, Succeeded)
    BY <1>1, <1>2 DEF Picked, Succeeded, OthersTold
  <2>2. \A m : Picked(c0, Earned(m))' = Picked(c0, Earned(m))
    BY <1>1, <1>2 DEF Picked, Earned, OthersTold
  <2> QED
    BY <2>1, <2>2
<1>6. Picks(c0, Answered)' = Picks(c0, Answered) + 1
  <2>1. r \notin Picked(c0, Answered) /\ r \in Picked(c0, Answered)'
    BY <1>1 DEF Picked, Answered
  <2>2. \A s : s # r => (s \in Picked(c0, Answered) <=> s \in Picked(c0, Answered)')
    BY <1>1, <1>2 DEF Picked, Answered, OthersTold
  <2>3. IsFiniteSet(Picked(c0, Answered))
    BY PickedFinite, TalliesFinite
  <2> QED
    BY <2>1, <2>2, <2>3, OneMore DEF Picks
<1>7. Picks(c0, Unmetered)' = Picks(c0, Unmetered) - 1
  <2>1. r \in Picked(c0, Unmetered) /\ r \notin Picked(c0, Unmetered)'
    BY <1>1 DEF Picked, Unmetered
  <2>2. \A s : s # r => (s \in Picked(c0, Unmetered) <=> s \in Picked(c0, Unmetered)')
    BY <1>1, <1>2 DEF Picked, Unmetered, OthersTold
  <2>3. IsFiniteSet(Picked(c0, Unmetered))
    BY PickedFinite, TalliesFinite
  <2> QED
    BY <2>1, <2>2, <2>3, OneLess DEF Picks
<1>8. Tally(c0)'
  <2>1. Tally(c0) /\ metered \in Nat /\ outcomes[c0].ok \in Nat /\ outcomes[c0].error \in Nat
    BY <1>0, <1>1 DEF FInv, TypeOK
  <2>2. Picks(c0, Answered) \in Nat /\ Picks(c0, Unmetered) \in Nat
    BY PickedFinite, TalliesFinite
  <2>3. metered' = Picks(c0, Answered)'
    BY <1>4, <1>6, <2>1 DEF Tally
  <2>4. (outcomes[c0].ok + outcomes[c0].error)' = metered' + Picks(c0, Unmetered)'
    BY <1>1, <1>4, <1>7, <2>1, <2>2 DEF Tally
  <2>5. outcomes'[c0].ok = Picks(c0, Succeeded)'
    BY <1>1, <1>5, <2>1 DEF Tally, Picks
  <2>6. \A m \in Modes : warm'[c0][m] <=> Picked(c0, Earned(m))' # {}
    BY <1>1, <1>5, <2>1 DEF Tally
  <2> QED
    BY <1>1, <2>3, <2>4, <2>5, <2>6 DEF Tally
<1>9. ASSUME NEW c \in Candidates, c # c0 PROVE Tally(c)'
  BY <1>1, <1>2, <1>4, <1>9, NotPicked DEF FInv, Tally, Picks
<1>10. \A c \in Candidates : Tally(c)'
  BY <1>8, <1>9
<1> QED
  BY <1>2, <1>3, <1>10, OthersStillTold DEF FInv

-----------------------------------------------------------------------------

LEMMA AdvanceTold ==
  ASSUME FInv, IInv', NEW r \in Requests, Advance(r)
  PROVE  FInv'
<1>0. TypeOK /\ Told(r)
  BY DEF FInv, IInv
<1>1. CASE RejectBody(r) \/ NoneToSelect(r) \/ PrepareFails(r)
  BY <1>1, ReturnEarlySilent DEF RejectBody, NoneToSelect, PrepareFails, Buffering
<1>2. CASE Prepare(r) \/ DropRaw(r) \/ Send(r)
  <2>1. \A s \in Requests \ {r} : head'[s] = head[s] /\ out'[s] = out[s]
    BY <1>0, <1>2 DEF Prepare, DropRaw, Send, TypeOK
  <2>2. {"routed", "prepared", "forward", "awaitHead"} \subseteq Untold \cap Chosen
    BY DEF Untold, Chosen, Sent
  <2> QED
    BY <1>2, <2>1, <2>2, UntoldStep DEF Prepare, DropRaw, Send
<1>3. CASE AuthFails(r)
  <2>1. \A s \in Requests \ {r} : head'[s] = head[s] /\ out'[s] = out[s]
    BY <1>0, <1>3 DEF AuthFails, TypeOK
  <2>2. {"forward", "failed"} \subseteq Untold \cap Chosen
    BY DEF Untold, Chosen, Sent
  <2> QED
    BY <1>3, <2>1, <2>2, UntoldStep DEF AuthFails
<1>4. CASE Head(r)
  <2>1. \A s \in Requests \ {r} : head'[s] = head[s] /\ out'[s] = out[s]
    BY <1>0, <1>4 DEF Head, TypeOK
  <2>2. {"awaitHead", "firstChunk", "readBody"} \subseteq Untold \cap Chosen
    BY DEF Untold, Chosen, Sent
  <2>3. PICK there \in {"firstChunk", "readBody"} : Goto(r, "awaitHead", there)
    BY <1>4 DEF Head
  <2> QED
    BY <1>4, <2>1, <2>2, <2>3, UntoldStep DEF Head
<1>5. CASE SendFails(r) \/ ResponseFails(r) \/ FirstChunk(r) \/ BodyRead(r)
  <2>1. PICK here \in {"awaitHead", "firstChunk", "readBody"},
             there \in {"failed", AfterResponse(r)} : Move(r, here, there)
    BY <1>5 DEF SendFails, ResponseFails, FirstChunk, BodyRead
  <2>2. here \in Untold \cap Chosen /\ there \in Untold \cap Chosen
    BY DEF Untold, Chosen, Sent, AfterResponse
  <2>3. (there = "warming" => head[r] = "ok") /\ (there = "badStatus" => head[r] # "ok")
    BY DEF AfterResponse
  <2> QED
    BY <2>1, <2>2, <2>3, UntoldStep DEF Move
<1>6. CASE Route(r)
  BY <1>6, RouteSilent
<1>7. CASE RecordSuccess(r) \/ RecordBadStatus(r) \/ RecordFailure(r)
  BY <1>7, OutcomeTold DEF RecordSuccess, RecordBadStatus, RecordFailure
<1>8. CASE RecordLatency(r) \/ MeterResponse(r) \/ MeterError(r)
  BY <1>8, RecordLatencyTold, MeterTold
<1> QED
  BY <1>1, <1>2, <1>3, <1>4, <1>5, <1>6, <1>7, <1>8 DEF Advance

LEMMA NextFInv == FInv /\ [Next]_vars => FInv'
<1> SUFFICES ASSUME FInv, [Next]_vars PROVE FInv'
  OBVIOUS
<1>0. IInv' /\ TypeOK
  BY NextIInv DEF FInv, IInv
<1>1. ASSUME NEW r \in Requests, Arrive(r) PROVE FInv'
  BY <1>0, <1>1, RefuseSilent, ShedSilent, ReserveSilent
     DEF Arrive, RefuseUndeclared, RefuseTooLarge
<1>2. ASSUME NEW r \in Requests, BodyArrives(r) PROVE FInv'
  <2>1. {"reading", "collected"} \subseteq Untold /\ "collected" \notin Chosen
    BY DEF Untold, Chosen, Sent
  <2> QED
    BY <1>0, <1>2, <2>1, UntoldStep DEF BodyArrives, Move
<1>3. ASSUME NEW r \in Requests, BodyFails(r) PROVE FInv'
  BY <1>0, <1>3, ReturnEarlySilent DEF BodyFails, Buffering
<1>4. ASSUME NEW r \in Requests, UploadEnds(r) PROVE FInv'
  <2>1. \A s \in Requests : out'[s] = out[s] \/ out[s] = "wire"
    BY <1>0, <1>4 DEF UploadEnds, TypeOK
  <2> QED
    BY <1>0, <1>4, <2>1, SameTold DEF UploadEnds
<1>5. CASE Quiescent \/ UNCHANGED vars
  BY <1>0, <1>5, SameTold DEF Quiescent, vars, local
<1> QED
  BY <1>0, <1>1, <1>2, <1>3, <1>4, <1>5, AdvanceTold, DisconnectSilent DEF Next, ClientSends

LEMMA SpecFInv == Spec => []FInv
BY InitFInv, NextFInv, PTL DEF Spec

\* The tracker and the counters tell one story: every answer that named an
\* upstream is metered once, every outcome folded in belongs to a request
\* metered or about to be, only a 2xx read to its end is a success, and a
\* candidate is warm in exactly the modes of a 2xx
\* (server.rs handle_request, tracker.rs, metrics.rs).
THEOREM LifecycleFeedbackMatchesAnswers == Spec => []FeedbackMatchesAnswers
<1>1. FInv => FeedbackMatchesAnswers
  BY FInvTells
<1> QED
  BY <1>1, SpecFInv, PTL

-----------------------------------------------------------------------------
(* The request path implements the budget's contract, step by step. *)

stage == [r \in Requests |-> Stage(r)]

\* A live buffer holds a permit: the contract sees its request as admitted.
LEMMA StageOf ==
  ASSUME FInv, NEW r \in Requests
  PROVE  /\ permit[r] # {} <=> Alive(r)
         /\ pc[r] # "arrive" /\ reply[r] # "shed" /\ Alive(r) => Stage(r) = "admitted"
<1>0. TypeOK /\ Covered(r)
  BY DEF FInv, IInv
<1>1. len[r] \in Nat
  BY <1>0 DEF TypeOK
<1>2. Want(len[r]) # 0
  BY <1>1, WantPositive
<1>3. permit[r] # {} <=> Alive(r)
  BY <1>0, <1>2, FS_EmptySet DEF Covered
<1> QED
  BY <1>3 DEF Stage

\* The semaphore's permits are those the contract calls free.
LEMMA FreeIsFree ==
  ASSUME IInv
  PROVE  Budget!Free = free
<1>1. free \subseteq Permits /\ permit \in [Requests -> SUBSET Permits] /\ Owned
  BY DEF IInv, TypeOK
<1>2. Budget!Free = Permits \ UNION {permit[r] : r \in Requests}
  BY DEF Budget!Free
<1> QED
  BY <1>1, <1>2 DEF Owned

LEMMA InitImplements == Init => Budget!Init
<1> SUFFICES ASSUME Init PROVE Budget!Init
  OBVIOUS
<1>1. \A r \in Requests : Stage(r) = "new"
  BY DEF Init, Stage
<1> QED
  BY <1>1 DEF Init, Budget!Init

\* One step of r as the contract sees it: the stages of the others stay.
LEMMA OtherStages ==
  ASSUME FInv, NEW r \in Requests, NEW st,
         Stage(r)' = st,
         \A s \in Requests \ {r} :
           pc'[s] = pc[s] /\ reply'[s] = reply[s] /\ permit'[s] = permit[s]
  PROVE  stage' = [stage EXCEPT ![r] = st]
<1>1. \A s \in Requests \ {r} : Stage(s)' = Stage(s)
  BY DEF Stage
<1> QED
  BY <1>1 DEF stage

LEMMA Frame ==
  ASSUME IInv, NEW r \in Requests,
         Arrive(r) \/ ClientSends(r) \/ Advance(r) \/ UploadEnds(r) \/ Disconnect(r)
  PROVE  \A s \in Requests \ {r} :
           pc'[s] = pc[s] /\ reply'[s] = reply[s] /\ permit'[s] = permit[s]
<1>0. pc \in [Requests -> PCs] /\ reply \in [Requests -> Replies]
        /\ permit \in [Requests -> SUBSET Permits]
  BY DEF IInv, TypeOK
<1>1. CASE Arrive(r)
  BY <1>0, <1>1 DEF Arrive, RefuseUndeclared, RefuseTooLarge, Refuse, Shed, Reserve, Goto,
                    Answer, budget
<1>2. CASE ClientSends(r) \/ UploadEnds(r) \/ Disconnect(r)
  BY <1>0, <1>2 DEF ClientSends, BodyArrives, BodyFails, UploadEnds, Disconnect, Move,
                    ReturnEarly, Goto, Answer, Release, budget
<1>3. CASE Advance(r)
  BY <1>0, <1>3 DEF Advance, RejectBody, NoneToSelect, Route, PrepareFails, Prepare, DropRaw,
                    AuthFails, Send, SendFails, Head, FirstChunk, BodyRead, ResponseFails,
                    RecordLatency, RecordSuccess, RecordBadStatus, RecordFailure,
                    MeterResponse, MeterError, Move, ReturnEarly, Outcome, Goto, Answer,
                    Release, budget
<1> QED
  BY <1>1, <1>2, <1>3

\* A dropped permit is the contract's GiveBack.
LEMMA ReleaseImplements ==
  ASSUME FInv, FInv', NEW r \in Requests, Release(r), Alive(r), pc[r] # "arrive",
         reply[r] # "shed", pc'[r] # "arrive", reply'[r] # "shed",
         \A s \in Requests \ {r} :
           pc'[s] = pc[s] /\ reply'[s] = reply[s] /\ permit'[s] = permit[s]
  PROVE  Budget!GiveBack(r)
<1>0. permit \in [Requests -> SUBSET Permits]
  BY DEF FInv, IInv, TypeOK
<1>1. Stage(r) = "admitted"
  BY StageOf
<1>2. permit' = [permit EXCEPT ![r] = {}]
  BY DEF Release
<1>3. Stage(r)' = "over"
  BY <1>0, <1>2 DEF Stage
<1>4. stage' = [stage EXCEPT ![r] = "over"]
  BY <1>3, OtherStages
<1> QED
  BY <1>1, <1>2, <1>4 DEF Budget!GiveBack, stage

\* A step that keeps the permits, of a request that is past its arrival and
\* not shed, is a stutter.
LEMMA SameStages ==
  ASSUME FInv, FInv', NEW r \in Requests, pc[r] # "arrive", pc'[r] # "arrive",
         reply[r] # "shed", reply'[r] # "shed", UNCHANGED permit,
         \A s \in Requests \ {r} :
           pc'[s] = pc[s] /\ reply'[s] = reply[s] /\ permit'[s] = permit[s]
  PROVE  UNCHANGED Budget!vars
<1>1. Stage(r)' = Stage(r)
  BY DEF Stage
<1>2. stage' = [stage EXCEPT ![r] = Stage(r)]
  BY <1>1, OtherStages
<1>3. stage' = stage
  BY <1>2 DEF stage
<1> QED
  BY <1>3 DEF Budget!vars, stage

-----------------------------------------------------------------------------
\* The contract counts and computes as the request path does.
LEMMA SameCardinality == \A S : Budget!Cardinality(S) = Cardinality(S)
BY DEF Cardinality, Budget!Cardinality

LEMMA SameArithmetic ==
  /\ Budget!MaxBodyBytes = MaxBodyBytes
  /\ \A n \in Nat : Budget!Want(n) = Want(n)
<1>1. Budget!PermitCount = PermitCount
  BY DEF Budget!PermitCount, PermitCount
<1>2. Budget!MaxBodyBytes = MaxBodyBytes
  BY <1>1 DEF Budget!MaxBodyBytes, MaxBodyBytes
<1>3. \A n \in Nat : Budget!DivCeil(n) = DivCeil(n)
  BY DEF Budget!DivCeil, DivCeil
<1>4. \A n \in Nat : Budget!Want(n) = Want(n)
  BY <1>3 DEF Budget!Want, Want
<1> QED
  BY <1>2, <1>4

LEMMA ArriveImplements ==
  ASSUME FInv, FInv', NEW r \in Requests, Arrive(r)
  PROVE  Budget!Refuse(r) \/ Budget!Shed(r) \/ Budget!Admit(r)
<1>0. TypeOK /\ Owned /\ Shape(r) /\ Covered(r) /\ Told(r)
  BY DEF FInv, IInv
<1>f. \A s \in Requests \ {r} :
        pc'[s] = pc[s] /\ reply'[s] = reply[s] /\ permit'[s] = permit[s]
  BY Frame DEF FInv
<1>a. pc[r] = "arrive" /\ Stage(r) = "new" /\ permit[r] = {}
  <2>1. pc[r] = "arrive"
    BY DEF Arrive, RefuseUndeclared, RefuseTooLarge, Refuse, Shed, Reserve, Goto
  <2>2. ~Alive(r)
    BY <2>1, <1>0 DEF Shape, Alive
  <2>3. permit[r] = {}
    BY <2>2, <1>0 DEF Covered
  <2>4. Stage(r) = "new"
    BY <2>1, <2>3, <1>0 DEF Stage, Told
  <2> QED
    BY <2>1, <2>3, <2>4
<1>1. CASE Refuse(r)
  <2>1. pc'[r] = "done" /\ reply'[r] = "refused" /\ UNCHANGED permit
    BY <1>0, <1>1 DEF Refuse, Goto, Answer, TypeOK, budget
  <2>2. Stage(r)' = "over"
    BY <2>1, <1>a DEF Stage
  <2>3. stage' = [stage EXCEPT ![r] = "over"]
    BY <2>2, <1>f, OtherStages
  <2> QED
    BY <1>a, <2>1, <2>3 DEF Budget!Refuse, stage
<1>2. CASE Shed(r)
  <2>0. PICK n \in Declared : n <= MaxBodyBytes /\ Cardinality(free) < Want(n)
    BY <1>2 DEF Shed
  <2>1. pc'[r] = "done" /\ reply'[r] = "shed" /\ UNCHANGED permit
    BY <1>0, <1>2 DEF Shed, Goto, Answer, TypeOK, budget
  <2>2. Stage(r)' = "shed"
    BY <2>1, <1>a DEF Stage
  <2>3. stage' = [stage EXCEPT ![r] = "shed"]
    BY <2>2, <1>f, OtherStages
  <2>4. /\ n \in Lengths /\ n <= Budget!MaxBodyBytes
        /\ Budget!Cardinality(Budget!Free) < Budget!Want(n)
    BY <2>0, SameArithmetic, SameCardinality, FreeIsFree, LifecycleAssumption DEF Declared, FInv
  <2>5. \E k \in Lengths : k <= Budget!MaxBodyBytes /\ Budget!Cardinality(Budget!Free) < Budget!Want(k)
    BY <2>4
  <2>6. stage[r] = "new"
    BY <1>a DEF stage
  <2> QED
    BY <2>1, <2>3, <2>5, <2>6 DEF Budget!Shed, stage
<1>3. CASE Reserve(r)
  <2>0. PICK n \in Declared :
          /\ n <= MaxBodyBytes
          /\ \E P \in kSubset(Want(n), free) : permit' = [permit EXCEPT ![r] = P]
    BY <1>3 DEF Reserve
  <2>a. PICK P \in kSubset(Want(n), free) : permit' = [permit EXCEPT ![r] = P]
    BY <2>0
  <2>b. n \in Lengths /\ n \in Nat
    BY LifecycleAssumption DEF Declared
  <2>1. /\ pc'[r] = "reading" /\ reply'[r] = "none" /\ permit'[r] = P
    BY <1>0, <1>3, <1>a, <2>a DEF Reserve, Goto, TypeOK, Told
  <2>2. P # {}
    <3>1. Cardinality(P) = Want(n) /\ Want(n) # 0
      BY <2>b, WantPositive DEF kSubset
    <3> QED
      BY <3>1, FS_EmptySet
  <2>3. Stage(r)' = "admitted"
    BY <2>1, <2>2 DEF Stage
  <2>4. stage' = [stage EXCEPT ![r] = "admitted"]
    BY <2>3, <1>f, OtherStages
  <2>5. P \in Budget!kSubset(Budget!Want(n), Budget!Free) /\ n <= Budget!MaxBodyBytes
    <3>1. Budget!Want(n) = Want(n) /\ Budget!MaxBodyBytes = MaxBodyBytes
      BY <2>b, SameArithmetic
    <3>2. Budget!Free = free
      BY FreeIsFree DEF FInv
    <3>3. P \in SUBSET free /\ Cardinality(P) = Want(n)
      BY DEF kSubset
    <3> QED
      BY <2>0, <3>1, <3>2, <3>3, SameCardinality DEF Budget!kSubset
  <2> QED
    BY <1>a, <2>a, <2>b, <2>4, <2>5 DEF Budget!Admit, stage
<1> QED
  BY <1>1, <1>2, <1>3 DEF Arrive, RefuseUndeclared, RefuseTooLarge

\* After its admission a request keeps its permits or gives them back.
LEMMA LaterImplements ==
  ASSUME FInv, FInv', NEW r \in Requests,
         ClientSends(r) \/ Advance(r) \/ UploadEnds(r) \/ Disconnect(r)
  PROVE  Budget!GiveBack(r) \/ UNCHANGED Budget!vars
<1>0. TypeOK /\ Shape(r) /\ Covered(r) /\ Told(r)
  BY DEF FInv, IInv
<1>f. \A s \in Requests \ {r} :
        pc'[s] = pc[s] /\ reply'[s] = reply[s] /\ permit'[s] = permit[s]
  BY Frame DEF FInv
<1>1. ASSUME NEW here \in Buffering, NEW how \in Replies \ {"shed"}, ReturnEarly(r, here, how)
      PROVE  Budget!GiveBack(r)
  <2>1. Alive(r) /\ pc[r] # "arrive" /\ reply[r] # "shed" /\ pc'[r] # "arrive" /\ reply'[r] # "shed"
    BY <1>0, <1>1 DEF ReturnEarly, Goto, Answer, TypeOK, Shape, Told, Alive, Buffering
  <2> QED
    BY <1>1, <1>f, <2>1, ReleaseImplements DEF ReturnEarly
<1>2. CASE BodyFails(r) \/ RejectBody(r) \/ NoneToSelect(r) \/ PrepareFails(r)
  BY <1>1, <1>2 DEF BodyFails, RejectBody, NoneToSelect, PrepareFails, Buffering, Replies
<1>3. CASE AuthFails(r)
  <2>1. Alive(r) /\ pc[r] # "arrive" /\ reply[r] # "shed" /\ pc'[r] # "arrive" /\ reply'[r] # "shed"
    BY <1>0, <1>3 DEF AuthFails, Goto, TypeOK, Shape, Told, Alive
  <2> QED
    BY <1>3, <1>f, <2>1, ReleaseImplements DEF AuthFails
<1>4. CASE UploadEnds(r)
  <2>1. Alive(r) /\ pc[r] # "arrive" /\ reply[r] # "shed" /\ pc'[r] # "arrive" /\ reply'[r] # "shed"
    BY <1>0, <1>4 DEF UploadEnds, TypeOK, Shape, Told, Alive
  <2> QED
    BY <1>4, <1>f, <2>1, ReleaseImplements DEF UploadEnds
<1>5. CASE Disconnect(r)
  <2>1. /\ pc[r] # "arrive" /\ pc'[r] = "done" /\ reply[r] # "shed" /\ reply'[r] = "gone"
    BY <1>0, <1>5 DEF Disconnect, AtAwait, Answer, TypeOK, Told
  <2>2. CASE UNCHANGED permit
    BY <1>f, <2>1, <2>2, SameStages
  <2>3. CASE Release(r) /\ permit[r] = {}
    <3>1. UNCHANGED permit
      BY <1>0, <2>3 DEF Release, TypeOK
    <3> QED
      BY <1>f, <2>1, <3>1, SameStages
  <2>4. CASE Release(r) /\ permit[r] # {}
    <3>1. Alive(r)
      BY <2>4, StageOf
    <3> QED
      BY <1>f, <2>1, <2>4, <3>1, ReleaseImplements
  <2> QED
    BY <1>5, <2>2, <2>3, <2>4 DEF Disconnect, budget
<1>6. CASE \/ BodyArrives(r) \/ Route(r) \/ Prepare(r) \/ DropRaw(r) \/ Send(r) \/ SendFails(r)
           \/ Head(r) \/ FirstChunk(r) \/ BodyRead(r) \/ ResponseFails(r) \/ RecordLatency(r)
           \/ RecordSuccess(r) \/ RecordBadStatus(r) \/ RecordFailure(r)
           \/ MeterResponse(r) \/ MeterError(r)
  <2>1. UNCHANGED permit /\ pc[r] # "arrive" /\ pc[r] # "done"
    BY <1>6 DEF BodyArrives, Route, Prepare, DropRaw, Send, SendFails, Head, FirstChunk,
                BodyRead, ResponseFails, RecordLatency, RecordSuccess, RecordBadStatus,
                RecordFailure, MeterResponse, MeterError, Move, Outcome, Goto, budget
  <2>2. pc'[r] # "arrive" /\ reply'[r] # "shed"
    BY <1>0, <1>6, <2>1
       DEF BodyArrives, Route, Prepare, DropRaw, Send, SendFails, Head, FirstChunk,
           BodyRead, ResponseFails, RecordLatency, RecordSuccess, RecordBadStatus,
           RecordFailure, MeterResponse, MeterError, Move, Outcome, Goto, Answer,
           AfterResponse, TypeOK, Told
  <2> QED
    BY <1>0, <1>f, <2>1, <2>2, SameStages DEF Told
<1> QED
  BY <1>2, <1>3, <1>4, <1>5, <1>6 DEF ClientSends, Advance

LEMMA NextImplements == FInv /\ FInv' /\ [Next]_vars => [Budget!Next]_(Budget!vars)
<1> SUFFICES ASSUME FInv, FInv', [Next]_vars PROVE [Budget!Next]_(Budget!vars)
  OBVIOUS
<1>1. CASE Quiescent \/ UNCHANGED vars
  <2>1. UNCHANGED <<pc, reply, permit>>
    BY <1>1 DEF Quiescent, vars, local, budget
  <2> QED
    BY <2>1 DEF Budget!vars, Stage
<1>2. ASSUME NEW r \in Requests, Arrive(r) PROVE Budget!Next
  BY <1>2, ArriveImplements DEF Budget!Next
<1>3. ASSUME NEW r \in Requests,
             ClientSends(r) \/ Advance(r) \/ UploadEnds(r) \/ Disconnect(r)
      PROVE  [Budget!Next]_(Budget!vars)
  BY <1>3, LaterImplements DEF Budget!Next
<1> QED
  BY <1>1, <1>2, <1>3 DEF Next

\* The whole request path takes only the steps the budget's contract allows:
\* a request is refused, shed, or given at once all it asks for, and gives it
\* back once (server.rs BufferBudget against handle_request).
THEOREM LifecycleImplementsAdmission == Spec => Budget!Safety
<1>1. Init => Budget!Init
  BY InitImplements
<1>2. FInv /\ FInv' /\ [Next]_vars => [Budget!Next]_(Budget!vars)
  BY NextImplements
<1> QED
  BY <1>1, <1>2, SpecFInv, PTL DEF Spec, Budget!Safety
=============================================================================
