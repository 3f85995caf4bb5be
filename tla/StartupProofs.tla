--------------------------- MODULE StartupProofs ----------------------------
(***************************************************************************)
(* Whatever configurations and hosts the process is started with: what     *)
(* from_config, the budget and the rest of main leave behind when the      *)
(* process serves.                                                         *)
(***************************************************************************)
EXTENDS Startup, FiniteSetTheorems, SequenceTheorems, TLAPS

-----------------------------------------------------------------------------
(* The inductive invariant *)

\* The candidates of the configuration, and what from_config makes of them.
Listed == UNION {ToSet(config.model[a]) : a \in Aliases}

Pairs == {Pair(c) : c \in Listed}

Entry(c, n) ==
  [provider |-> c.provider, model |-> c.model, kind |-> Kind(config.provider[c.provider]),
   slot |-> n, optIn |-> OptsIn(config.provider[c.provider])]

Entries == {Entry(c, n) : c \in Listed, n \in Nat}

\* What the process was started with has the types of its fields.
Given ==
  /\ host \in [version : {"none", "v1", "v2"}, limit : Nat \cup {NoLimit}]
  /\ config.buffered \in {NoLimit} \cup 0 .. MaxUsize
  /\ config.maxBody \in Nat
  /\ \A a \in Aliases : config.model[a] \in Seq(ToSet(config.model[a]))
  /\ \A p \in Providers : config.provider[p].headers \in Seq(ToSet(config.provider[p].headers))

Stages == {"load", "map", "gcp", "budget", "metrics", "bind", "serving", "parsing", "sent", "failed"}

\* from_config's tables.
Tables ==
  /\ todo \subseteq Aliases
  /\ doing = {} \/ \E a \in todo : doing = {a}
  /\ DOMAIN map \subseteq Aliases
  /\ \A a \in DOMAIN map : map[a] \in Seq(Entries)
  /\ resolved \in Seq(Entries)
  /\ slots \in Seq(Pairs)

\* The slots are the pairs of the candidates resolved so far, each once.
Slotted ==
  /\ IsInjective(slots)
  /\ \A c \in Candidates : c.slot \in DOMAIN slots /\ slots[c.slot] = Pair(c)
  /\ \A n \in DOMAIN slots : \E c \in Candidates : c.slot = n

\* The series of the candidates of the map.
SeriesOfMap == UNION {{<<a, c.provider, c.model>> : c \in ToSet(map[a])} : a \in DOMAIN map}

\* What the stages before this one have done.
Progress ==
  /\ pc \in Stages
  /\ why \in {"running", "invalid", "name", "bind"}
  /\ pc = "load" => DOMAIN map = {}
  /\ pc \notin {"load", "failed"} => Valid /\ DOMAIN map = Aliases \ todo
  /\ pc \notin {"load", "failed", "map"} => todo = {} /\ counters = Aliases
  /\ pc \notin {"load", "failed", "map", "gcp"} => (gcp <=> NeedsGcp)
  /\ pc \notin {"load", "failed", "map", "gcp", "budget"} => budget = BudgetBytes
  /\ pc \in {"bind", "serving", "parsing", "sent"} => series = SeriesOfMap
  /\ counters \subseteq Aliases /\ gcp \in BOOLEAN /\ budget \in 0 .. MaxUsize

StartInv == Given /\ Tables /\ Slotted /\ Progress

-----------------------------------------------------------------------------
(* Lemmas about the operators *)

\* Registering keeps the slots that are there, and yields one for the pair.
LEMMA RegisterFinds ==
  ASSUME NEW S, NEW known \in Seq(S), NEW c, Pair(c) \in S, IsInjective(known)
  PROVE  /\ Register(known, c) \in Seq(S)
         /\ IsInjective(Register(known, c))
         /\ \A n \in DOMAIN known :
              n \in DOMAIN Register(known, c) /\ Register(known, c)[n] = known[n]
         /\ SlotOf(known, c) \in DOMAIN Register(known, c)
         /\ Register(known, c)[SlotOf(known, c)] = Pair(c)
         /\ \A n \in DOMAIN Register(known, c) : n \in DOMAIN known \/ n = SlotOf(known, c)
<1> DEFINE r == Register(known, c)
           s == SlotOf(known, c)
           q == Pair(c)
<1>1. CASE q \in ToSet(known)
  <2>1. r = known
    BY <1>1 DEF Register
  <2>2. s = CHOOSE n \in DOMAIN known : known[n] = q
    BY <2>1 DEF SlotOf
  <2>3. \E n \in DOMAIN known : known[n] = q
    BY <1>1 DEF ToSet
  <2>4. s \in DOMAIN known /\ known[s] = q
    BY <2>2, <2>3
  <2> QED
    BY <2>1, <2>4
<1>2. CASE q \notin ToSet(known)
  <2>1. r = Append(known, q)
    BY <1>2 DEF Register
  <2> HIDE DEF q
  <2>2. /\ r \in Seq(S) /\ Len(r) = Len(known) + 1
        /\ DOMAIN known = 1 .. Len(known) /\ DOMAIN r = 1 .. Len(known) + 1
        /\ Len(known) \in Nat
        /\ \A n \in DOMAIN known : r[n] = known[n]
        /\ r[Len(known) + 1] = q
    BY <2>1 DEF q
  <2>3. r # known
    BY <2>2
  <2>4. s = Len(known) + 1
    BY <2>3 DEF SlotOf
  <2>5. \A n \in DOMAIN known : known[n] # q
    BY <1>2 DEF ToSet
  <2>6. IsInjective(r)
    <3> SUFFICES ASSUME NEW m \in DOMAIN r, NEW n \in DOMAIN r, r[m] = r[n] PROVE m = n
      BY DEF IsInjective
    <3> HIDE DEF r
    <3>1. \A x \in DOMAIN r : x \in DOMAIN known \/ x = Len(known) + 1
      BY <2>2
    <3>2. CASE m \in DOMAIN known /\ n \in DOMAIN known
      BY <3>2, <2>2 DEF IsInjective
    <3>3. CASE m = Len(known) + 1 /\ n \in DOMAIN known
      BY <3>3, <2>2, <2>5
    <3>4. CASE n = Len(known) + 1 /\ m \in DOMAIN known
      BY <3>4, <2>2, <2>5
    <3> QED
      BY <3>1, <3>2, <3>3, <3>4
  <2> HIDE DEF r, s
  <2>7. /\ s \in DOMAIN r /\ r[s] = q
        /\ \A n \in DOMAIN known : n \in DOMAIN r
        /\ \A n \in DOMAIN r : n \in DOMAIN known \/ n = s
    BY <2>2, <2>4
  <2> QED
    BY <2>2, <2>6, <2>7 DEF r, s, q
<1> QED
  BY <1>1, <1>2

\* What resolving a candidate yields is an entry of it.
LEMMA ResolvedIsEntry ==
  ASSUME NEW c PROVE Resolved(c) = Entry(c, SlotOf(slots, c))
BY DEF Resolved, Entry

\* The only refusal a valid configuration can meet is that of a name.
LEMMA ValidRefusals ==
  ASSUME Valid, NEW a \in Aliases, NEW c \in ToSet(config.model[a])
  PROVE  Refusal(c) \in {"none", "name"}
<1>1. c.provider \in Providers
  BY DEF Valid, ProviderKnown
<1>2. ProviderOk(config.provider[c.provider])
  BY <1>1 DEF Valid
<1> QED
  BY <1>1, <1>2 DEF ProviderOk, Refusal

\* The budget is a number of bytes, and half of a limit at most.
LEMMA BudgetInRange ==
  ASSUME Given
  PROVE  /\ BudgetBytes \in 0 .. MaxUsize
         /\ config.buffered = NoLimit /\ DetectedLimit # NoLimit => 2 * BudgetBytes <= DetectedLimit
<1> USE StartupAssumption DEF NoLimit
<1>1. DetectedLimit \in Nat \cup {NoLimit}
  <2>1. host.version \in {"none", "v1", "v2"} /\ host.limit \in Nat \cup {NoLimit}
    BY DEF Given
  <2>2. CASE host.version = "v2"
    BY <2>1, <2>2 DEF DetectedLimit
  <2>3. CASE host.version = "v1"
    BY <2>1, <2>3 DEF DetectedLimit
  <2>4. CASE host.version = "none"
    BY <2>1, <2>4 DEF DetectedLimit
  <2> QED
    BY <2>1, <2>2, <2>3, <2>4
<1>2. config.buffered \in {NoLimit} \cup 0 .. MaxUsize /\ config.maxBody \in Nat
  BY DEF Given
<1>3. MaxUsize \in Nat
  OBVIOUS
<1>4. ASSUME NEW l \in Nat PROVE Saturated(l \div 2) \in 0 .. MaxUsize /\ 2 * Saturated(l \div 2) <= l
  <2>1. l \div 2 \in Nat /\ 2 * (l \div 2) <= l
    BY <1>4, SMT
  <2> DEFINE h == l \div 2
  <2> HIDE DEF h
  <2>2. h \in Nat /\ 2 * h <= l
    BY <2>1 DEF h
  <2>3. Saturated(h) \in 0 .. MaxUsize /\ 2 * Saturated(h) <= l
    BY <2>2, <1>3, <1>4 DEF Saturated
  <2> QED
    BY <2>3 DEF h
<1>5. Saturated(4 * config.maxBody) \in 0 .. MaxUsize
  BY <1>2, <1>3 DEF Saturated
<1> QED
  BY <1>1, <1>2, <1>3, <1>4, <1>5 DEF BudgetBytes

-----------------------------------------------------------------------------
(* The invariant holds *)

\* The configuration and the host stay, and all that is computed from them.
LEMMA GivenStays ==
  ASSUME config' = config, host' = host
  PROVE  /\ Aliases' = Aliases /\ Pairs' = Pairs /\ Entries' = Entries
         /\ Given => Given'
         /\ Valid' <=> Valid
         /\ NeedsGcp' <=> NeedsGcp
         /\ BudgetBytes' = BudgetBytes
<1>1. Aliases' = Aliases /\ Providers' = Providers
  BY DEF Aliases, Providers
<1>2. Listed' = Listed
  BY <1>1 DEF Listed
<1>3. Pairs' = Pairs
  BY <1>2 DEF Pairs
<1>4. Entries' = Entries
  BY <1>2 DEF Entries, Entry
<1>5. Given => Given'
  BY <1>1 DEF Given
<1>6. Valid' <=> Valid
  BY <1>1 DEF Valid, ProviderKnown
<1>7. NeedsGcp' <=> NeedsGcp
  BY <1>1 DEF NeedsGcp
<1>8. BudgetBytes' = BudgetBytes
  BY DEF BudgetBytes, DetectedLimit
<1> QED
  BY <1>1, <1>3, <1>4, <1>5, <1>6, <1>7, <1>8

\* main starts with nothing built.
LEMMA StartInvInit == Init => StartInv
<1> SUFFICES ASSUME Init PROVE StartInv
  OBVIOUS
<1> USE DEF Init
<1>1. Given
  BY StartupAssumption DEF Given, Aliases, Providers
<1>2. Tables
  BY DEF Tables
<1>3. Slotted
  BY DEF Slotted, Candidates, ToSet, IsInjective
<1>4. Progress
  <2>1. DOMAIN map = {}
    OBVIOUS
  <2>2. 0 \in 0 .. MaxUsize
    BY StartupAssumption
  <2> QED
    BY <2>1, <2>2 DEF Progress, Stages
<1> QED
  BY <1>1, <1>2, <1>3, <1>4 DEF StartInv

\* A stage that leaves the tables alone keeps what is said of them.
LEMMA TablesStay ==
  ASSUME StartInv, config' = config, host' = host, UNCHANGED <<local, map, slots>>
  PROVE  /\ Given' /\ Tables' /\ Slotted'
         /\ Aliases' = Aliases /\ DOMAIN map' = DOMAIN map /\ SeriesOfMap' = SeriesOfMap
         /\ Valid' <=> Valid
         /\ NeedsGcp' <=> NeedsGcp
         /\ BudgetBytes' = BudgetBytes
<1> USE DEF StartInv, local
<1>1. Given'
  BY GivenStays
<1>2. Tables'
  BY GivenStays DEF Tables
<1>3. Candidates' = Candidates
  BY DEF Candidates
<1>4. Slotted'
  BY <1>3 DEF Slotted, Pair
<1>5. SeriesOfMap' = SeriesOfMap
  BY DEF SeriesOfMap
<1>6. DOMAIN map' = DOMAIN map
  OBVIOUS
<1> QED
  BY <1>1, <1>2, <1>4, <1>5, <1>6, GivenStays

\* Giving up, for a reason a valid configuration leaves.
LEMMA GiveUpKeeps ==
  ASSUME StartInv, NEW reason \in {"invalid", "name", "bind"}, GiveUp(reason)
  PROVE  StartInv'
<1> USE DEF GiveUp, built
<1>1. /\ Given' /\ Tables' /\ Slotted'
      /\ Aliases' = Aliases /\ DOMAIN map' = DOMAIN map /\ SeriesOfMap' = SeriesOfMap
      /\ Valid' <=> Valid
      /\ NeedsGcp' <=> NeedsGcp
      /\ BudgetBytes' = BudgetBytes
  BY TablesStay
<1>2. Progress'
  BY GivenStays DEF StartInv, Progress, Stages, SeriesOfMap
<1> QED
  BY <1>1, <1>2 DEF StartInv

\* What Load lets through is valid, and from_config is given every alias.
LEMMA LoadKeeps ==
  ASSUME StartInv, Load
  PROVE  StartInv'
<1>1. CASE ~Valid
  BY <1>1, GiveUpKeeps DEF Load
<1>2. CASE Valid
  <2>1. /\ pc = "load" /\ pc' = "map" /\ todo' = Aliases
        /\ UNCHANGED <<config, host, why, doing, resolved, built, request>>
    BY <1>2 DEF Load
  <2>2. Given' /\ Aliases' = Aliases /\ Pairs' = Pairs /\ Entries' = Entries
    BY <2>1, GivenStays DEF StartInv
  <2>3. Tables'
    BY <2>1, <2>2 DEF StartInv, Tables, built
  <2>4. Candidates' = Candidates
    BY <2>1 DEF Candidates, built
  <2>5. Slotted'
    BY <2>1, <2>4 DEF StartInv, Slotted, Pair, built
  <2>6. Progress'
    BY <1>2, <2>1, <2>2, GivenStays DEF StartInv, Progress, Stages, SeriesOfMap, built
  <2> QED
    BY <2>2, <2>3, <2>5, <2>6 DEF StartInv
<1> QED
  BY <1>1, <1>2

\* One alias at a time.
LEMMA BeginAliasKeeps ==
  ASSUME StartInv, NEW a \in todo, BeginAlias(a)
  PROVE  StartInv'
<1> USE DEF BeginAlias, built
<1>1. Given' /\ Aliases' = Aliases /\ Pairs' = Pairs /\ Entries' = Entries
  BY GivenStays DEF StartInv
<1>2. Tables'
  BY <1>1 DEF StartInv, Tables
<1>3. Candidates' = Candidates
  BY DEF Candidates
<1>4. Slotted'
  BY <1>3 DEF StartInv, Slotted, Pair
<1>5. Progress'
  BY <1>1, GivenStays DEF StartInv, Progress, Stages, SeriesOfMap
<1> QED
  BY <1>1, <1>2, <1>4, <1>5 DEF StartInv

\* The candidate's slot is the one its pair has, or a new one.
LEMMA ResolveCandidateKeeps ==
  ASSUME StartInv, NEW a \in todo, ResolveCandidate(a)
  PROVE  StartInv'
<1> DEFINE c == config.model[a][Len(resolved) + 1]
           e == Resolved(c)
<1>1. /\ pc = "map" /\ a \in doing /\ Len(resolved) < Len(config.model[a])
      /\ a \in Aliases /\ resolved \in Seq(Entries) /\ slots \in Seq(Pairs)
      /\ config.model[a] \in Seq(ToSet(config.model[a])) /\ Valid
  BY DEF ResolveCandidate, StartInv, Tables, Progress, Given
<1>2. Len(resolved) + 1 \in DOMAIN config.model[a]
  BY <1>1
<1>3. c \in ToSet(config.model[a]) /\ c \in Listed
  BY <1>1, <1>2 DEF ToSet, Listed
<1>4. Refusal(c) \in {"none", "name"}
  BY <1>1, <1>3, ValidRefusals
<1> HIDE DEF c, e
<1>5. CASE Refusal(c) = "name"
  <2>1. GiveUp("name")
    BY <1>5 DEF ResolveCandidate, c
  <2> QED
    BY <2>1, GiveUpKeeps
<1>6. CASE Refusal(c) = "none"
  <2>1. /\ slots' = Register(slots, c)
        /\ resolved' = Append(resolved, e)
        /\ UNCHANGED <<config, host, pc, why, todo, doing, map, counters, gcp, budget, series, request>>
    BY <1>6 DEF ResolveCandidate, c, e
  <2>2. Given' /\ Aliases' = Aliases /\ Pairs' = Pairs /\ Entries' = Entries
    BY <2>1, GivenStays DEF StartInv
  <2>3. Pair(c) \in Pairs
    BY <1>3 DEF Pairs
  <2>4. IsInjective(slots)
    BY DEF StartInv, Slotted
  <2>5. /\ slots' \in Seq(Pairs) /\ IsInjective(slots')
        /\ \A n \in DOMAIN slots : n \in DOMAIN slots' /\ slots'[n] = slots[n]
        /\ SlotOf(slots, c) \in DOMAIN slots' /\ slots'[SlotOf(slots, c)] = Pair(c)
        /\ \A n \in DOMAIN slots' : n \in DOMAIN slots \/ n = SlotOf(slots, c)
    BY <1>1, <2>1, <2>3, <2>4, RegisterFinds
  <2>6. SlotOf(slots, c) \in Nat
    BY <2>5
  <2>7. e \in Entries
    BY <1>3, <2>6, ResolvedIsEntry DEF Entries, e
  <2>8. e.slot = SlotOf(slots, c) /\ Pair(e) = Pair(c)
    BY DEF e, Resolved, Pair
  <2>9. Tables'
    <3>1. resolved' \in Seq(Entries)
      BY <1>1, <2>1, <2>7
    <3> QED
      BY <2>1, <2>2, <2>5, <3>1 DEF StartInv, Tables
  <2>10. Candidates' = Candidates \cup {e}
    <3>1. /\ DOMAIN resolved = 1 .. Len(resolved) /\ DOMAIN resolved' = 1 .. Len(resolved) + 1
          /\ Len(resolved) \in Nat
          /\ \A n \in DOMAIN resolved : resolved'[n] = resolved[n]
          /\ resolved'[Len(resolved) + 1] = e
      BY <1>1, <2>1, <2>7
    <3>2. DOMAIN resolved' = DOMAIN resolved \cup {Len(resolved) + 1}
      BY <3>1
    <3>3. ToSet(resolved') = ToSet(resolved) \cup {e}
      BY <3>1, <3>2, Zenon DEF ToSet
    <3> DEFINE M == UNION {ToSet(map[x]) : x \in DOMAIN map}
    <3>4. M' = M
      BY <2>1
    <3> HIDE DEF M
    <3>5. Candidates = M \cup ToSet(resolved) /\ Candidates' = M' \cup ToSet(resolved')
      BY Zenon DEF Candidates, M
    <3> QED
      BY <3>3, <3>4, <3>5
  <2>11. Slotted'
    <3>1. \A d \in Candidates' : d.slot \in DOMAIN slots' /\ slots'[d.slot] = Pair(d)
      BY <2>5, <2>8, <2>10 DEF StartInv, Slotted
    <3>2. \A n \in DOMAIN slots' : \E d \in Candidates' : d.slot = n
      BY <2>5, <2>8, <2>10 DEF StartInv, Slotted
    <3> QED
      BY <2>5, <3>1, <3>2 DEF Slotted, Pair
  <2>12. Progress'
    BY <2>1, <2>2, GivenStays, <1>1 DEF StartInv, Progress, Stages, SeriesOfMap
  <2> QED
    BY <2>2, <2>9, <2>11, <2>12 DEF StartInv
<1> QED
  BY <1>4, <1>5, <1>6

\* The candidates move from the alias being resolved to the map.
LEMMA InsertAliasKeeps ==
  ASSUME StartInv, NEW a \in todo, InsertAlias(a)
  PROVE  StartInv'
<1>1. /\ pc = "map" /\ a \in Aliases /\ a \notin DOMAIN map
      /\ DOMAIN map = Aliases \ todo /\ resolved \in Seq(Entries)
      /\ todo \subseteq Aliases /\ doing = {a}
  BY DEF InsertAlias, StartInv, Tables, Progress
<1>2. /\ map' = [x \in DOMAIN map \cup {a} |-> IF x = a THEN resolved ELSE map[x]]
      /\ todo' = todo \ {a} /\ doing' = {} /\ resolved' = <<>>
      /\ UNCHANGED <<config, host, pc, why, slots, counters, gcp, budget, series, request>>
  BY DEF InsertAlias
<1>3. Given' /\ Aliases' = Aliases /\ Pairs' = Pairs /\ Entries' = Entries
  BY <1>2, GivenStays DEF StartInv
<1>4. DOMAIN map' = Aliases \ todo' /\ DOMAIN map' = DOMAIN map \cup {a}
  BY <1>1, <1>2
<1>5. map'[a] = resolved /\ \A x \in DOMAIN map : map'[x] = map[x]
  BY <1>1, <1>2
<1>6. Tables'
  BY <1>1, <1>2, <1>3, <1>4, <1>5 DEF StartInv, Tables
<1>7. Candidates' = Candidates
  <2>1. ToSet(resolved') = {}
    BY <1>2 DEF ToSet
  <2>2. ASSUME NEW c
        PROVE  (\E x \in DOMAIN map' : c \in ToSet(map'[x]))
                 <=> (\E x \in DOMAIN map : c \in ToSet(map[x])) \/ c \in ToSet(resolved)
    BY <1>4, <1>5
  <2>3. ASSUME NEW c PROVE c \in Candidates' <=> c \in Candidates
    <3>1. c \in Candidates <=> (\E x \in DOMAIN map : c \in ToSet(map[x])) \/ c \in ToSet(resolved)
      BY Zenon DEF Candidates
    <3>2. c \in Candidates' <=> (\E x \in DOMAIN map' : c \in ToSet(map'[x])) \/ c \in ToSet(resolved')
      BY Zenon DEF Candidates
    <3> QED
      BY <3>1, <3>2, <2>1, <2>2
  <2> QED
    BY <2>3
<1>8. Slotted'
  BY <1>2, <1>7 DEF StartInv, Slotted, Pair
<1>9. Progress'
  BY <1>1, <1>2, <1>3, <1>4, GivenStays DEF StartInv, Progress, Stages, SeriesOfMap
<1> QED
  BY <1>3, <1>6, <1>8, <1>9 DEF StartInv

\* Every alias is in the map by now.
LEMMA RegisterAliasesKeeps ==
  ASSUME StartInv, RegisterAliases
  PROVE  StartInv'
<1> USE DEF RegisterAliases
<1>1. /\ Given' /\ Tables' /\ Slotted'
      /\ Aliases' = Aliases /\ DOMAIN map' = DOMAIN map /\ SeriesOfMap' = SeriesOfMap
      /\ Valid' <=> Valid
      /\ NeedsGcp' <=> NeedsGcp
      /\ BudgetBytes' = BudgetBytes
  BY TablesStay
<1>2. Progress'
  BY <1>1 DEF StartInv, Progress, Stages, local
<1> QED
  BY <1>1, <1>2 DEF StartInv

\* The token provider is there exactly when a provider needs one.
LEMMA EnableGcpKeeps ==
  ASSUME StartInv, EnableGcp
  PROVE  StartInv'
<1> USE DEF EnableGcp
<1>1. /\ Given' /\ Tables' /\ Slotted'
      /\ Aliases' = Aliases /\ DOMAIN map' = DOMAIN map /\ SeriesOfMap' = SeriesOfMap
      /\ Valid' <=> Valid
      /\ NeedsGcp' <=> NeedsGcp
      /\ BudgetBytes' = BudgetBytes
  BY TablesStay
<1>2. gcp' \in BOOLEAN /\ (gcp' <=> NeedsGcp)
  BY DEF NeedsGcp
<1>3. Progress'
  BY <1>1, <1>2 DEF StartInv, Progress, Stages, local
<1> QED
  BY <1>1, <1>3 DEF StartInv

\* The budget is what the configuration and the host make it.
LEMMA ResolveBudgetKeeps ==
  ASSUME StartInv, ResolveBudget
  PROVE  StartInv'
<1> USE DEF ResolveBudget
<1>1. /\ Given' /\ Tables' /\ Slotted'
      /\ Aliases' = Aliases /\ DOMAIN map' = DOMAIN map /\ SeriesOfMap' = SeriesOfMap
      /\ Valid' <=> Valid
      /\ NeedsGcp' <=> NeedsGcp
      /\ BudgetBytes' = BudgetBytes
  BY TablesStay
<1>2. BudgetBytes \in 0 .. MaxUsize
  BY BudgetInRange DEF StartInv
<1>3. Progress'
  BY <1>1, <1>2 DEF StartInv, Progress, Stages, local
<1> QED
  BY <1>1, <1>3 DEF StartInv

\* The series are those of the candidates in the map.
LEMMA InitZeroKeeps ==
  ASSUME StartInv, InitZero
  PROVE  StartInv'
<1>0. /\ pc = "metrics" /\ series' = SeriesOfMap /\ pc' = "bind"
      /\ UNCHANGED <<config, host, why, local, map, slots, counters, gcp, budget, request>>
  BY DEF InitZero, SeriesOfMap
<1>1. /\ Given' /\ Tables' /\ Slotted'
      /\ Aliases' = Aliases /\ DOMAIN map' = DOMAIN map /\ SeriesOfMap' = SeriesOfMap
      /\ Valid' <=> Valid
      /\ NeedsGcp' <=> NeedsGcp
      /\ BudgetBytes' = BudgetBytes
  BY <1>0, TablesStay
<1>2. Progress'
  BY <1>0, <1>1 DEF StartInv, Progress, Stages, local
<1> QED
  BY <1>1, <1>2 DEF StartInv

\* The process serves, or the address is taken.
LEMMA BindKeeps ==
  ASSUME StartInv, Bind
  PROVE  StartInv'
<1>1. CASE GiveUp("bind")
  BY <1>1, GiveUpKeeps
<1>2. CASE pc = "bind" /\ pc' = "serving" /\ UNCHANGED <<config, host, why, local, built, request>>
  <2> USE <1>2 DEF local, built
  <2>1. /\ Given' /\ Tables' /\ Slotted'
        /\ Aliases' = Aliases /\ DOMAIN map' = DOMAIN map /\ SeriesOfMap' = SeriesOfMap
        /\ Valid' <=> Valid
        /\ NeedsGcp' <=> NeedsGcp
        /\ BudgetBytes' = BudgetBytes
    BY TablesStay
  <2>2. Progress'
    BY <2>1 DEF StartInv, Progress, Stages
  <2> QED
    BY <2>1, <2>2 DEF StartInv
<1> QED
  BY <1>1, <1>2 DEF Bind

\* Requests, and a process that has stopped, change nothing of what was built.
LEMMA RestKeeps ==
  ASSUME StartInv, UNCHANGED <<config, host, why, local, built>>,
         pc' = pc \/ (pc \in {"serving", "parsing"} /\ pc' \in {"parsing", "sent"})
  PROVE  StartInv'
<1> USE DEF local, built
<1>1. /\ Given' /\ Tables' /\ Slotted'
      /\ Aliases' = Aliases /\ DOMAIN map' = DOMAIN map /\ SeriesOfMap' = SeriesOfMap
      /\ Valid' <=> Valid
      /\ NeedsGcp' <=> NeedsGcp
      /\ BudgetBytes' = BudgetBytes
  BY TablesStay
<1>2. Progress'
  BY <1>1 DEF StartInv, Progress, Stages
<1> QED
  BY <1>1, <1>2 DEF StartInv

\* No step of the start breaks it.
LEMMA StartInvStep == StartInv /\ [Next]_vars => StartInv'
<1> SUFFICES ASSUME StartInv, [Next]_vars PROVE StartInv'
  OBVIOUS
<1>1. CASE Load
  BY <1>1, LoadKeeps
<1>2. CASE \E a \in todo : BeginAlias(a) \/ ResolveCandidate(a) \/ InsertAlias(a)
  BY <1>2, BeginAliasKeeps, ResolveCandidateKeeps, InsertAliasKeeps
<1>3. CASE RegisterAliases
  BY <1>3, RegisterAliasesKeeps
<1>4. CASE EnableGcp
  BY <1>4, EnableGcpKeeps
<1>5. CASE ResolveBudget
  BY <1>5, ResolveBudgetKeeps
<1>6. CASE InitZero
  BY <1>6, InitZeroKeeps
<1>7. CASE Bind
  BY <1>7, BindKeeps
<1>8. CASE Arrive \/ ReadField \/ \E a \in DOMAIN map : \E n \in DOMAIN map[a] : Forward(a, n)
  BY <1>8, RestKeeps DEF Arrive, ReadField, Forward
<1>9. CASE UNCHANGED vars
  <2>1. pc' = pc /\ UNCHANGED <<config, host, why, local, built>>
    BY <1>9 DEF vars, local, built
  <2> QED
    BY <2>1, RestKeeps
<1>10. CASE Stopped
  BY <1>9, <1>10 DEF Stopped
<1> QED
  BY Zenon, <1>1, <1>2, <1>3, <1>4, <1>5, <1>6, <1>7, <1>8, <1>9, <1>10 DEF Next

\* So it holds always.
LEMMA StartInvAlways == Spec => []StartInv
<1>1. Init => StartInv
  BY StartInvInit
<1>2. StartInv /\ [Next]_vars => StartInv'
  BY StartInvStep
<1> QED
  BY <1>1, <1>2, PTL DEF Spec

-----------------------------------------------------------------------------
(* What follows *)

\* Every variable has its type: the slots are pairwise different pairs, the
\* budget fits a usize, and from_config is at one alias at a time.
THEOREM StartupTypeCorrect == Spec => []TypeOK
<1>1. StartInv => TypeOK
  <2> SUFFICES ASSUME StartInv PROVE TypeOK
    OBVIOUS
  <2>1. doing \subseteq todo /\ Cardinality(doing) <= 1
    <3>1. doing = {} \/ \E a \in todo : doing = {a}
      BY DEF StartInv, Tables
    <3>2. \A a : Cardinality({a}) = 1
      BY FS_Singleton
    <3>3. Cardinality({}) = 0
      BY FS_EmptySet
    <3>4. CASE doing = {}
      BY <3>3, <3>4
    <3>5. ASSUME NEW a \in todo, doing = {a} PROVE doing \subseteq todo /\ Cardinality(doing) <= 1
      <4>1. Cardinality(doing) = 1
        BY <3>5, <3>2
      <4> QED
        BY <3>5, <4>1
    <3> QED
      BY <3>1, <3>4, <3>5
  <2>2. todo \subseteq Aliases /\ DOMAIN map \subseteq Aliases /\ IsInjective(slots)
    BY DEF StartInv, Tables, Slotted
  <2>3. /\ pc \in Stages /\ why \in {"running", "invalid", "name", "bind"}
        /\ counters \subseteq Aliases /\ gcp \in BOOLEAN /\ budget \in 0 .. MaxUsize
    BY DEF StartInv, Progress
  <2>4. host \in [version : {"none", "v1", "v2"}, limit : Nat \cup {NoLimit}]
    BY DEF StartInv, Given
  <2> QED
    BY <2>1, <2>2, <2>3, <2>4 DEF TypeOK, Stages
<1> QED
  BY <1>1, StartInvAlways, PTL

\* In whatever order the HashMap gives the aliases, and after every candidate
\* of theirs: candidates share a slot of the tracker exactly when they are the
\* same provider and model, and no slot is without a candidate.
THEOREM StartupSlotsFollowPairs == Spec => []SlotsFollowPairs
<1>1. StartInv => SlotsFollowPairs
  <2> SUFFICES ASSUME StartInv PROVE SlotsFollowPairs
    OBVIOUS
  <2>1. \A c \in Candidates : c.slot \in DOMAIN slots /\ slots[c.slot] = Pair(c)
    BY DEF StartInv, Slotted
  <2>2. \A c, d \in Candidates : (c.slot = d.slot) <=> (Pair(c) = Pair(d))
    BY <2>1 DEF StartInv, Slotted, IsInjective
  <2>3. \A n \in DOMAIN slots : \E c \in Candidates : c.slot = n
    BY DEF StartInv, Slotted
  <2>4. {c.slot : c \in Candidates} = DOMAIN slots
    BY <2>1, <2>3, Zenon
  <2> QED
    BY <2>2, <2>4 DEF SlotsFollowPairs
<1> QED
  BY <1>1, StartInvAlways, PTL

\* A process that serves has what the request path takes for granted: a
\* counter for every alias, an error series for every candidate, a token
\* provider where one needs it, and labels where they are merged.
THEOREM StartupServesEveryCandidate == Spec => []ServesEveryCandidate
<1>1. StartInv => ServesEveryCandidate
  <2> SUFFICES ASSUME StartInv, Serving PROVE
        /\ DOMAIN map = Aliases /\ counters = Aliases
        /\ \A a \in Aliases : \A c \in ToSet(map[a]) :
             /\ <<a, c.provider, c.model>> \in series
             /\ c.kind = "GcpAdc" => gcp
             /\ c.optIn => config.attribution # <<>>
    BY DEF ServesEveryCandidate
  <2>1. /\ DOMAIN map = Aliases /\ counters = Aliases /\ Valid
        /\ series = SeriesOfMap /\ (gcp <=> NeedsGcp)
    BY DEF StartInv, Progress, Serving
  <2>2. ASSUME NEW a \in Aliases, NEW c \in ToSet(map[a])
        PROVE  /\ <<a, c.provider, c.model>> \in series
               /\ c.kind = "GcpAdc" => gcp
               /\ c.optIn => config.attribution # <<>>
    <3>1. <<a, c.provider, c.model>> \in series
      BY <2>1, <2>2 DEF SeriesOfMap
    <3>2. map[a] \in Seq(Entries)
      BY <2>1 DEF StartInv, Tables
    <3>3. c \in Entries
      BY <2>2, <3>2 DEF ToSet
    <3>4. PICK d \in Listed, n \in Nat : c = Entry(d, n)
      BY <3>3 DEF Entries
    <3>5. d.provider \in Providers
      BY <2>1 DEF Listed, Valid, ProviderKnown
    <3>6. c.kind = Kind(config.provider[d.provider]) /\ c.optIn = OptsIn(config.provider[d.provider])
      BY <3>4 DEF Entry
    <3>7. c.kind = "GcpAdc" => gcp
      BY <2>1, <3>5, <3>6 DEF NeedsGcp
    <3>8. c.optIn => config.attribution # <<>>
      BY <2>1, <3>5, <3>6 DEF Valid
    <3> QED
      BY <3>1, <3>7, <3>8
  <2> QED
    BY <2>1, <2>2
<1> QED
  BY <1>1, StartInvAlways, PTL

\* from_config finds nothing wrong with what validate accepted, but for a name
\* that no header can carry.
THEOREM StartupAcceptedMeansResolvable == Spec => []AcceptedMeansResolvable
<1>1. StartInv => AcceptedMeansResolvable
  BY DEF StartInv, Progress, AcceptedMeansResolvable
<1> QED
  BY <1>1, StartInvAlways, PTL

\* The default budget is at most half of what the cgroup gives, whichever of
\* the two versions says it, and whatever has to saturate on the way.
THEOREM StartupBudgetWithinHost == Spec => []BudgetWithinHost
<1>1. StartInv => BudgetWithinHost
  <2> SUFFICES ASSUME StartInv, Serving, config.buffered = NoLimit, host.version # "none",
                      host.limit \in 0 .. Unbounded - 1
               PROVE  2 * budget <= host.limit
    BY DEF BudgetWithinHost
  <2>1. budget = BudgetBytes
    BY DEF StartInv, Progress, Serving
  <2>2. host.version \in {"v1", "v2"}
    BY DEF StartInv, Given
  <2>3. host.limit \in Nat /\ host.limit < Unbounded
    BY StartupAssumption
  <2>4. host.limit # NoLimit
    BY <2>3 DEF NoLimit
  <2>5. DetectedLimit = host.limit
    BY <2>2, <2>3, <2>4 DEF DetectedLimit
  <2> QED
    BY <2>1, <2>4, <2>5, BudgetInRange DEF StartInv
<1> QED
  BY <1>1, StartInvAlways, PTL

-----------------------------------------------------------------------------
(* RawBody's operators *)

Pool(K, V) == [key : K, val : V]

\* A sequence over a set is one over a larger set.
LEMMA SeqWidens ==
  ASSUME NEW S, NEW T, S \subseteq T, NEW s \in Seq(S)
  PROVE  s \in Seq(T)
<1>1. s \in [1 .. Len(s) -> S] /\ Len(s) \in Nat
  OBVIOUS
<1>2. s \in [1 .. Len(s) -> T]
  BY <1>1
<1> QED
  BY <1>1, <1>2, SeqDef

\* A raw body has each of its keys once.
Distinct(b) == \A p, q \in DOMAIN b : b[p].key = b[q].key => p = q

\* A key is found where it is.
LEMMA FirstFinds ==
  ASSUME NEW S, NEW b \in Seq(S), Distinct(b), NEW p \in DOMAIN b
  PROVE  First(b, b[p].key) = p
<1> DEFINE k == b[p].key
           Q(n) == b[n].key = k /\ \A m \in DOMAIN b : b[m].key = k => n <= m
<1>1. \A n \in DOMAIN b : b[n].key = k => n = p
  BY DEF Distinct
<1>2. p \in Nat
  OBVIOUS
<1>3. Q(p)
  BY <1>1, <1>2
<1>4. \A n \in DOMAIN b : Q(n) => n = p
  BY <1>1
<1>5. First(b, k) = CHOOSE n \in DOMAIN b : Q(n)
  BY DEF First
<1> HIDE DEF k, Q
<1>6. First(b, k) = p
  BY <1>3, <1>4, <1>5
<1> QED
  BY <1>6 DEF k

\* s is b with v under k: every key keeps its place, no other value changes,
\* and a key that is new comes at the end.
SetTo(b, k, v, s) ==
  /\ \A p \in DOMAIN b : /\ p \in DOMAIN s /\ s[p].key = b[p].key
                         /\ s[p].val = IF b[p].key = k THEN v ELSE b[p].val
  /\ \A p \in DOMAIN s : \/ p \in DOMAIN b
                         \/ /\ p = Len(b) + 1 /\ k \notin Keys(b)
                            /\ s[p].key = k /\ s[p].val = v
  /\ k \in Keys(s)

\* That is what RawBody::set makes of a raw body.
LEMMA SetFieldYields ==
  ASSUME NEW K, NEW V, NEW b \in Seq(Pool(K, V)), Distinct(b), NEW k \in K, NEW v \in V,
         NEW s, s = SetField(b, k, v)
  PROVE  s \in Seq(Pool(K, V)) /\ Distinct(s) /\ SetTo(b, k, v, s)
<1>0. /\ DOMAIN b = 1 .. Len(b) /\ Len(b) \in Nat
      /\ \A p \in DOMAIN b : b[p] \in Pool(K, V)
  OBVIOUS
<1>1. CASE k \in Keys(b)
  <2>1. PICK f \in DOMAIN b : b[f].key = k
    BY <1>1 DEF Keys
  <2>2. First(b, k) = f
    BY <2>1, FirstFinds
  <2>3. s = [b EXCEPT ![f].val = v]
    BY <1>1, <2>2 DEF SetField
  <2>4. DOMAIN s = DOMAIN b /\ Len(s) = Len(b)
    BY <2>3, <1>0
  <2>5. s[f] = [b[f] EXCEPT !.val = v] /\ \A p \in DOMAIN b : p # f => s[p] = b[p]
    BY <2>3, <2>1
  <2>6. s[f] \in Pool(K, V) /\ s[f].key = k /\ s[f].val = v
    BY <2>5, <2>1, <1>0 DEF Pool
  <2>7. s \in Seq(Pool(K, V))
    <3>1. \A p \in DOMAIN b : s[p] \in Pool(K, V)
      BY <2>5, <2>6, <1>0
    <3>2. s \in [1 .. Len(b) -> Pool(K, V)]
      BY <2>3, <2>4, <3>1, <1>0
    <3> QED
      BY <3>2, <1>0, SeqDef
  <2>8. \A p \in DOMAIN b : b[p].key = k => p = f
    BY <2>1 DEF Distinct
  <2>9. \A p \in DOMAIN b : /\ p \in DOMAIN s /\ s[p].key = b[p].key
                            /\ s[p].val = IF b[p].key = k THEN v ELSE b[p].val
    BY <2>1, <2>4, <2>5, <2>6, <2>8
  <2>10. Distinct(s)
    BY <2>4, <2>9 DEF Distinct
  <2>11. k \in Keys(s)
    BY <2>1, <2>4, <2>6 DEF Keys
  <2> QED
    BY <2>4, <2>7, <2>9, <2>10, <2>11 DEF SetTo
<1>2. CASE k \notin Keys(b)
  <2> DEFINE e == Field(k, v)
  <2>1. e \in Pool(K, V) /\ e.key = k /\ e.val = v
    BY DEF Pool, Field
  <2>2. s = Append(b, e)
    BY <1>2 DEF SetField
  <2> HIDE DEF e
  <2>3. /\ s \in Seq(Pool(K, V)) /\ DOMAIN s = 1 .. Len(b) + 1
        /\ \A p \in DOMAIN b : s[p] = b[p]
        /\ s[Len(b) + 1] = e
    BY <2>1, <2>2
  <2>4. \A p \in DOMAIN s : p \in DOMAIN b \/ p = Len(b) + 1
    BY <2>3, <1>0
  <2>5. \A p \in DOMAIN b : b[p].key # k
    BY <1>2 DEF Keys
  <2>6. \A p \in DOMAIN b : /\ p \in DOMAIN s /\ s[p].key = b[p].key
                            /\ s[p].val = IF b[p].key = k THEN v ELSE b[p].val
    BY <2>3, <2>5, <1>0
  <2>7. \A p \in DOMAIN s : \/ p \in DOMAIN b
                            \/ /\ p = Len(b) + 1 /\ k \notin Keys(b)
                               /\ s[p].key = k /\ s[p].val = v
    BY <1>2, <2>1, <2>3, <2>4
  <2>8. Distinct(s)
    BY <2>5, <2>6, <2>7 DEF Distinct
  <2>9. Len(b) + 1 \in DOMAIN s
    BY <2>3, <1>0
  <2>10. k \in Keys(s)
    BY <2>1, <2>3, <2>9 DEF Keys
  <2> QED
    BY <2>3, <2>6, <2>7, <2>8, <2>10 DEF SetTo
<1> QED
  BY <1>1, <1>2

\* Two lists without repetitions and nothing in common make one without.
LEMMA ConcatInjective ==
  ASSUME NEW S, NEW s \in Seq(S), NEW t \in Seq(S), IsInjective(s), IsInjective(t),
         ToSet(s) \cap ToSet(t) = {}
  PROVE  /\ s \o t \in Seq(S) /\ IsInjective(s \o t)
         /\ ToSet(s \o t) = ToSet(s) \cup ToSet(t)
<1> DEFINE r == s \o t
<1>1. /\ r \in Seq(S) /\ DOMAIN r = 1 .. Len(s) + Len(t)
      /\ Len(s) \in Nat /\ Len(t) \in Nat
      /\ DOMAIN s = 1 .. Len(s) /\ DOMAIN t = 1 .. Len(t)
      /\ \A n \in DOMAIN r : r[n] = IF n <= Len(s) THEN s[n] ELSE t[n - Len(s)]
  OBVIOUS
<1> HIDE DEF r
<1>2. ASSUME NEW n \in DOMAIN r
      PROVE  \/ n \in DOMAIN s /\ r[n] = s[n]
             \/ n - Len(s) \in DOMAIN t /\ r[n] = t[n - Len(s)]
  BY <1>1
<1>3. \A m \in DOMAIN s, n \in DOMAIN t : s[m] # t[n]
  BY DEF ToSet
<1>4. IsInjective(r)
  <2> SUFFICES ASSUME NEW m \in DOMAIN r, NEW n \in DOMAIN r, r[m] = r[n] PROVE m = n
    BY DEF IsInjective
  <2>1. CASE m \in DOMAIN s /\ r[m] = s[m] /\ n \in DOMAIN s /\ r[n] = s[n]
    BY <2>1 DEF IsInjective
  <2>2. CASE /\ m - Len(s) \in DOMAIN t /\ r[m] = t[m - Len(s)]
             /\ n - Len(s) \in DOMAIN t /\ r[n] = t[n - Len(s)]
    <3>1. m - Len(s) = n - Len(s)
      BY <2>2 DEF IsInjective
    <3>2. m \in Int /\ n \in Int
      BY <1>1
    <3> QED
      BY <3>1, <3>2, <1>1
  <2> QED
    BY <1>2, <1>3, <2>1, <2>2
<1>5. ToSet(r) = ToSet(s) \cup ToSet(t)
  <2>1. \A n \in DOMAIN s : n \in DOMAIN r /\ r[n] = s[n]
    BY <1>1
  <2>2. \A n \in DOMAIN t : n + Len(s) \in DOMAIN r /\ r[n + Len(s)] = t[n]
    BY <1>1
  <2> QED
    BY <1>2, <2>1, <2>2 DEF ToSet
<1> QED
  BY <1>1, <1>4, <1>5 DEF r

\* A list of one has no repetitions.
LEMMA SingleInjective ==
  ASSUME NEW S, NEW h \in S
  PROVE  <<h>> \in Seq(S) /\ IsInjective(<<h>>) /\ ToSet(<<h>>) = {h}
<1> DEFINE s == <<h>>
<1>1. s \in Seq(S) /\ Len(s) = 1 /\ s[1] = h
  OBVIOUS
<1> HIDE DEF s
<1>2. DOMAIN s = {1}
  BY <1>1
<1>3. IsInjective(s)
  BY <1>2 DEF IsInjective
<1>4. ToSet(s) = {h}
  BY <1>2, <1>1 DEF ToSet
<1> QED
  BY <1>1, <1>3, <1>4 DEF s

\* Nor has the empty one.
LEMMA EmptyInjective ==
  ASSUME NEW S
  PROVE  <<>> \in Seq(S) /\ IsInjective(<<>>) /\ ToSet(<<>>) = {}
BY DEF IsInjective, ToSet

\* No header that goes upstream is there twice.
LEMMA HeadersOnce ==
  ASSUME StartInv, Serving, NEW a \in DOMAIN map, NEW n \in DOMAIN map[a]
  PROVE  IsInjective(OutboundHeaders(map[a][n]))
<1> DEFINE c == map[a][n]
<1>1. Valid
  BY DEF StartInv, Progress, Serving
<1>2. c \in Entries
  BY DEF StartInv, Tables
<1>3. PICK d \in Listed, k \in Nat : c = Entry(d, k)
  BY <1>2 DEF Entries
<1>4. d.provider \in Providers
  BY <1>1 DEF Listed, Valid, ProviderKnown
<1> DEFINE p == config.provider[d.provider]
<1>5. c.kind = Kind(p) /\ c.provider = d.provider
  BY <1>3 DEF Entry
<1>6. HeadersOk(p) /\ p.headers \in Seq(ToSet(p.headers))
  BY <1>1, <1>4 DEF Valid, ProviderOk, StartInv, Given
<1> DEFINE cred == Credential(c.kind, p.key)
           first == <<"content-type">>
           H == ToSet(p.headers) \cup Reserved
<1>7. /\ cred \in Seq(H) /\ IsInjective(cred)
      /\ ToSet(cred) \subseteq {"authorization", "api-key", "x-api-key", "anthropic-version"}
  <2>1. c.kind \in {"ApiKey", "GcpAdc", "AzureOpenAi", "Anthropic"}
    BY <1>5 DEF Kind
  <2>2. \A h \in {"authorization", "api-key", "x-api-key", "anthropic-version"} :
          <<h>> \in Seq(H) /\ IsInjective(<<h>>) /\ ToSet(<<h>>) = {h}
    <3>1. {"authorization", "api-key", "x-api-key", "anthropic-version"} \subseteq H
      BY DEF Reserved
    <3> QED
      BY <3>1, SingleInjective, Zenon
  <2>3. CASE c.kind = "ApiKey"
    BY <2>3, <2>2, EmptyInjective DEF Credential
  <2>4. CASE c.kind = "GcpAdc"
    BY <2>4, <2>2 DEF Credential
  <2>5. CASE c.kind = "AzureOpenAi"
    BY <2>5, <2>2, EmptyInjective DEF Credential
  <2>6. CASE c.kind = "Anthropic"
    <3> DEFINE key == IF p.key THEN <<"x-api-key">> ELSE <<>>
               version == <<"anthropic-version">>
    <3>1. cred = key \o version
      BY <2>6 DEF Credential
    <3>2. key \in Seq(H) /\ IsInjective(key) /\ ToSet(key) \subseteq {"x-api-key"}
      BY <2>2, EmptyInjective
    <3>3. version \in Seq(H) /\ IsInjective(version) /\ ToSet(version) = {"anthropic-version"}
      BY <2>2, Zenon
    <3> HIDE DEF key, version, cred
    <3>4. ToSet(key) \cap ToSet(version) = {}
      BY <3>2, <3>3
    <3>5. /\ key \o version \in Seq(H) /\ IsInjective(key \o version)
          /\ ToSet(key \o version) = ToSet(key) \cup ToSet(version)
      BY <3>2, <3>3, <3>4, ConcatInjective
    <3> QED
      BY <3>1, <3>2, <3>3, <3>5
  <2> QED
    BY <2>1, <2>3, <2>4, <2>5, <2>6
<1>8. first \in Seq(H) /\ IsInjective(first) /\ ToSet(first) = {"content-type"}
  <2>1. "content-type" \in H
    BY DEF Reserved
  <2> QED
    BY <2>1, SingleInjective, Zenon
<1>9. OutboundHeaders(c) = first \o cred \o p.headers
  BY <1>5 DEF OutboundHeaders
<1> HIDE DEF c, p, cred, first
<1>10. p.headers \in Seq(H)
  <2>1. ToSet(p.headers) \subseteq H
    OBVIOUS
  <2> QED
    BY <1>6, <2>1, SeqWidens
<1> HIDE DEF H
<1>11. /\ first \o cred \in Seq(H) /\ IsInjective(first \o cred)
       /\ ToSet(first \o cred) = ToSet(first) \cup ToSet(cred)
  <2>1. ToSet(first) \cap ToSet(cred) = {}
    BY <1>7, <1>8
  <2> QED
    BY <1>7, <1>8, <2>1, ConcatInjective
<1>12. ToSet(first \o cred) \cap ToSet(p.headers) = {}
  <2>1. ToSet(first \o cred) \subseteq Reserved
    BY <1>7, <1>8, <1>11 DEF Reserved
  <2> QED
    BY <2>1, <1>6 DEF HeadersOk
<1>13. IsInjective(p.headers)
  BY <1>6 DEF HeadersOk
<1>14. IsInjective((first \o cred) \o p.headers)
  BY <1>10, <1>11, <1>12, <1>13, ConcatInjective
<1> QED
  BY <1>9, <1>14 DEF c

-----------------------------------------------------------------------------
(* The body *)

\* The key comes at n for the first time; at n for the last time so far.
FirstCome(n, k) == input[n].key = k /\ \A m \in 1 .. n - 1 : input[m].key # k
LastCome(n, k) == input[n].key = k /\ \A m \in n + 1 .. read : input[m].key # k

\* The body made of the fields read: each of their keys once, in the order in
\* which the keys first came, with the value that came last.
Parsed ==
  /\ input \in Seq(FieldsOf(input)) /\ read \in 0 .. Len(input)
  /\ body \in Seq(FieldsOf(input)) /\ Distinct(body)
  /\ \A n \in 1 .. read : input[n].key \in Keys(body)
  /\ \A p \in DOMAIN body :
       /\ \E n \in 1 .. read : FirstCome(n, body[p].key)
       /\ \E n \in 1 .. read : LastCome(n, body[p].key) /\ input[n].val = body[p].val
  /\ \A p, q \in DOMAIN body : \A m, n \in 1 .. read :
       p < q /\ FirstCome(m, body[p].key) /\ FirstCome(n, body[q].key) => m < n

\* Before there is a request there is no body.
LEMMA ParsedInit == Init => Parsed
<1> SUFFICES ASSUME Init PROVE Parsed
  OBVIOUS
<1>1. input = <<>> /\ read = 0 /\ body = <<>>
  BY DEF Init
<1>2. DOMAIN body = {} /\ 1 .. read = {} /\ Len(input) = 0
  BY <1>1
<1>3. input \in Seq(FieldsOf(input)) /\ body \in Seq(FieldsOf(input))
  BY <1>1
<1> QED
  BY <1>1, <1>2, <1>3 DEF Parsed, Distinct

\* It is about the request alone.
LEMMA ParsedStays ==
  ASSUME Parsed, UNCHANGED <<input, read, body>>
  PROVE  Parsed'
<1>1. Keys(body)' = Keys(body) /\ FieldsOf(input)' = FieldsOf(input)
  BY DEF Keys, Vals, FieldsOf
<1>2. /\ input' \in Seq(FieldsOf(input)') /\ read' \in 0 .. Len(input')
      /\ body' \in Seq(FieldsOf(input)') /\ Distinct(body)'
      /\ \A n \in 1 .. read' : input'[n].key \in Keys(body)'
  BY <1>1 DEF Parsed, Distinct
<1>3. \A p \in DOMAIN body' :
        /\ \E n \in 1 .. read' : FirstCome(n, body[p].key)'
        /\ \E n \in 1 .. read' : LastCome(n, body[p].key)' /\ input'[n].val = body'[p].val
  BY DEF Parsed, FirstCome, LastCome
<1>4. \A p, q \in DOMAIN body' : \A m, n \in 1 .. read' :
        p < q /\ FirstCome(m, body[p].key)' /\ FirstCome(n, body[q].key)' => m < n
  <2> SUFFICES ASSUME NEW p \in DOMAIN body, NEW q \in DOMAIN body,
                      NEW m \in 1 .. read, NEW n \in 1 .. read, p < q,
                      FirstCome(m, body[p].key)', FirstCome(n, body[q].key)'
               PROVE  m < n
    OBVIOUS
  <2>1. FirstCome(m, body[p].key) /\ FirstCome(n, body[q].key)
    BY DEF FirstCome
  <2> QED
    BY <2>1 DEF Parsed
<1> QED
  BY <1>2, <1>3, <1>4 DEF Parsed

\* A body of which nothing is read is empty.
LEMMA ArriveParses ==
  ASSUME Arrive
  PROVE  Parsed'
<1>1. input' \in Inputs /\ read' = 0 /\ body' = <<>>
  BY DEF Arrive
<1>2. input' \in Seq(FieldsOf(input'))
  BY <1>1, StartupAssumption
<1>3. FieldsOf(input)' = FieldsOf(input')
  BY DEF FieldsOf, Keys, Vals
<1>4. DOMAIN body' = {} /\ 1 .. read' = {} /\ body' \in Seq(FieldsOf(input'))
  BY <1>1
<1>5. read' \in 0 .. Len(input')
  BY <1>1, <1>2
<1> QED
  BY <1>1, <1>2, <1>3, <1>4, <1>5 DEF Parsed, Distinct

\* The field that is read takes the place its key has, or the last one, and
\* every other field is what it was.
LEMMA ReadFieldParses ==
  ASSUME Parsed, ReadField
  PROVE  Parsed'
<1> DEFINE k == input[read + 1].key
           v == input[read + 1].val
           next == read + 1
           K == Keys(input)
           V == Vals(input)
           LastNow(n, x) == input[n].key = x /\ \A m \in n + 1 .. next : input[m].key # x
<1>1. /\ read < Len(input) /\ read' = next /\ input' = input
      /\ body' = SetField(body, k, v)
  BY DEF ReadField
<1>2. /\ input \in Seq(Pool(K, V)) /\ read \in Nat /\ next \in DOMAIN input
      /\ next \in 1 .. Len(input) /\ body \in Seq(Pool(K, V)) /\ Distinct(body)
  BY <1>1 DEF Parsed, FieldsOf, Pool
<1>3. k \in K /\ v \in V
  BY <1>2 DEF Keys, Vals
<1> HIDE DEF k, v, K, V, LastNow
<1>4. /\ body' \in Seq(Pool(K, V)) /\ Distinct(body')
      /\ \A p \in DOMAIN body : /\ p \in DOMAIN body' /\ body'[p].key = body[p].key
                                /\ body'[p].val = IF body[p].key = k THEN v ELSE body[p].val
      /\ \A p \in DOMAIN body' : \/ p \in DOMAIN body
                                 \/ /\ p = Len(body) + 1 /\ k \notin Keys(body)
                                    /\ body'[p].key = k /\ body'[p].val = v
      /\ k \in Keys(body')
  <2>1. body' \in Seq(Pool(K, V)) /\ Distinct(body') /\ SetTo(body, k, v, body')
    BY <1>1, <1>2, <1>3, SetFieldYields
  <2> QED
    BY <2>1 DEF SetTo
<1>5. \A n \in 1 .. read : input[n].key \in Keys(body)
  BY DEF Parsed
<1>6. \A n \in 1 .. next : n \in 1 .. read \/ n = next
  BY <1>2
<1>7. 1 .. read \subseteq 1 .. next /\ next \in 1 .. next
  BY <1>2
<1>8. input[next].key = k /\ input[next].val = v
  BY DEF k, v
<1>9. \A n \in 1 .. next : input[n].key \in Keys(body')
  BY <1>4, <1>5, <1>6, <1>8 DEF Keys
<1>10. \A n, x : FirstCome(n, x)' <=> FirstCome(n, x)
  BY <1>1 DEF FirstCome
<1>11. k \notin Keys(body) => FirstCome(next, k)
  BY <1>2, <1>5, <1>8 DEF FirstCome
<1>12. ASSUME NEW p \in DOMAIN body'
       PROVE  \E n \in 1 .. next : FirstCome(n, body'[p].key)
  <2>1. CASE p \in DOMAIN body
    <3>1. PICK n \in 1 .. read : FirstCome(n, body[p].key)
      BY <2>1 DEF Parsed
    <3> QED
      BY <2>1, <3>1, <1>4, <1>7
  <2>2. CASE k \notin Keys(body) /\ body'[p].key = k
    BY <2>2, <1>7, <1>11
  <2> QED
    BY <2>1, <2>2, <1>4
<1>13. ASSUME NEW p \in DOMAIN body'
       PROVE  \E n \in 1 .. next : LastNow(n, body'[p].key) /\ input[n].val = body'[p].val
  <2>1. CASE body'[p].key = k
    <3>1. body'[p].val = v
      BY <2>1, <1>4
    <3>2. LastNow(next, k)
      BY <1>2, <1>8 DEF LastNow
    <3> QED
      BY <2>1, <3>1, <3>2, <1>7, <1>8
  <2>2. CASE body'[p].key # k
    <3>1. p \in DOMAIN body /\ body'[p].key = body[p].key /\ body'[p].val = body[p].val
      BY <2>2, <1>4
    <3>2. PICK n \in 1 .. read : LastCome(n, body[p].key) /\ input[n].val = body[p].val
      BY <3>1 DEF Parsed
    <3>3. LastNow(n, body[p].key)
      <4>1. \A m \in n + 1 .. next : m \in n + 1 .. read \/ m = next
        BY <1>2
      <4>2. input[n].key = body[p].key /\ \A m \in n + 1 .. read : input[m].key # body[p].key
        BY <3>2 DEF LastCome
      <4> QED
        BY <4>1, <4>2, <3>1, <2>2, <1>8 DEF LastNow
    <3> QED
      BY <3>1, <3>2, <3>3, <1>7
  <2> QED
    BY <2>1, <2>2
<1>14. ASSUME NEW p \in DOMAIN body', NEW q \in DOMAIN body', NEW m \in 1 .. next, NEW n \in 1 .. next,
              p < q, FirstCome(m, body'[p].key), FirstCome(n, body'[q].key)
       PROVE  m < n
  <2>1. DOMAIN body = 1 .. Len(body) /\ Len(body) \in Nat /\ DOMAIN body' \subseteq Nat
    BY <1>2, <1>4
  <2>2. p \in DOMAIN body
    BY <1>14, <1>4, <2>1
  <2>3. body'[p].key = body[p].key /\ body[p].key \in Keys(body)
    BY <2>2, <1>4 DEF Keys
  <2>4. m \in 1 .. read
    <3>1. PICK f \in 1 .. read : FirstCome(f, body[p].key)
      BY <2>2 DEF Parsed
    <3>2. CASE m = next
      <4>1. f \in 1 .. m - 1 /\ input[f].key = body[p].key
        BY <3>1, <3>2, <1>2 DEF FirstCome
      <4> QED
        BY <4>1, <1>14, <2>3 DEF FirstCome
    <3> QED
      BY <3>2, <1>6
  <2>5. CASE q \in DOMAIN body
    <3>1. body'[q].key = body[q].key
      BY <2>5, <1>4
    <3>2. CASE n = next
      BY <3>2, <2>4, <1>2
    <3>3. CASE n \in 1 .. read
      BY <3>1, <3>3, <2>2, <2>3, <2>4, <2>5, <1>14 DEF Parsed
    <3> QED
      BY <3>2, <3>3, <1>6
  <2>6. CASE k \notin Keys(body) /\ body'[q].key = k
    <3>1. n \notin 1 .. read
      <4>1. input[n].key = k
        BY <2>6, <1>14 DEF FirstCome
      <4> QED
        BY <4>1, <2>6, <1>5
    <3>2. n = next
      BY <3>1, <1>6
    <3> QED
      BY <3>2, <2>4, <1>2
  <2> QED
    BY <2>5, <2>6, <1>4
<1>15. FieldsOf(input)' = Pool(K, V)
  BY <1>1 DEF FieldsOf, Pool, Keys, Vals, K, V
<1>16. Keys(body)' = Keys(body')
  BY DEF Keys
<1>17. input' \in Seq(FieldsOf(input)') /\ read' \in 0 .. Len(input')
  BY <1>1, <1>2, <1>15
<1>18. \A p \in DOMAIN body' : \E n \in 1 .. read' : FirstCome(n, body[p].key)'
  BY <1>1, <1>10, <1>12 DEF FirstCome
<1>19. \A p \in DOMAIN body' :
         \E n \in 1 .. read' : LastCome(n, body[p].key)' /\ input'[n].val = body'[p].val
  <2>1. \A n, x : LastCome(n, x)' <=> LastNow(n, x)
    BY <1>1 DEF LastCome, LastNow
  <2> QED
    BY <1>1, <1>13, <2>1
<1>20. \A p, q \in DOMAIN body' : \A m, n \in 1 .. read' :
         p < q /\ FirstCome(m, body[p].key)' /\ FirstCome(n, body[q].key)' => m < n
  BY <1>1, <1>14 DEF FirstCome
<1> QED
  BY <1>1, <1>4, <1>9, <1>15, <1>16, <1>17, <1>18, <1>19, <1>20 DEF Parsed, Distinct

-----------------------------------------------------------------------------
(* The request that is sent *)

\* Where a key comes first is where the rewrite's reference has it.
LEMMA FirstComeIsFirst ==
  ASSUME Parsed, NEW k, NEW n \in DOMAIN input, FirstCome(n, k)
  PROVE  First(input, k) = n
<1> DEFINE Q(x) == input[x].key = k /\ \A m \in DOMAIN input : input[m].key = k => x <= m
<1>1. DOMAIN input \subseteq Nat /\ DOMAIN input = 1 .. Len(input)
  BY DEF Parsed
<1>2. Q(n)
  BY <1>1 DEF FirstCome
<1>3. \A x \in DOMAIN input : Q(x) => x = n
  <2> SUFFICES ASSUME NEW x \in DOMAIN input, Q(x) PROVE x = n
    OBVIOUS
  <2>1. x <= n /\ n <= x
    BY <1>2 DEF FirstCome
  <2> QED
    BY <2>1, <1>1
<1>4. First(input, k) = CHOOSE x \in DOMAIN input : Q(x)
  BY DEF First
<1> HIDE DEF Q
<1> QED
  BY <1>2, <1>3, <1>4

\* And the last one, once all is read.
LEMMA LastComeIsLast ==
  ASSUME Parsed, read = Len(input), NEW k, NEW n \in DOMAIN input, LastCome(n, k)
  PROVE  LastAt(input, k) = n
<1> DEFINE Q(x) == input[x].key = k /\ \A m \in DOMAIN input : input[m].key = k => m <= x
<1>1. DOMAIN input \subseteq Nat /\ DOMAIN input = 1 .. Len(input)
  BY DEF Parsed
<1>2. Q(n)
  BY <1>1 DEF LastCome
<1>3. \A x \in DOMAIN input : Q(x) => x = n
  <2> SUFFICES ASSUME NEW x \in DOMAIN input, Q(x) PROVE x = n
    OBVIOUS
  <2>1. x <= n /\ n <= x
    BY <1>2 DEF LastCome
  <2> QED
    BY <2>1, <1>1
<1>4. LastAt(input, k) = CHOOSE x \in DOMAIN input : Q(x)
  BY DEF LastAt
<1> HIDE DEF Q
<1> QED
  BY <1>2, <1>3, <1>4

\* When all is read: what the body says is what the reference reads out of the
\* fields as the client wrote them.
LEMMA ParsedReads ==
  ASSUME Parsed, read = Len(input)
  PROVE  /\ Keys(body) = Keys(input)
         /\ \A p \in DOMAIN body : body[p].val = input[LastAt(input, body[p].key)].val
         /\ \A p, q \in DOMAIN body : p < q => First(input, body[p].key) < First(input, body[q].key)
<1>0. DOMAIN input = 1 .. read
  BY DEF Parsed
<1>1. Keys(input) \subseteq Keys(body)
  BY <1>0 DEF Parsed, Keys
<1>2. ASSUME NEW p \in DOMAIN body PROVE body[p].key \in Keys(input)
  <2>1. PICK n \in 1 .. read : FirstCome(n, body[p].key)
    BY DEF Parsed
  <2> QED
    BY <1>0, <2>1 DEF FirstCome, Keys
<1>3. Keys(body) = Keys(input)
  BY <1>1, <1>2 DEF Keys
<1>4. ASSUME NEW p \in DOMAIN body PROVE body[p].val = input[LastAt(input, body[p].key)].val
  <2>1. PICK n \in 1 .. read : LastCome(n, body[p].key) /\ input[n].val = body[p].val
    BY DEF Parsed
  <2>2. LastAt(input, body[p].key) = n
    BY <1>0, <2>1, LastComeIsLast
  <2> QED
    BY <2>1, <2>2
<1>5. ASSUME NEW p \in DOMAIN body, NEW q \in DOMAIN body, p < q
      PROVE  First(input, body[p].key) < First(input, body[q].key)
  <2>1. PICK m \in 1 .. read : FirstCome(m, body[p].key)
    BY DEF Parsed
  <2>2. PICK n \in 1 .. read : FirstCome(n, body[q].key)
    BY DEF Parsed
  <2>3. m < n
    BY <1>5, <2>1, <2>2 DEF Parsed
  <2>4. First(input, body[p].key) = m /\ First(input, body[q].key) = n
    BY <1>0, <2>1, <2>2, FirstComeIsFirst
  <2> QED
    BY <2>3, <2>4
<1> QED
  BY <1>3, <1>4, <1>5

\* What is in a body under a key is what get finds.
LEMMA ValueFinds ==
  ASSUME NEW S, NEW b \in Seq(S), Distinct(b), NEW p \in DOMAIN b
  PROVE  Value(b, b[p].key) = b[p].val
BY FirstFinds DEF Value

\* prepare_body yields the rewrite, and leaves `stream` alone.
LEMMA PreparedIsRewrite ==
  ASSUME Parsed, read = Len(input), NEW model, NEW optIn \in BOOLEAN, NEW sidecar
  PROVE  /\ IsRewrite(input, PrepareBody(body, model, optIn, sidecar), model, optIn, sidecar)
         /\ IsStreaming(PrepareBody(body, model, optIn, sidecar)) <=> IsStreaming(body)
<1> DEFINE b == SetField(body, "model", Raw(model))
           merged == Object(Merge(ClientLabels(b), sidecar))
           out == PrepareBody(body, model, optIn, sidecar)
           K == Keys(input) \cup {"model", "labels"}
           V == Vals(input) \cup {Raw(model), merged}
           mkey == "model"
           lkey == "labels"
           raw == Raw(model)
<1>1. body \in Seq(Pool(K, V)) /\ Distinct(body)
  <2>1. FieldsOf(input) \subseteq Pool(K, V)
    BY DEF FieldsOf, Pool
  <2>2. body \in Seq(FieldsOf(input)) /\ Distinct(body)
    BY DEF Parsed
  <2> QED
    BY <2>1, <2>2, SeqWidens
<1>2. mkey \in K /\ lkey \in K /\ raw \in V /\ merged \in V
  OBVIOUS
<1>3. b = SetField(body, mkey, raw)
  OBVIOUS
<1>4. /\ optIn => out = SetField(b, lkey, merged)
      /\ ~optIn => out = b
  BY DEF PrepareBody
<1>5. merged = Object(Merge(ClientLabels(b), sidecar))
  OBVIOUS
<1> HIDE DEF b, merged, out, K, V, mkey, lkey, raw
<1>6. /\ b \in Seq(Pool(K, V)) /\ Distinct(b)
      /\ \A p \in DOMAIN body : /\ p \in DOMAIN b /\ b[p].key = body[p].key
                                /\ b[p].val = IF body[p].key = mkey THEN raw ELSE body[p].val
      /\ \A p \in DOMAIN b : \/ p \in DOMAIN body
                             \/ /\ p = Len(body) + 1 /\ mkey \notin Keys(body)
                                /\ b[p].key = mkey /\ b[p].val = raw
      /\ mkey \in Keys(b)
  <2>1. b \in Seq(Pool(K, V)) /\ Distinct(b) /\ SetTo(body, mkey, raw, b)
    BY <1>1, <1>2, <1>3, SetFieldYields
  <2> QED
    BY <2>1 DEF SetTo
<1>7. /\ out \in Seq(Pool(K, V)) /\ Distinct(out)
      /\ \A p \in DOMAIN b : p \in DOMAIN out /\ out[p].key = b[p].key
      /\ \A p \in DOMAIN b : out[p].val = IF optIn /\ b[p].key = lkey THEN merged ELSE b[p].val
      /\ \A p \in DOMAIN out : \/ p \in DOMAIN b
                               \/ /\ optIn /\ p = Len(b) + 1 /\ lkey \notin Keys(b)
                                  /\ out[p].key = lkey /\ out[p].val = merged
      /\ optIn => lkey \in Keys(out)
  <2>1. CASE optIn
    <3>1. out = SetField(b, lkey, merged)
      BY <2>1, <1>4
    <3> QED
      <4>1. /\ out \in Seq(Pool(K, V)) /\ Distinct(out)
            /\ \A p \in DOMAIN b : /\ p \in DOMAIN out /\ out[p].key = b[p].key
                                   /\ out[p].val = IF b[p].key = lkey THEN merged ELSE b[p].val
            /\ \A p \in DOMAIN out : \/ p \in DOMAIN b
                                     \/ /\ p = Len(b) + 1 /\ lkey \notin Keys(b)
                                        /\ out[p].key = lkey /\ out[p].val = merged
            /\ lkey \in Keys(out)
        <5>1. out \in Seq(Pool(K, V)) /\ Distinct(out) /\ SetTo(b, lkey, merged, out)
          BY <3>1, <1>2, <1>6, SetFieldYields
        <5> QED
          BY <5>1 DEF SetTo
      <4> QED
        BY <2>1, <4>1
  <2>2. CASE ~optIn
    BY <2>2, <1>4, <1>6
  <2> QED
    BY <2>1, <2>2
<1> USE DEF mkey, lkey, raw
<1>8. /\ Keys(body) = Keys(input)
      /\ \A p \in DOMAIN body : body[p].val = input[LastAt(input, body[p].key)].val
      /\ \A p, q \in DOMAIN body : p < q => First(input, body[p].key) < First(input, body[q].key)
  BY ParsedReads
<1>9. Keys(b) = Keys(input) \cup {"model"}
  <2>1. Keys(body) \subseteq Keys(b)
    BY <1>6 DEF Keys
  <2>2. Keys(b) \subseteq Keys(body) \cup {"model"}
    BY <1>6 DEF Keys
  <2> QED
    BY <1>6, <1>8, <2>1, <2>2
<1>10. Keys(out) = Keys(input) \cup {"model"} \cup (IF optIn THEN {"labels"} ELSE {})
  <2>1. Keys(b) \subseteq Keys(out)
    BY <1>7 DEF Keys
  <2>2. Keys(out) \subseteq Keys(b) \cup (IF optIn THEN {"labels"} ELSE {})
    BY <1>7 DEF Keys
  <2> QED
    BY <1>7, <1>9, <2>1, <2>2
<1>11. ASSUME NEW p \in DOMAIN out, NEW q \in DOMAIN out, p < q
       PROVE  /\ out[p].key # out[q].key
              /\ out[q].key \in Keys(input) =>
                   /\ out[p].key \in Keys(input)
                   /\ First(input, out[p].key) < First(input, out[q].key)
  <2>0. /\ DOMAIN body = 1 .. Len(body) /\ DOMAIN b = 1 .. Len(b) /\ DOMAIN out = 1 .. Len(out)
        /\ Len(body) \in Nat /\ Len(b) \in Nat /\ Len(out) \in Nat
    BY <1>1, <1>6, <1>7
  <2>1. p # q
    BY <1>11, <2>0
  <2>2. out[p].key # out[q].key
    BY <2>1, <1>7 DEF Distinct
  <2>3. ASSUME out[q].key \in Keys(input)
        PROVE  /\ out[p].key \in Keys(input)
               /\ First(input, out[p].key) < First(input, out[q].key)
    <3>1. q \in DOMAIN b
      BY <2>3, <1>7, <1>9
    <3>2. q \in DOMAIN body
      BY <2>3, <3>1, <1>6, <1>7, <1>8
    <3>3. p \in DOMAIN body
      BY <3>2, <2>0, <1>11
    <3>4. out[p].key = body[p].key /\ out[q].key = body[q].key
      BY <3>2, <3>3, <1>6, <1>7
    <3> QED
      BY <3>2, <3>3, <3>4, <1>8, <1>11 DEF Keys
  <2> QED
    BY <2>2, <2>3
<1>12. ASSUME optIn
       PROVE  merged = Expected(input, model, optIn, sidecar, "labels")
  <2> DEFINE client == IF "labels" \in Keys(input)
                       THEN input[LastAt(input, "labels")].val.labels ELSE <<>>
  <2>1. ClientLabels(b) = client
    <3>1. CASE "labels" \in Keys(input)
      <4>1. PICK p \in DOMAIN body : body[p].key = "labels"
        BY <3>1, <1>8 DEF Keys
      <4>2. p \in DOMAIN b /\ b[p].key = "labels" /\ b[p].val = body[p].val
        BY <4>1, <1>6
      <4>3. Value(b, "labels") = b[p].val
        BY <4>2, <1>6, ValueFinds
      <4>4. "labels" \in Keys(b)
        BY <3>1, <1>9
      <4> QED
        BY <3>1, <4>1, <4>2, <4>3, <4>4, <1>8 DEF ClientLabels
    <3>2. CASE "labels" \notin Keys(input)
      BY <3>2, <1>9 DEF ClientLabels
    <3> QED
      BY <3>1, <3>2
  <2>2. Expected(input, model, optIn, sidecar, "labels")
          = Object([l \in DOMAIN sidecar \cup (DOMAIN client \ DOMAIN sidecar) |->
                      IF l \in DOMAIN sidecar THEN sidecar[l] ELSE client[l]])
    BY <1>12 DEF Expected
  <2> HIDE DEF client
  <2>3. Merge(client, sidecar)
          = [l \in DOMAIN client \cup DOMAIN sidecar |->
               IF l \in DOMAIN sidecar THEN sidecar[l] ELSE client[l]]
    BY DEF Merge
  <2>4. DOMAIN sidecar \cup (DOMAIN client \ DOMAIN sidecar) = DOMAIN client \cup DOMAIN sidecar
    OBVIOUS
  <2> QED
    BY <1>5, <2>1, <2>2, <2>3, <2>4
<1>13. ASSUME NEW p \in DOMAIN out
       PROVE  out[p].val = Expected(input, model, optIn, sidecar, out[p].key)
  <2>1. CASE optIn /\ out[p].key = "labels"
    BY <2>1, <1>7, <1>12
  <2>2. CASE ~(optIn /\ out[p].key = "labels")
    <3>1. p \in DOMAIN b /\ out[p].key = b[p].key /\ out[p].val = b[p].val
      BY <2>2, <1>7
    <3>2. CASE b[p].key = "model"
      <4>1. b[p].val = Raw(model)
        BY <3>1, <3>2, <1>6
      <4> QED
        BY <3>1, <3>2, <4>1 DEF Expected
    <3>3. CASE b[p].key # "model"
      <4>1. p \in DOMAIN body /\ b[p].key = body[p].key /\ b[p].val = body[p].val
        BY <3>1, <3>3, <1>6
      <4> QED
        BY <2>2, <3>1, <3>3, <4>1, <1>8 DEF Expected
    <3> QED
      BY <3>2, <3>3
  <2> QED
    BY <2>1, <2>2
<1>14. IsRewrite(input, out, model, optIn, sidecar)
  BY <1>10, <1>11, <1>13 DEF IsRewrite
<1>15. IsStreaming(out) <=> IsStreaming(body)
  <2>1. "stream" \in Keys(out) <=> "stream" \in Keys(body)
    BY <1>8, <1>10
  <2>2. ASSUME "stream" \in Keys(body) PROVE Value(out, "stream") = Value(body, "stream")
    <3>1. PICK p \in DOMAIN body : body[p].key = "stream"
      BY <2>2 DEF Keys
    <3>2. p \in DOMAIN b /\ b[p].key = "stream" /\ b[p].val = body[p].val
      BY <3>1, <1>6
    <3>3. p \in DOMAIN out /\ out[p].key = "stream" /\ out[p].val = body[p].val
      BY <3>2, <1>7
    <3>4. Value(out, "stream") = out[p].val
      BY <3>3, <1>7, ValueFinds
    <3>5. Value(body, "stream") = body[p].val
      BY <3>1, <1>1, ValueFinds
    <3> QED
      BY <3>3, <3>4, <3>5
  <2> QED
    BY <2>1, <2>2 DEF IsStreaming
<1> QED
  BY <1>14, <1>15 DEF out

\* Only Forward sends, and what it sends is never touched again.
LEMMA SentStep ==
  ASSUME StartInv, Parsed, SentAsIntended, [Next]_vars
  PROVE  Parsed' /\ SentAsIntended'
<1>0. CASE UNCHANGED <<config, input, read, body, sent>> /\ (pc' = "sent" => pc = "sent")
  <2>1. SentAsIntended'
    <3>1. SentAsIntended => (pc = "sent" =>
            /\ IsRewrite(input, sent.out, sent.cand.model, sent.cand.optIn, config.attribution)
            /\ sent.streaming = IsStreaming(sent.out)
            /\ IsInjective(sent.headers))
      BY DEF SentAsIntended
    <3> QED
      BY <1>0, <3>1 DEF SentAsIntended
  <2> QED
    BY <1>0, <2>1, ParsedStays
<1>1. CASE Load
  BY <1>0, <1>1 DEF Load, GiveUp, request
<1>2. CASE \E a \in todo : BeginAlias(a) \/ ResolveCandidate(a) \/ InsertAlias(a)
  BY <1>0, <1>2 DEF BeginAlias, ResolveCandidate, InsertAlias, GiveUp, request
<1>3. CASE RegisterAliases \/ EnableGcp \/ ResolveBudget \/ InitZero
  BY <1>0, <1>3 DEF RegisterAliases, EnableGcp, ResolveBudget, InitZero, request
<1>4. CASE Bind
  BY <1>0, <1>4 DEF Bind, GiveUp, request
<1>5. CASE Arrive
  BY <1>5, ArriveParses DEF Arrive, SentAsIntended
<1>6. CASE ReadField
  BY <1>6, ReadFieldParses DEF ReadField, SentAsIntended
<1>7. ASSUME NEW a \in DOMAIN map, NEW n \in DOMAIN map[a], Forward(a, n)
      PROVE  Parsed' /\ SentAsIntended'
  <2> DEFINE c == map[a][n]
             out == PrepareBody(body, c.model, c.optIn, config.attribution)
  <2>1. /\ pc = "parsing" /\ read = Len(input)
        /\ sent' = [alias |-> a, cand |-> c, streaming |-> IsStreaming(body),
                    headers |-> OutboundHeaders(c), out |-> out]
        /\ UNCHANGED <<config, input, read, body>>
    BY <1>7 DEF Forward
  <2>2. c.optIn \in BOOLEAN
    <3>1. c \in Entries
      BY DEF StartInv, Tables
    <3>2. PICK d \in Listed, k \in Nat : c = Entry(d, k)
      BY <3>1 DEF Entries
    <3>3. c.optIn = OptsIn(config.provider[d.provider])
      BY <3>2 DEF Entry
    <3> QED
      BY <3>3 DEF OptsIn
  <2>3. IsInjective(OutboundHeaders(c))
    BY <2>1, HeadersOnce DEF Serving
  <2> HIDE DEF c
  <2>4. /\ IsRewrite(input, out, c.model, c.optIn, config.attribution)
        /\ IsStreaming(out) <=> IsStreaming(body)
    BY <2>1, <2>2, PreparedIsRewrite
  <2> HIDE DEF out
  <2>5. IsStreaming(out) = IsStreaming(body)
    BY <2>4 DEF IsStreaming
  <2>6. /\ sent'.out = out /\ sent'.cand = c /\ sent'.headers = OutboundHeaders(c)
        /\ sent'.streaming = IsStreaming(body)
    BY <2>1
  <2>7. SentAsIntended'
    BY <2>1, <2>3, <2>4, <2>5, <2>6 DEF SentAsIntended
  <2>8. Parsed'
    BY <2>1, ParsedStays
  <2> QED
    BY <2>7, <2>8
<1>8. CASE UNCHANGED vars
  BY <1>0, <1>8 DEF vars, request
<1>9. CASE Stopped
  BY <1>8, <1>9 DEF Stopped
<1> QED
  BY Zenon, <1>1, <1>2, <1>3, <1>4, <1>5, <1>6, <1>7, <1>8, <1>9 DEF Next

\* The body that upstream gets is the client's, for every body: the last value
\* of each key in the order in which the keys came, but for the model and the
\* labels; it says of streaming what the proxy goes by; and no header is there
\* twice, whatever a provider section configures.
THEOREM StartupSentAsIntended == Spec => []SentAsIntended
<1>1. Init => Parsed /\ SentAsIntended
  BY ParsedInit DEF Init, SentAsIntended
<1>2. StartInv /\ Parsed /\ SentAsIntended /\ [Next]_vars => Parsed' /\ SentAsIntended'
  BY SentStep
<1> QED
  BY <1>1, <1>2, StartInvAlways, PTL DEF Spec
=============================================================================
