------------------------------ MODULE Startup -------------------------------
(***************************************************************************)
(* From the configuration to the first request: src/main.rs main, with     *)
(* Config::validate and the resolution of providers (src/config.rs),       *)
(* ModelMap::from_config (src/model_map.rs) and what depends on it, and    *)
(* then one request that is rewritten for a candidate and sent             *)
(* (src/proxy.rs).                                                         *)
(*                                                                         *)
(* A name is the list of its parts between slashes and the class of its    *)
(* characters: "visible" ASCII, "opaque" bytes (UTF-8) which a header may  *)
(* carry but to_str refuses, "control" which no header may carry.          *)
(***************************************************************************)
EXTENDS RawBody, FiniteSets

CONSTANTS
  Starts,             \* configurations that parse, and the cgroup they meet
  Inputs,             \* request bodies
  MaxUsize,           \* usize::MAX
  Unbounded           \* v1 reports this much or more when there is no limit

NoLimit == -1

\* What the types of Config and of the cgroup files admit.
ASSUME StartupAssumption ==
  /\ MaxUsize \in Nat /\ Unbounded \in Nat
  /\ \A s \in Starts :
       /\ s.host \in [version : {"none", "v1", "v2"}, limit : Nat \cup {NoLimit}]
       /\ s.config.buffered \in {NoLimit} \cup 0 .. MaxUsize
       /\ s.config.maxBody \in Nat
       /\ \A a \in DOMAIN s.config.model :
            s.config.model[a] \in Seq(ToSet(s.config.model[a]))
       /\ \A p \in DOMAIN s.config.provider :
            s.config.provider[p].headers \in Seq(ToSet(s.config.provider[p].headers))
  /\ \A i \in Inputs : i \in Seq(FieldsOf(i))

VARIABLES
  config, host,       \* what the process is started with
  pc,                 \* the stage of main
  why,                \* why it gave up
  todo,               \* aliases from_config has not inserted yet
  doing,              \* the one of them it is at, if any
  resolved,           \* and the candidates it has resolved of that one
  map,                \* ModelMap.aliases
  slots,              \* the (provider, model) of each slot of the tracker
  counters,           \* aliases with a round-robin counter
  gcp,                \* there is a GcpTokenProvider
  budget,             \* the buffer budget in bytes
  series,             \* errors_total series that exist
  input,              \* the fields of the request's body as the client wrote it
  read,               \* how many of them visit_map has read
  body,               \* the RawBody made of those
  sent                \* the request that went upstream

built == <<map, slots, counters, gcp, budget, series>>
local == <<todo, doing, resolved>>
request == <<input, read, body, sent>>
vars == <<config, host, pc, why, local, built, request>>

Nothing == [alias |-> "none"]

Init ==
  /\ \E s \in Starts : config = s.config /\ host = s.host
  /\ pc = "load"
  /\ why = "running"
  /\ todo = {} /\ doing = {} /\ resolved = <<>>
  /\ map = <<>>
  /\ slots = <<>>
  /\ counters = {}
  /\ gcp = FALSE
  /\ budget = 0
  /\ series = {}
  /\ input = <<>> /\ read = 0 /\ body = <<>>
  /\ sent = Nothing

Providers == DOMAIN config.provider
Aliases == DOMAIN config.model

GiveUp(reason) ==
  /\ pc' = "failed" /\ why' = reason
  /\ UNCHANGED <<config, host, local, built, request>>

-----------------------------------------------------------------------------
(* ProviderConfig *)

HasBaseUrl(p) == p.base # "none" \/ p.shorthands # {}

\* `base_url` goes before a shorthand, whose URL is always https.
UrlOk(p) == p.base = "none" \/ p.base = "http"

Kind(p) ==
  IF "vertex_ai" \in p.shorthands THEN IF p.key THEN "ApiKey" ELSE "GcpAdc"
  ELSE IF "azure_openai" \in p.shorthands THEN "AzureOpenAi"
  ELSE IF "google_ai" \in p.shorthands THEN "ApiKey"
  ELSE IF "anthropic" \in p.shorthands THEN "Anthropic"
  ELSE "ApiKey"

OptsIn(p) == "vertex_ai" \in p.shorthands /\ p.attribution

\* Header names are lower case once they are HeaderNames.
HopByHop == {"connection", "proxy-authorization", "te", "trailer",
             "transfer-encoding", "upgrade", "keep-alive"}

Reserved == HopByHop \cup
  {"content-type", "authorization", "content-encoding", "content-length", "host",
   "api-key", "x-api-key", "anthropic-version"}

HeadersOk(p) == IsInjective(p.headers) /\ ToSet(p.headers) \cap Reserved = {}

-----------------------------------------------------------------------------
(* Config::load and validate *)

ProviderOk(p) ==
  /\ Cardinality(p.shorthands) <= 1
  /\ HasBaseUrl(p) /\ UrlOk(p)
  /\ HeadersOk(p)

\* A slip: candidates may name a provider that is not there.
AnyProvider(c) == TRUE

ProviderKnown(c) == c.provider \in Providers

Valid ==
  /\ config.metrics # "same" /\ config.routing
  /\ \A n \in Providers : ProviderOk(config.provider[n])
  /\ \A a \in Aliases : \A c \in ToSet(config.model[a]) : ProviderKnown(c)
  /\ (\E n \in Providers : OptsIn(config.provider[n])) => config.attribution # <<>>

Load ==
  /\ pc = "load"
  /\ IF Valid
     THEN /\ pc' = "map" /\ todo' = Aliases
          /\ UNCHANGED <<config, host, why, doing, resolved, built, request>>
     ELSE GiveUp("invalid")

-----------------------------------------------------------------------------
(* ModelMap::from_config *)

\* "{provider}/{model}"
AffinityHeader(c) ==
  [parts |-> c.provider.parts \o c.model.parts,
   chars |-> IF "control" \in {c.provider.chars, c.model.chars} THEN "control"
             ELSE IF "opaque" \in {c.provider.chars, c.model.chars} THEN "opaque"
             ELSE "visible"]

\* The reason why a candidate cannot be resolved.
Refusal(c) ==
  IF c.provider \notin Providers THEN "provider"
  ELSE IF ~HasBaseUrl(config.provider[c.provider]) THEN "base_url"
  ELSE IF AffinityHeader(c).chars = "control" THEN "name"
  ELSE IF ~HeadersOk(config.provider[c.provider]) THEN "headers"
  ELSE "none"

Pair(c) == <<c.provider, c.model>>

\* A slip: every alias registers its own.
AlwaysRegister(known, c) == Append(known, Pair(c))

\* `dedup.entry(key).or_insert_with(|| tracker.register())`
Register(known, c) ==
  IF Pair(c) \in ToSet(known) THEN known ELSE Append(known, Pair(c))

\* The slot in which the candidate's pair was found or put.
SlotOf(known, c) ==
  IF Register(known, c) = known
  THEN CHOOSE n \in DOMAIN known : known[n] = Pair(c)
  ELSE Len(known) + 1

Resolved(c) ==
  LET p == config.provider[c.provider]
  IN  [provider |-> c.provider, model |-> c.model, kind |-> Kind(p),
       slot |-> SlotOf(slots, c), optIn |-> OptsIn(p)]

\* The aliases come in the order of a HashMap.
BeginAlias(a) ==
  /\ pc = "map" /\ doing = {} /\ a \in todo
  /\ doing' = {a}
  /\ UNCHANGED <<config, host, pc, why, todo, resolved, built, request>>

\* The candidates come in their order, and the first that is refused ends it.
ResolveCandidate(a) ==
  /\ pc = "map" /\ a \in doing /\ Len(resolved) < Len(config.model[a])
  /\ LET c == config.model[a][Len(resolved) + 1]
     IN  IF Refusal(c) = "none"
         THEN /\ slots' = Register(slots, c)
              /\ resolved' = Append(resolved, Resolved(c))
              /\ UNCHANGED <<config, host, pc, why, todo, doing, map, counters,
                             gcp, budget, series, request>>
         ELSE GiveUp(Refusal(c))

\* `aliases.insert(alias.clone(), resolved)`
InsertAlias(a) ==
  /\ pc = "map" /\ a \in doing /\ Len(resolved) = Len(config.model[a])
  /\ map' = [x \in DOMAIN map \cup {a} |-> IF x = a THEN resolved ELSE map[x]]
  /\ todo' = todo \ {a} /\ doing' = {} /\ resolved' = <<>>
  /\ UNCHANGED <<config, host, pc, why, slots, counters, gcp, budget, series, request>>

-----------------------------------------------------------------------------
(* The rest of main *)

RegisterAliases ==
  /\ pc = "map" /\ todo = {}
  /\ counters' = Aliases
  /\ pc' = "gcp"
  /\ UNCHANGED <<config, host, why, local, map, slots, gcp, budget, series, request>>

\* A slip: only providers of the vertex shorthand without a base_url count.
NeedsDerived == \E n \in Providers :
  config.provider[n].base = "none" /\ Kind(config.provider[n]) = "GcpAdc"

NeedsGcp == \E n \in Providers : Kind(config.provider[n]) = "GcpAdc"

EnableGcp ==
  /\ pc = "gcp"
  /\ gcp' = NeedsGcp
  /\ pc' = "budget"
  /\ UNCHANGED <<config, host, why, local, map, slots, counters, budget, series, request>>

\* A slip: only the files of cgroup v2 are read.
DetectedV2 == IF host.version = "v2" THEN host.limit ELSE NoLimit

\* cgroup_memory_limit: what the file of the version in use says.
DetectedLimit ==
  CASE host.version = "v2" -> host.limit
    [] host.version = "v1" -> IF host.limit = NoLimit THEN NoLimit
                              ELSE IF host.limit < Unbounded THEN host.limit ELSE NoLimit
    [] host.version = "none" -> NoLimit

\* Both the conversion of half the limit and the product saturate.
Saturated(n) == IF n > MaxUsize THEN MaxUsize ELSE n

BudgetBytes ==
  IF config.buffered # NoLimit THEN config.buffered
  ELSE IF DetectedLimit # NoLimit THEN Saturated(DetectedLimit \div 2)
  ELSE Saturated(4 * config.maxBody)

ResolveBudget ==
  /\ pc = "budget"
  /\ budget' = BudgetBytes
  /\ pc' = "metrics"
  /\ UNCHANGED <<config, host, why, local, map, slots, counters, gcp, series, request>>

\* init_zero, over ModelMap::iter
InitZero ==
  /\ pc = "metrics"
  /\ series' = UNION {{<<a, c.provider, c.model>> : c \in ToSet(map[a])} : a \in DOMAIN map}
  /\ pc' = "bind"
  /\ UNCHANGED <<config, host, why, local, map, slots, counters, gcp, budget, request>>

\* The addresses may be taken.
Bind ==
  /\ pc = "bind"
  /\ \/ GiveUp("bind")
     \/ /\ pc' = "serving"
        /\ UNCHANGED <<config, host, why, local, built, request>>

-----------------------------------------------------------------------------
(* One request: forward_request *)

Credential(kind, key) ==
  CASE kind = "ApiKey" -> IF key THEN <<"authorization">> ELSE <<>>
    [] kind = "GcpAdc" -> <<"authorization">>
    [] kind = "AzureOpenAi" -> IF key THEN <<"api-key">> ELSE <<>>
    [] kind = "Anthropic" -> (IF key THEN <<"x-api-key">> ELSE <<>>) \o <<"anthropic-version">>

\* RequestBuilder::header appends, as the extra headers do.
OutboundHeaders(c) ==
  LET p == config.provider[c.provider]
  IN  <<"content-type">> \o Credential(c.kind, p.key) \o p.headers

Arrive ==
  /\ pc = "serving"
  /\ input' \in Inputs /\ read' = 0 /\ body' = <<>>
  /\ pc' = "parsing"
  /\ UNCHANGED <<config, host, why, local, built, sent>>

\* visit_map: a key that came before keeps its place and takes the new value.
ReadField ==
  /\ pc = "parsing" /\ read < Len(input)
  /\ LET f == input[read + 1] IN body' = SetField(body, f.key, f.val)
  /\ read' = read + 1
  /\ UNCHANGED <<config, host, pc, why, local, built, input, sent>>

\* The body names the alias, and routing picks one of its candidates.
Forward(a, n) ==
  /\ pc = "parsing" /\ read = Len(input)
  /\ "model" \in Keys(body) /\ Value(body, "model") = Raw(a)
  /\ n \in DOMAIN map[a]
  /\ LET c == map[a][n] IN
       sent' = [alias |-> a, cand |-> c,
                streaming |-> IsStreaming(body),
                headers |-> OutboundHeaders(c),
                out |-> PrepareBody(body, c.model, c.optIn, config.attribution)]
  /\ pc' = "sent"
  /\ UNCHANGED <<config, host, why, local, built, input, read, body>>

\* main returned an error, or no request comes, or it is refused or sent.
Stopped == pc \in {"failed", "serving", "parsing", "sent"} /\ UNCHANGED vars

Next ==
  \/ Load
  \/ \E a \in todo : BeginAlias(a) \/ ResolveCandidate(a) \/ InsertAlias(a)
  \/ RegisterAliases \/ EnableGcp \/ ResolveBudget \/ InitZero \/ Bind
  \/ Arrive \/ ReadField
  \/ \E a \in DOMAIN map : \E n \in DOMAIN map[a] : Forward(a, n)
  \/ Stopped

Spec == Init /\ [][Next]_vars

-----------------------------------------------------------------------------
Candidates == (UNION {ToSet(map[a]) : a \in DOMAIN map}) \cup ToSet(resolved)
Serving == pc \in {"serving", "parsing", "sent"}

TypeOK ==
  /\ host \in [version : {"none", "v1", "v2"}, limit : Nat \cup {NoLimit}]
  /\ pc \in {"load", "map", "gcp", "budget", "metrics", "bind", "serving", "parsing", "sent", "failed"}
  /\ why \in {"running", "invalid", "provider", "base_url", "name", "headers", "bind"}
  /\ todo \subseteq Aliases /\ DOMAIN map \subseteq Aliases
  /\ doing \subseteq todo /\ Cardinality(doing) <= 1
  /\ IsInjective(slots)
  /\ counters \subseteq Aliases
  /\ gcp \in BOOLEAN
  /\ budget \in 0 .. MaxUsize

\* In whatever order the aliases come, two candidates share their statistics
\* exactly when they are the same provider and model, and every slot belongs
\* to a candidate: no feedback is split, mixed or lost.
SlotsFollowPairs ==
  /\ \A c, d \in Candidates : (c.slot = d.slot) <=> (Pair(c) = Pair(d))
  /\ {c.slot : c \in Candidates} = DOMAIN slots

\* What the request path takes for granted of a process that serves: every
\* alias has its counter (a missing one would pin the schedule to tick 0),
\* every candidate its error series, every GcpAdc candidate a token provider,
\* and labels are merged only where there are some.
ServesEveryCandidate ==
  Serving =>
    /\ DOMAIN map = Aliases /\ counters = Aliases
    /\ \A a \in Aliases : \A c \in ToSet(map[a]) :
         /\ <<a, c.provider, c.model>> \in series
         /\ c.kind = "GcpAdc" => gcp
         /\ c.optIn => config.attribution # <<>>

\* A configuration that was accepted is not refused half-way by from_config,
\* except for a name that no header can carry.
AcceptedMeansResolvable == why \notin {"provider", "base_url", "headers"}

\* The default budget leaves half of the memory the host really gives.
BudgetWithinHost ==
  Serving /\ config.buffered = NoLimit /\ host.version # "none" /\ host.limit \in 0 .. Unbounded - 1
    => 2 * budget <= host.limit

\* The body upstream gets is the client's, with the model and the labels
\* rewritten, duplicates collapsed to their last value, the order kept; what
\* it says of streaming is what the proxy goes by; and no header is sent
\* twice, so that no configured one competes with the credentials.
SentAsIntended ==
  pc = "sent" =>
    /\ IsRewrite(input, sent.out, sent.cand.model, sent.cand.optIn, config.attribution)
    /\ sent.streaming = IsStreaming(sent.out)
    /\ IsInjective(sent.headers)

-----------------------------------------------------------------------------
(* Session affinity *)

\* `value.to_str().ok()` and `split_once('/')`
Pinned(header, cs) ==
  {c \in ToSet(cs) :
     /\ header.chars = "visible" /\ Len(header.parts) > 1
     /\ c.provider = [parts |-> <<Head(header.parts)>>, chars |-> "visible"]
     /\ c.model = [parts |-> Tail(header.parts), chars |-> "visible"]}

\* README "Session affinity": "Pass it back on subsequent requests to pin to
\* the same provider".  The header that comes with a candidate's response
\* leads back to that candidate.
PinsComeBack ==
  Serving => \A a \in Aliases : \A c \in ToSet(map[a]) :
    \E d \in Pinned(AffinityHeader(c), map[a]) : Pair(d) = Pair(c)
=============================================================================
